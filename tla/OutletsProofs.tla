---------------------------- MODULE OutletsProofs ----------------------------
(***************************************************************************)
(* TLAPS proofs about Outlets: Notification and Audit, for any number of    *)
(* invoices, decisions of each, handlers, faults, crashes and overlaps.     *)
(***************************************************************************)
EXTENDS Outlets, FiniteSetTheorems, TLAPS

\* A handler at work has one of the events, and past send() somebody was told.
HandlerOK(h) ==
    /\ pc[h] = "idle" <=> job[h] = NoEvent
    /\ pc[h] # "idle" => job[h] \in events
    /\ pc[h] = "mark" => told[job[h].tid] > 0

\* The handlers that are about to tell the submitter of t.
Sending(t) == {h \in Handlers : pc[h] = "send" /\ job[h].tid = t}

\* Nobody tells, and nothing keeps the next delivery from telling.
Free(t) == t \notin marked /\ ~InFlight(t)

\* What may still be told is paid for by the first message and by each fault,
\* crash and overlap.
Paid(t) ==
    /\ IsFiniteSet(Sending(t))
    /\ told[t] + Cardinality(Sending(t)) + (IF Free(t) THEN 1 ELSE 0) <= 1 + faults + crashes + overlaps

\* TypeOK, but for the bound on told, which needs Paid.
Types ==
    /\ events \subseteq Event
    /\ marked \subseteq TrackingIds
    /\ told \in [TrackingIds -> Nat]
    /\ pc \in [Handlers -> {"idle", "send", "mark"}]
    /\ job \in [Handlers -> Event \cup {NoEvent}]
    /\ notified \subseteq events /\ recorded \subseteq events
    /\ rows \in [TrackingIds -> Rows]
    /\ faults \in 0..MaxFaults /\ crashes \in 0..MaxCrashes /\ overlaps \in 0..MaxOverlaps

OutletsInv ==
    /\ Types
    /\ MarkedIsTold
    /\ \A h \in Handlers : HandlerOK(h)
    /\ \A t \in TrackingIds : Paid(t)

-----------------------------------------------------------------------------
(* The audit trail                                                          *)

\* An invoice is resolved once and paid once, however often it is decided.
EndsOnce ==
    \A e, f \in events : e.tid = f.tid /\ e.topic = f.topic /\ e.topic # "decision" => e = f

\* What a row holds some event said, and who was acknowledged has left it a row.
RowOK(t) ==
    /\ rows[t].route # "none" => \E e \in events : e.tid = t /\ e.route = rows[t].route
    /\ rows[t].route = "none" => rows[t] = NoRow
    /\ rows[t].approval # "none" =>
          \E e \in events : e.tid = t /\ e.topic = "approval" /\ e.resolution = rows[t].approval
    /\ rows[t].payment # "none" =>
          \E e \in events : e.tid = t /\ e.topic = "payment" /\ e.resolution = rows[t].payment

RecordedOK(e) ==
    /\ rows[e.tid].route # "none"
    /\ e.topic = "approval" => rows[e.tid].approval = e.resolution

AuditInv ==
    /\ OutletsInv
    /\ EndsOnce
    /\ \A t \in TrackingIds : RowOK(t)
    /\ \A e \in recorded : RecordedOK(e)

-----------------------------------------------------------------------------
(* What a submitter is told                                                 *)

\* Nobody new is about to tell, and what may be told is paid for as before.
LEMMA SamePaid ==
    ASSUME NEW t \in TrackingIds, Paid(t), Types,
           told'[t] = told[t], pc' = pc, job' = job, marked \subseteq marked',
           faults' \in Nat, faults' >= faults, crashes' = crashes, overlaps' = overlaps
    PROVE  Paid(t)'
<1>1. Sending(t)' = Sending(t) BY DEF Sending
<1>2. Free(t)' => Free(t) BY DEF Free, InFlight
<1>3. told[t] \in Nat /\ faults \in Nat /\ crashes \in Nat /\ overlaps \in Nat BY TopicsAssumption, NotificationAssumption DEF Types
<1>4. Cardinality(Sending(t)) \in Nat BY FS_CardinalityType DEF Paid
<1> DEFINE c == Cardinality(Sending(t))
<1>5. told[t] + c + (IF Free(t) THEN 1 ELSE 0) <= 1 + faults + crashes + overlaps BY DEF Paid
<1>6. told[t] + c + (IF Free(t)' THEN 1 ELSE 0) <= 1 + faults' + crashes + overlaps
  <2> HIDE DEF c
  <2>1. c \in Nat BY <1>4 DEF c
  <2> QED BY <1>2, <1>3, <1>5, <2>1
<1> QED BY <1>1, <1>6 DEF Paid

\* Steps of the topics and of Audit change nothing of Notification.
LEMMA ElsewhereKeeps ==
    ASSUME OutletsInv, Types', events \subseteq events',
           marked' = marked, told' = told, pc' = pc, job' = job,
           faults' >= faults, crashes' = crashes, overlaps' = overlaps
    PROVE  OutletsInv'
<1>1. MarkedIsTold' BY DEF OutletsInv, MarkedIsTold
<1>2. \A h \in Handlers : HandlerOK(h)' BY DEF OutletsInv, HandlerOK
<1>3. faults' \in Nat BY TopicsAssumption DEF Types
<1>4. \A t \in TrackingIds : Paid(t)' BY <1>3, SamePaid DEF OutletsInv
<1> QED BY <1>1, <1>2, <1>4 DEF OutletsInv

\* What the services may announce are events.
LEMMA ProducedIsEvent ==
    ASSUME Types, Produce
    PROVE  \E e \in Event : events' = events \cup {e}
<1>1. ASSUME NEW t \in TrackingIds, NEW route \in Routes, Decide(t, route)
      PROVE  \E e \in Event : events' = events \cup {e}
  <2> DEFINE d == [tid |-> t, topic |-> "decision", route |-> route, resolution |-> "none"]
  <2>1. d \in Event BY DEF Event
  <2> QED BY <1>1, <2>1 DEF Decide, Announce
<1>2. ASSUME NEW t \in TrackingIds, NEW r \in {"approved", "rejected"}, Resolve(t, r)
      PROVE  \E e \in Event : events' = events \cup {e}
  <2> DEFINE d == [tid |-> t, topic |-> "approval", route |-> "human_review", resolution |-> r]
  <2>1. d \in Event BY DEF Event
  <2> QED BY <1>2, <2>1 DEF Resolve, Announce
<1>3. ASSUME NEW t \in TrackingIds, NEW r \in {"completed", "failed"}, Pay(t, r)
      PROVE  \E e \in Event : events' = events \cup {e}
  <2>1. PICK e \in events : /\ e.tid = t /\ (e.route = "auto_approve" \/ e.resolution = "approved")
                            /\ Announce(t, "payment", e.route, r)
    BY <1>3 DEF Pay
  <2>2. e \in Event BY DEF Types
  <2>3. e.route \in {"auto_approve", "human_review"} BY <2>1, <2>2 DEF Event
  <2> DEFINE d == [tid |-> t, topic |-> "payment", route |-> e.route, resolution |-> r]
  <2>4. d \in Event BY <2>3 DEF Event
  <2> QED BY <2>1, <2>4 DEF Announce
<1> QED BY <1>1, <1>2, <1>3 DEF Produce

\* A new event changes nothing that is kept of the old ones.
LEMMA ProduceKeeps ==
    ASSUME OutletsInv, Produce, UNCHANGED <<notification, audit, faults>>
    PROVE  OutletsInv' /\ UNCHANGED <<rows, recorded>>
<1>1. /\ marked' = marked /\ told' = told /\ pc' = pc /\ job' = job /\ notified' = notified
      /\ crashes' = crashes /\ overlaps' = overlaps /\ faults' = faults
      /\ rows' = rows /\ recorded' = recorded
  BY DEF notification, handlers, audit
<1>2. Types BY DEF OutletsInv
<1>3. PICK e \in Event : events' = events \cup {e} BY <1>2, ProducedIsEvent
<1>4. Types' BY <1>1, <1>2, <1>3 DEF Types
<1>5. faults' >= faults BY <1>1, <1>2 DEF Types
<1> QED BY <1>1, <1>3, <1>4, <1>5, ElsewhereKeeps

\* A row enriched by an event is a row.
LEMMA EnrichedShape ==
    ASSUME NEW row \in Rows, NEW e \in Event
    PROVE  /\ Enriched(row, e) \in Rows
           /\ Enriched(row, e).route = e.route
           /\ Enriched(row, e).decided = (row.decided \/ e.topic = "decision")
           /\ Enriched(row, e).approval = IF e.topic = "approval" THEN e.resolution ELSE row.approval
           /\ Enriched(row, e).payment = IF e.topic = "payment" THEN e.resolution ELSE row.payment
<1>1. /\ e.route \in Routes
      /\ e.topic = "approval" => e.resolution \in {"approved", "rejected"}
      /\ e.topic = "payment" => e.resolution \in {"completed", "failed"}
  BY DEF Event, Routes
<1>2. /\ row.decided \in BOOLEAN /\ row.approval \in {"none", "approved", "rejected"}
      /\ row.payment \in {"none", "completed", "failed"}
  BY DEF Rows
<1>3. Enriched(row, e) =
        [route |-> e.route, decided |-> row.decided \/ e.topic = "decision",
         approval |-> IF e.topic = "approval" THEN e.resolution ELSE row.approval,
         payment |-> IF e.topic = "payment" THEN e.resolution ELSE row.payment]
  BY DEF Enriched, OwnColumns, BaseColumns
<1> QED BY <1>1, <1>2, <1>3 DEF Rows

\* What a delivery to Audit changes: a row, unless the statement failed.
RecordEffect(e) ==
    /\ rows' = rows \/ rows' = [rows EXCEPT ![e.tid] = Enriched(rows[e.tid], e)]
    /\ \/ recorded' = recorded
       \/ recorded' = recorded \cup {e} /\ rows' = [rows EXCEPT ![e.tid] = Enriched(rows[e.tid], e)]
    /\ events' = events

\* A delivery to Audit touches its row and its books, nothing of Notification.
LEMMA RecordKeeps ==
    ASSUME OutletsInv, NEW e \in events, Record(e), UNCHANGED <<events, notification>>
    PROVE  OutletsInv' /\ RecordEffect(e) /\ e \in Event /\ e.tid \in TrackingIds
<1>1. /\ marked' = marked /\ told' = told /\ pc' = pc /\ job' = job /\ notified' = notified
      /\ crashes' = crashes /\ overlaps' = overlaps /\ events' = events
  BY DEF notification, handlers
<1>2. Types BY DEF OutletsInv
<1>3. e \in Event BY <1>2 DEF Types
<1>4. e.tid \in TrackingIds BY <1>3 DEF Event
<1>5. RecordEffect(e) BY <1>1 DEF Record, Upsert, Acknowledged, RecordEffect
<1>6. faults' \in 0..MaxFaults /\ faults' >= faults
  <2>1. faults' = faults \/ (faults < MaxFaults /\ faults' = faults + 1) BY DEF Record, Fault
  <2>2. faults \in 0..MaxFaults BY <1>2 DEF Types
  <2> QED BY <2>1, <2>2, TopicsAssumption
<1>7. rows[e.tid] \in Rows BY <1>2, <1>4 DEF Types
<1>8. Enriched(rows[e.tid], e) \in Rows BY <1>3, <1>7, EnrichedShape
<1>9. rows' \in [TrackingIds -> Rows] /\ recorded' \subseteq events
  BY <1>2, <1>5, <1>8 DEF Types, RecordEffect
<1>10. Types' BY <1>1, <1>2, <1>6, <1>9 DEF Types
<1> QED BY <1>1, <1>3, <1>4, <1>5, <1>6, <1>10, ElsewhereKeeps

-----------------------------------------------------------------------------
(* Notification's handlers                                                  *)

\* The numbers of Paid are numbers.
LEMMA Numbers ==
    ASSUME OutletsInv, NEW t \in TrackingIds
    PROVE  /\ told[t] \in Nat /\ Cardinality(Sending(t)) \in Nat
           /\ faults \in Nat /\ crashes \in Nat /\ overlaps \in Nat
<1>1. Types /\ IsFiniteSet(Sending(t)) BY DEF OutletsInv, Paid
<1>2. Cardinality(Sending(t)) \in Nat BY <1>1, FS_CardinalityType
<1> QED BY <1>1, <1>2, TopicsAssumption, NotificationAssumption DEF Types

\* A delivery for a marked invoice is acknowledged, and that is all.
LEMMA SkipKeeps ==
    ASSUME OutletsInv, NEW h \in Handlers, NEW e \in events, Skip(h, e), UNCHANGED audit
    PROVE  OutletsInv' /\ UNCHANGED <<events, audit>>
<1>1. /\ events' = events /\ marked' = marked /\ told' = told /\ pc' = pc /\ job' = job
      /\ crashes' = crashes /\ overlaps' = overlaps /\ faults' = faults
      /\ rows' = rows /\ recorded' = recorded /\ notified' = notified \cup {e}
  BY DEF Skip, handlers, audit
<1>2. Types' BY <1>1 DEF OutletsInv, Types
<1>3. faults' >= faults BY <1>1 DEF OutletsInv, Types
<1> QED BY <1>1, <1>2, <1>3, ElsewhereKeeps DEF audit

\* A handler starts on an invoice that is not marked: the first, or one counted.
LEMMA BeginKeeps ==
    ASSUME OutletsInv, NEW h \in Handlers, NEW e \in events, Begin(h, e), UNCHANGED audit
    PROVE  OutletsInv' /\ UNCHANGED <<events, audit>>
<1>1. /\ events' = events /\ marked' = marked /\ told' = told /\ notified' = notified
      /\ pc' = [pc EXCEPT ![h] = "send"] /\ job' = [job EXCEPT ![h] = e]
      /\ crashes' = crashes /\ faults' = faults /\ rows' = rows /\ recorded' = recorded
      /\ pc[h] = "idle" /\ e.tid \notin marked
      /\ \/ ~InFlight(e.tid) /\ overlaps' = overlaps
         \/ InFlight(e.tid) /\ overlaps < MaxOverlaps /\ overlaps' = overlaps + 1
  BY DEF Begin, Start, Arrive, AlreadyNotified, audit
<1>2. Types /\ HandlerOK(h) BY DEF OutletsInv
<1>3. e \in Event BY <1>2 DEF Types
<1>4. e.tid \in TrackingIds /\ e # NoEvent BY <1>3, NotificationAssumption DEF Event
<1>5. overlaps' \in 0..MaxOverlaps BY <1>1, <1>2, NotificationAssumption DEF Types
<1>6. pc' \in [Handlers -> {"idle", "send", "mark"}] /\ job' \in [Handlers -> Event \cup {NoEvent}]
  BY <1>1, <1>2, <1>3 DEF Types
<1>7. Types' BY <1>1, <1>2, <1>5, <1>6 DEF Types
<1>8. MarkedIsTold' BY <1>1 DEF OutletsInv, MarkedIsTold
<1>9. pc'[h] = "send" /\ job'[h] = e /\ \A i \in Handlers \ {h} : pc'[i] = pc[i] /\ job'[i] = job[i]
  BY <1>1, <1>2 DEF Types
<1>10. \A i \in Handlers : HandlerOK(i)'
  <2> TAKE i \in Handlers
  <2>1. CASE i = h BY <1>1, <1>4, <1>9, <2>1 DEF HandlerOK
  <2>2. CASE i # h
    <3>1. HandlerOK(i) BY DEF OutletsInv
    <3> QED BY <1>1, <1>9, <2>2, <3>1 DEF HandlerOK
  <2> QED BY <2>1, <2>2
<1>11. ASSUME NEW t \in TrackingIds PROVE Paid(t)'
  <2> DEFINE n == Cardinality(Sending(t))
             m == Cardinality(Sending(t)')
  <2>1. Paid(t) BY DEF OutletsInv
  <2>2. told[t] \in Nat /\ n \in Nat /\ faults \in Nat /\ crashes \in Nat /\ overlaps \in Nat BY Numbers
  <2>3. told[t] + n + (IF Free(t) THEN 1 ELSE 0) <= 1 + faults + crashes + overlaps BY <2>1 DEF Paid
  <2>4. CASE t = e.tid
    <3>1. Sending(t)' = Sending(t) \cup {h} /\ h \notin Sending(t)
      BY <1>1, <1>9, <2>4 DEF Sending
    <3>2. IsFiniteSet(Sending(t)') /\ m = n + 1 BY <2>1, <3>1, FS_AddElement DEF Paid
    <3>3. ~Free(t)' BY <1>4, <1>9, <2>4 DEF Free, InFlight
    <3>4. overlaps' = overlaps + 1 \/ (Free(t) /\ overlaps' = overlaps) BY <1>1, <2>4 DEF Free
    <3> HIDE DEF n, m
    <3>5. told[t] + m <= 1 + faults + crashes + overlaps' BY <2>2, <2>3, <3>2, <3>4
    <3>6. told[t] + m + (IF Free(t)' THEN 1 ELSE 0) <= 1 + faults + crashes + overlaps'
      BY <2>2, <3>2, <3>3, <3>5
    <3> QED BY <1>1, <3>2, <3>6 DEF Paid, m
  <2>5. CASE t # e.tid
    <3>1. Sending(t)' = Sending(t)
      BY <1>1, <1>9, <2>5 DEF Sending
    <3>2. Free(t)' => Free(t)
      <4> SUFFICES ASSUME InFlight(t), t \notin marked PROVE InFlight(t)' BY <1>1 DEF Free
      <4>1. PICK i \in Handlers : job[i] # NoEvent /\ job[i].tid = t BY DEF InFlight
      <4>2. i # h BY <1>1, <1>2, <4>1 DEF HandlerOK
      <4> QED BY <1>9, <4>1, <4>2 DEF InFlight
    <3>3. overlaps' = overlaps \/ overlaps' = overlaps + 1 BY <1>1
    <3> HIDE DEF n, m
    <3>4. told[t] + n + (IF Free(t)' THEN 1 ELSE 0) <= 1 + faults + crashes + overlaps'
      BY <2>2, <2>3, <3>2, <3>3
    <3> QED BY <1>1, <2>1, <3>1, <3>4 DEF Paid, n
  <2> QED BY <2>4, <2>5
<1> QED BY <1>1, <1>7, <1>8, <1>10, <1>11 DEF OutletsInv, audit

\* The message goes out: what was about to be told is told.
LEMMA SendKeeps ==
    ASSUME OutletsInv, NEW h \in Handlers, Send(h), UNCHANGED audit
    PROVE  OutletsInv' /\ UNCHANGED <<events, audit>>
<1>1. Types /\ HandlerOK(h) /\ pc[h] = "send" BY DEF OutletsInv, Send
<1>2. job[h] \in events /\ job[h] \in Event BY <1>1 DEF HandlerOK, Types
<1>3. PICK s \in TrackingIds : s = job[h].tid BY <1>2 DEF Event
<1>4. /\ events' = events /\ marked' = marked /\ notified' = notified
      /\ told' = [told EXCEPT ![s] = told[s] + 1] /\ pc' = [pc EXCEPT ![h] = "mark"] /\ job' = job
      /\ crashes' = crashes /\ faults' = faults /\ overlaps' = overlaps
      /\ rows' = rows /\ recorded' = recorded
  BY <1>3 DEF Send, audit
<1>5. told' \in [TrackingIds -> Nat] /\ told'[s] = told[s] + 1
      /\ \A t \in TrackingIds \ {s} : told'[t] = told[t]
  BY <1>1, <1>4 DEF Types
<1>6. pc' \in [Handlers -> {"idle", "send", "mark"}] /\ pc'[h] = "mark"
      /\ \A i \in Handlers \ {h} : pc'[i] = pc[i]
  BY <1>1, <1>4 DEF Types
<1>7. Types' BY <1>1, <1>4, <1>5, <1>6 DEF Types
<1>8. told[s] \in Nat BY <1>1 DEF Types
<1>9. \A t \in TrackingIds : told[t] > 0 => told'[t] > 0 BY <1>5, <1>8
<1>10. MarkedIsTold' BY <1>1, <1>4, <1>9 DEF OutletsInv, MarkedIsTold, Types
<1>11. \A i \in Handlers : HandlerOK(i)'
  <2> TAKE i \in Handlers
  <2>1. HandlerOK(i) /\ job[i] \in Event \cup {NoEvent} BY <1>1 DEF OutletsInv, Types
  <2>2. CASE i = h
    <3>1. told'[s] > 0 BY <1>5, <1>8
    <3> QED BY <1>1, <1>2, <1>3, <1>4, <1>6, <2>1, <2>2, <3>1 DEF HandlerOK
  <2>3. CASE i # h
    <3>1. pc[i] = "mark" => job[i].tid \in TrackingIds
      BY <1>1, <2>1 DEF HandlerOK, Types, Event
    <3> QED BY <1>4, <1>6, <1>9, <2>1, <2>3, <3>1 DEF HandlerOK
  <2> QED BY <2>2, <2>3
<1>12. ASSUME NEW t \in TrackingIds PROVE Paid(t)'
  <2> DEFINE n == Cardinality(Sending(t))
             m == Cardinality(Sending(t)')
  <2>1. Paid(t) BY DEF OutletsInv
  <2>2. told[t] \in Nat /\ n \in Nat /\ faults \in Nat /\ crashes \in Nat /\ overlaps \in Nat BY Numbers
  <2>3. told[t] + n + (IF Free(t) THEN 1 ELSE 0) <= 1 + faults + crashes + overlaps BY <2>1 DEF Paid
  <2>4. Free(t)' <=> Free(t) BY <1>4 DEF Free, InFlight
  <2>5. CASE t = s
    <3>1. Sending(t)' = Sending(t) \ {h} /\ h \in Sending(t)
      BY <1>1, <1>3, <1>4, <1>6, <2>5 DEF Sending
    <3>2. IsFiniteSet(Sending(t)') /\ m = n - 1 BY <2>1, <3>1, FS_RemoveElement DEF Paid
    <3> HIDE DEF n, m
    <3>3. told'[t] + m + (IF Free(t)' THEN 1 ELSE 0) <= 1 + faults + crashes + overlaps
      BY <1>5, <2>2, <2>3, <2>4, <2>5, <3>2
    <3> QED BY <1>4, <3>2, <3>3 DEF Paid, m
  <2>6. CASE t # s
    <3>1. Sending(t)' = Sending(t)
      BY <1>3, <1>4, <1>6, <2>6 DEF Sending
    <3> HIDE DEF n, m
    <3>2. told'[t] + n + (IF Free(t)' THEN 1 ELSE 0) <= 1 + faults + crashes + overlaps
      BY <1>5, <2>2, <2>3, <2>4, <2>6
    <3> QED BY <1>4, <2>1, <3>1, <3>2 DEF Paid, n
  <2> QED BY <2>5, <2>6
<1> QED BY <1>4, <1>7, <1>10, <1>11, <1>12 DEF OutletsInv, audit

\* The mark is set after the message, or perhaps is not, which is a fault.
LEMMA MarkKeeps ==
    ASSUME OutletsInv, NEW h \in Handlers, Mark(h), UNCHANGED audit
    PROVE  OutletsInv' /\ UNCHANGED <<events, audit>>
<1>1. Types /\ HandlerOK(h) /\ pc[h] = "mark" BY DEF OutletsInv, Mark
<1>2. job[h] \in events /\ job[h] \in Event BY <1>1 DEF HandlerOK, Types
<1>3. PICK s \in TrackingIds : s = job[h].tid BY <1>2 DEF Event
<1>4. /\ events' = events /\ told' = told
      /\ pc' = [pc EXCEPT ![h] = "idle"] /\ job' = [job EXCEPT ![h] = NoEvent]
      /\ crashes' = crashes /\ overlaps' = overlaps
      /\ rows' = rows /\ recorded' = recorded
      /\ \/ marked' = marked \cup {s} /\ faults' = faults
         \/ marked' \in {marked, marked \cup {s}} /\ faults < MaxFaults /\ faults' = faults + 1
      /\ notified' \subseteq notified \cup {job[h]}
  BY <1>3 DEF Mark, Fault, audit
<1>5. /\ pc' \in [Handlers -> {"idle", "send", "mark"}] /\ pc'[h] = "idle"
      /\ job' \in [Handlers -> Event \cup {NoEvent}] /\ job'[h] = NoEvent
      /\ \A i \in Handlers \ {h} : pc'[i] = pc[i] /\ job'[i] = job[i]
  BY <1>1, <1>4 DEF Types
<1>6. faults \in 0..MaxFaults /\ faults' \in 0..MaxFaults
  BY <1>1, <1>4, TopicsAssumption DEF Types
<1>7. marked' \subseteq TrackingIds /\ notified' \subseteq events'
  BY <1>1, <1>2, <1>4 DEF Types
<1>8. Types' BY <1>1, <1>4, <1>5, <1>6, <1>7 DEF Types
<1>9. told[s] > 0 BY <1>1, <1>3 DEF HandlerOK
<1>10. MarkedIsTold' BY <1>4, <1>9 DEF OutletsInv, MarkedIsTold
<1>11. \A i \in Handlers : HandlerOK(i)'
  <2> TAKE i \in Handlers
  <2>1. HandlerOK(i) BY DEF OutletsInv
  <2>2. CASE i = h BY <1>5, <2>2 DEF HandlerOK
  <2>3. CASE i # h BY <1>4, <1>5, <2>1, <2>3 DEF HandlerOK
  <2> QED BY <2>2, <2>3
<1>12. ASSUME NEW t \in TrackingIds PROVE Paid(t)'
  <2> DEFINE n == Cardinality(Sending(t))
  <2>1. Paid(t) BY DEF OutletsInv
  <2>2. told[t] \in Nat /\ n \in Nat /\ faults \in Nat /\ crashes \in Nat /\ overlaps \in Nat BY Numbers
  <2>3. told[t] + n + (IF Free(t) THEN 1 ELSE 0) <= 1 + faults + crashes + overlaps BY <2>1 DEF Paid
  <2>4. Sending(t)' = Sending(t) BY <1>1, <1>5 DEF Sending
  <2>5. (Free(t)' => Free(t)) \/ faults' = faults + 1
    <3> SUFFICES ASSUME Free(t)', ~Free(t), faults' = faults PROVE FALSE
      BY <1>4
    <3>1. marked' = marked \cup {s} BY <1>1, <1>4, <1>6
    <3>2. t # s /\ t \notin marked BY <3>1 DEF Free
    <3>3. PICK i \in Handlers : job[i] # NoEvent /\ job[i].tid = t BY <3>2 DEF Free, InFlight
    <3>4. i # h BY <1>3, <3>2, <3>3
    <3> QED BY <1>5, <3>3, <3>4 DEF Free, InFlight
  <2>6. faults' = faults \/ faults' = faults + 1 BY <1>4
  <2> HIDE DEF n
  <2>7. told[t] + n + (IF Free(t)' THEN 1 ELSE 0) <= 1 + faults' + crashes + overlaps
    BY <2>2, <2>3, <2>5, <2>6
  <2> QED BY <1>4, <2>1, <2>4, <2>7 DEF Paid, n
<1> QED BY <1>4, <1>8, <1>10, <1>11, <1>12 DEF OutletsInv, audit

\* A crash sets every handler free, and pays for one more message.
LEMMA CrashKeeps ==
    ASSUME OutletsInv, Crash, UNCHANGED audit
    PROVE  OutletsInv' /\ UNCHANGED <<events, audit>>
<1>1. Types BY DEF OutletsInv
<1>2. /\ events' = events /\ marked' = marked /\ told' = told /\ notified' = notified
      /\ pc' = [h \in Handlers |-> "idle"] /\ job' = [h \in Handlers |-> NoEvent]
      /\ faults' = faults /\ overlaps' = overlaps /\ rows' = rows /\ recorded' = recorded
      /\ crashes < MaxCrashes /\ crashes' = crashes + 1
  BY DEF Crash, audit
<1>3. crashes' \in 0..MaxCrashes BY <1>1, <1>2, NotificationAssumption DEF Types
<1>4. Types' BY <1>1, <1>2, <1>3 DEF Types
<1>5. MarkedIsTold' BY <1>2 DEF OutletsInv, MarkedIsTold
<1>6. \A h \in Handlers : HandlerOK(h)' BY <1>2 DEF HandlerOK
<1>7. ASSUME NEW t \in TrackingIds PROVE Paid(t)'
  <2> DEFINE n == Cardinality(Sending(t))
  <2>1. Paid(t) BY DEF OutletsInv
  <2>2. told[t] \in Nat /\ n \in Nat /\ faults \in Nat /\ crashes \in Nat /\ overlaps \in Nat BY Numbers
  <2>3. told[t] + n + (IF Free(t) THEN 1 ELSE 0) <= 1 + faults + crashes + overlaps BY <2>1 DEF Paid
  <2>4. Sending(t)' = {} BY <1>2 DEF Sending
  <2>5. IsFiniteSet(Sending(t)') /\ Cardinality(Sending(t)') = 0 BY <2>4, FS_EmptySet
  <2> HIDE DEF n
  <2>6. told[t] + 0 + (IF Free(t)' THEN 1 ELSE 0) <= 1 + faults + crashes' + overlaps
    BY <1>2, <2>2, <2>3
  <2> QED BY <1>2, <2>5, <2>6 DEF Paid
<1> QED BY <1>2, <1>4, <1>5, <1>6, <1>7 DEF OutletsInv, audit

\* Nobody is told, marked or recorded at the start.
LEMMA OutletsInit == Init => OutletsInv
<1> SUFFICES ASSUME Init PROVE OutletsInv OBVIOUS
<1>1. NoRow \in Rows BY DEF NoRow, Rows
<1>2. Types
  BY <1>1, TopicsAssumption, NotificationAssumption DEF Init, NotificationInit, AuditInit, Types
<1>3. MarkedIsTold BY DEF Init, NotificationInit, MarkedIsTold
<1>4. \A h \in Handlers : HandlerOK(h) BY DEF Init, NotificationInit, HandlerOK
<1>5. ASSUME NEW t \in TrackingIds PROVE Paid(t)
  <2>1. Sending(t) = {} BY DEF Init, NotificationInit, Sending
  <2>2. IsFiniteSet(Sending(t)) /\ Cardinality(Sending(t)) = 0 BY <2>1, FS_EmptySet
  <2>3. told[t] = 0 /\ faults = 0 /\ crashes = 0 /\ overlaps = 0 BY DEF Init, NotificationInit
  <2> QED BY <2>2, <2>3 DEF Paid
<1> QED BY <1>2, <1>3, <1>4, <1>5 DEF OutletsInv

\* A step of somebody else changes nothing.
LEMMA OutletsStutter ==
    ASSUME OutletsInv, UNCHANGED vars
    PROVE  OutletsInv' /\ UNCHANGED <<events, audit>>
<1>1. /\ events' = events /\ marked' = marked /\ told' = told /\ pc' = pc /\ job' = job
      /\ crashes' = crashes /\ overlaps' = overlaps /\ faults' = faults
      /\ rows' = rows /\ recorded' = recorded /\ notified' = notified
  BY DEF vars, notification, handlers, audit
<1>2. Types' BY <1>1 DEF OutletsInv, Types
<1>3. faults' >= faults BY <1>1 DEF OutletsInv, Types
<1> QED BY <1>1, <1>2, <1>3, ElsewhereKeeps DEF audit

\* A step of Notification keeps the invariant and leaves the audit trail alone.
LEMMA NotificationKeeps ==
    ASSUME OutletsInv, NotificationStep, UNCHANGED audit
    PROVE  OutletsInv' /\ UNCHANGED <<events, audit>>
  BY SkipKeeps, BeginKeeps, SendKeeps, MarkKeeps, CrashKeeps DEF NotificationStep

\* Every step keeps the invariant.
LEMMA OutletsNext == OutletsInv /\ [Next]_vars => OutletsInv'
<1> SUFFICES ASSUME OutletsInv, [Next]_vars PROVE OutletsInv' OBVIOUS
<1>1. CASE Produce /\ UNCHANGED <<notification, audit, faults>> BY <1>1, ProduceKeeps
<1>2. CASE NotificationStep /\ UNCHANGED audit BY <1>2, NotificationKeeps
<1>3. ASSUME NEW e \in events, Record(e), UNCHANGED <<events, notification>> PROVE OutletsInv'
  BY <1>3, RecordKeeps
<1>4. CASE UNCHANGED vars BY <1>4, OutletsStutter
<1> QED BY <1>1, <1>2, <1>3, <1>4 DEF Next

\* The inductive invariant: handlers hold events, a mark follows a message, and every
\* message is paid for by the first, a fault, a crash or an overlap.
THEOREM OutletsInvariant == Spec => []OutletsInv
  BY OutletsInit, OutletsNext, PTL DEF Spec

\* Types, and the count of messages: one, and one more for each fault, crash and
\* overlap.
THEOREM OutletsTyped == Spec => []TypeOK
<1>1. OutletsInv => TypeOK
  <2> SUFFICES ASSUME OutletsInv PROVE TypeOK OBVIOUS
  <2>1. Types BY DEF OutletsInv
  <2>2. \A t \in TrackingIds : told[t] \in 0..(1 + MaxFaults + MaxCrashes + MaxOverlaps)
    <3> TAKE t \in TrackingIds
    <3> DEFINE n == Cardinality(Sending(t))
    <3>1. told[t] \in Nat /\ n \in Nat BY Numbers
    <3>2. told[t] + n + (IF Free(t) THEN 1 ELSE 0) <= 1 + faults + crashes + overlaps BY DEF OutletsInv, Paid
    <3>3. faults \in 0..MaxFaults /\ crashes \in 0..MaxCrashes /\ overlaps \in 0..MaxOverlaps BY <2>1 DEF Types
    <3> HIDE DEF n
    <3> QED BY <3>1, <3>2, <3>3, TopicsAssumption, NotificationAssumption
  <2>3. told \in [TrackingIds -> 0..(1 + MaxFaults + MaxCrashes + MaxOverlaps)] BY <2>1, <2>2 DEF Types
  <2> QED BY <2>1, <2>3 DEF Types, TypeOK
<1> QED BY <1>1, OutletsInvariant, PTL

\* A mark, which silences every later delivery, is only there when the submitter
\* was told.
THEOREM MarkedIsAlwaysTold == Spec => []MarkedIsTold
<1>1. OutletsInv => MarkedIsTold BY DEF OutletsInv
<1> QED BY <1>1, OutletsInvariant, PTL

\* Unless a call fails, the process dies or deliveries overlap, nobody is told twice.
THEOREM NobodyToldTwice == Spec => []ToldOnce
<1>1. OutletsInv => ToldOnce
  <2> SUFFICES ASSUME OutletsInv, faults = 0, crashes = 0, overlaps = 0, NEW t \in TrackingIds
               PROVE  told[t] <= 1
    BY DEF ToldOnce
  <2> DEFINE n == Cardinality(Sending(t))
  <2>1. told[t] \in Nat /\ n \in Nat BY Numbers
  <2>2. told[t] + n + (IF Free(t) THEN 1 ELSE 0) <= 1 + faults + crashes + overlaps BY DEF OutletsInv, Paid
  <2> HIDE DEF n
  <2> QED BY <2>1, <2>2
<1> QED BY <1>1, OutletsInvariant, PTL

-----------------------------------------------------------------------------
(* The trail                                                                *)

\* A new resolution or payment is the first of its invoice.
LEMMA ProduceEndsOnce ==
    ASSUME EndsOnce, Produce
    PROVE  EndsOnce'
<1>1. ASSUME NEW t \in TrackingIds, NEW topic, NEW route, NEW r, Announce(t, topic, route, r),
             topic = "decision" \/ Announced(t, topic) = {}
      PROVE  EndsOnce'
  <2>1. PICK e : e = [tid |-> t, topic |-> topic, route |-> route, resolution |-> r] OBVIOUS
  <2>2. events' = events \cup {e} /\ e.tid = t /\ e.topic = topic BY <1>1, <2>1 DEF Announce
  <2>3. \A f \in events : topic # "decision" => ~(f.tid = t /\ f.topic = topic)
    BY <1>1 DEF Announced
  <2> QED BY <2>2, <2>3 DEF EndsOnce
<1>2. ASSUME NEW t \in TrackingIds, NEW route \in Routes, Decide(t, route) PROVE EndsOnce'
  BY <1>1, <1>2 DEF Decide
<1>3. ASSUME NEW t \in TrackingIds, NEW r, Resolve(t, r) PROVE EndsOnce'
  BY <1>1, <1>3 DEF Resolve
<1>4. ASSUME NEW t \in TrackingIds, NEW r, Pay(t, r) PROVE EndsOnce'
  BY <1>1, <1>4 DEF Pay
<1> QED BY <1>2, <1>3, <1>4 DEF Produce

\* Whatever a delivery does to the rows, none loses or changes an event's own column.
Gains ==
    \A t \in TrackingIds :
        /\ rows[t].decided => rows'[t].decided
        /\ rows[t].approval # "none" => rows'[t].approval = rows[t].approval
        /\ rows[t].payment # "none" => rows'[t].payment = rows[t].payment

\* New events leave the rows backed, and so does a step that has none.
LEMMA SameRows ==
    ASSUME AuditInv, OutletsInv', EndsOnce', events \subseteq events',
           rows' = rows, recorded' = recorded
    PROVE  AuditInv' /\ Gains
<1>1. \A t \in TrackingIds : RowOK(t)' BY DEF AuditInv, RowOK
<1>2. \A e \in recorded' : RecordedOK(e)' BY DEF AuditInv, RecordedOK
<1> QED BY <1>1, <1>2 DEF AuditInv, Gains

\* A delivery writes what the event says, which is what the row has, if anything.
LEMMA DeliveryGains ==
    ASSUME AuditInv, OutletsInv', NEW e \in events, RecordEffect(e), e \in Event, e.tid \in TrackingIds,
           rows' = [rows EXCEPT ![e.tid] = Enriched(rows[e.tid], e)]
    PROVE  AuditInv' /\ Gains
<1> DEFINE s == e.tid
<1>1. Types /\ EndsOnce BY DEF AuditInv, OutletsInv
<1>2. rows[s] \in Rows BY <1>1 DEF Types
<1>3. /\ rows'[s].route = e.route
      /\ rows'[s].decided = (rows[s].decided \/ e.topic = "decision")
      /\ rows'[s].approval = IF e.topic = "approval" THEN e.resolution ELSE rows[s].approval
      /\ rows'[s].payment = IF e.topic = "payment" THEN e.resolution ELSE rows[s].payment
  <2>1. rows'[s] = Enriched(rows[s], e) BY <1>1 DEF Types
  <2> QED BY <1>2, <2>1, EnrichedShape
<1>4. \A t \in TrackingIds \ {s} : rows'[t] = rows[t] BY <1>1 DEF Types
<1>5. events' = events /\ recorded' \subseteq recorded \cup {e} BY DEF RecordEffect
<1>6. e.route # "none" BY DEF Event, Routes
<1>7. RowOK(s) BY DEF AuditInv
<1>8. \A f \in events : f.tid = s /\ f.topic = e.topic /\ f.topic # "decision" => f = e
  BY <1>1 DEF EndsOnce
<1> HIDE DEF s
<1>9. Gains
  <2> SUFFICES ASSUME NEW t \in TrackingIds
               PROVE  /\ rows[t].decided => rows'[t].decided
                      /\ rows[t].approval # "none" => rows'[t].approval = rows[t].approval
                      /\ rows[t].payment # "none" => rows'[t].payment = rows[t].payment
    BY DEF Gains
  <2>1. CASE t # s BY <1>4, <2>1
  <2>2. CASE t = s
    <3>1. rows[s].approval # "none" => rows'[s].approval = rows[s].approval
      BY <1>3, <1>7, <1>8 DEF RowOK
    <3>2. rows[s].payment # "none" => rows'[s].payment = rows[s].payment
      BY <1>3, <1>7, <1>8 DEF RowOK
    <3> QED BY <1>3, <2>2, <3>1, <3>2
  <2> QED BY <2>1, <2>2
<1>10. RowOK(s)' BY <1>3, <1>5, <1>6, <1>7 DEF RowOK, s
<1>11. \A t \in TrackingIds : RowOK(t)'
  <2> TAKE t \in TrackingIds
  <2>1. CASE t # s
    <3>1. RowOK(t) BY DEF AuditInv
    <3> QED BY <1>4, <1>5, <2>1, <3>1 DEF RowOK
  <2> QED BY <1>10, <2>1
<1>12. ASSUME NEW f \in recorded' PROVE RecordedOK(f)'
  <2>1. f \in events BY <1>1, <1>5 DEF Types
  <2>2. f.tid \in TrackingIds BY <1>1, <2>1 DEF Types, Event
  <2>3. CASE f = e BY <1>3, <1>6, <2>3 DEF RecordedOK, s
  <2>4. CASE f # e /\ f.tid # s
    <3>1. RecordedOK(f) BY <1>5, <2>4 DEF AuditInv
    <3> QED BY <1>4, <2>2, <2>4, <3>1 DEF RecordedOK
  <2>5. CASE f # e /\ f.tid = s
    <3>1. RecordedOK(f) BY <1>5, <2>5 DEF AuditInv
    <3>2. e.topic = "approval" => f.topic # "approval" BY <1>8, <2>1, <2>5
    <3> QED BY <1>3, <1>6, <2>5, <3>1, <3>2 DEF RecordedOK
  <2> QED BY <2>3, <2>4, <2>5
<1>13. EndsOnce' BY <1>1, <1>5 DEF EndsOnce
<1> QED BY <1>9, <1>11, <1>12, <1>13 DEF AuditInv

\* Every step keeps the trail backed by the events and takes nothing from it.
LEMMA AuditNext ==
    ASSUME AuditInv, [Next]_vars
    PROVE  AuditInv' /\ Gains
<1>1. OutletsInv /\ Types /\ EndsOnce BY DEF AuditInv, OutletsInv
<1>2. CASE Produce /\ UNCHANGED <<notification, audit, faults>>
  <2>1. OutletsInv' /\ UNCHANGED <<rows, recorded>> BY <1>1, <1>2, ProduceKeeps
  <2>2. events \subseteq events' BY <1>1, <1>2, ProducedIsEvent
  <2>3. EndsOnce' BY <1>1, <1>2, ProduceEndsOnce
  <2> QED BY <2>1, <2>2, <2>3, SameRows
<1>3. ASSUME OutletsInv', UNCHANGED <<events, audit>> PROVE AuditInv' /\ Gains
  <2>1. rows' = rows /\ recorded' = recorded /\ events' = events BY <1>3 DEF audit
  <2>2. EndsOnce' BY <1>1, <2>1 DEF EndsOnce
  <2> QED BY <1>3, <2>1, <2>2, SameRows
<1>4. CASE NotificationStep /\ UNCHANGED audit BY <1>1, <1>3, <1>4, NotificationKeeps
<1>5. CASE UNCHANGED vars BY <1>1, <1>3, <1>5, OutletsStutter
<1>6. ASSUME NEW e \in events, Record(e), UNCHANGED <<events, notification>>
      PROVE  AuditInv' /\ Gains
  <2>1. OutletsInv' /\ RecordEffect(e) /\ e \in Event /\ e.tid \in TrackingIds
    BY <1>1, <1>6, RecordKeeps
  <2>2. CASE rows' = rows /\ recorded' = recorded
    <3>1. EndsOnce' BY <1>1, <2>1 DEF EndsOnce, RecordEffect
    <3> QED BY <2>1, <2>2, <3>1, SameRows DEF RecordEffect
  <2>3. CASE rows' = [rows EXCEPT ![e.tid] = Enriched(rows[e.tid], e)]
    BY <2>1, <2>3, DeliveryGains
  <2> QED BY <2>1, <2>2, <2>3 DEF RecordEffect
<1> QED BY <1>2, <1>4, <1>5, <1>6 DEF Next

\* There is nothing to back at the start.
LEMMA AuditStart == Init => AuditInv
<1> SUFFICES ASSUME Init PROVE AuditInv OBVIOUS
<1>1. OutletsInv BY OutletsInit
<1>2. EndsOnce BY DEF Init, EndsOnce
<1>3. \A t \in TrackingIds : RowOK(t) BY DEF Init, AuditInit, RowOK, NoRow
<1>4. \A e \in recorded : RecordedOK(e) BY DEF Init, AuditInit
<1> QED BY <1>1, <1>2, <1>3, <1>4 DEF AuditInv

\* What the trail holds some event said, and an acknowledged event has left its row and,
\* if a human resolved it, the resolution, in whatever order they arrive and however often.
THEOREM TrailIsBacked == Spec => []AuditInv
<1>1. AuditInv /\ [Next]_vars => AuditInv' BY AuditNext
<1> QED BY <1>1, AuditStart, PTL DEF Spec

\* No delivery empties the columns of another event or changes how an approval or a
\* payment ended, however often an invoice is decided (audit/models.py).
THEOREM RowsNeverLose == Spec => RowsOnlyGain
<1> DEFINE Gain == \A t \in TrackingIds :
        /\ rows[t].decided => rows'[t].decided
        /\ rows[t].approval # "none" => rows'[t].approval = rows[t].approval
        /\ rows[t].payment # "none" => rows'[t].payment = rows[t].payment
<1>1. AuditInv /\ [Next]_vars => [Gain]_vars BY AuditNext DEF Gains
<1>2. Spec => []AuditInv BY TrailIsBacked
<1>3. Spec => [][Gain]_vars BY <1>1, <1>2, PTL DEF Spec
<1> QED BY <1>3 DEF RowsOnlyGain

-----------------------------------------------------------------------------
(* The dashboard                                                            *)

\* The buckets split the rows by route and resolution.
LEMMA BucketsSplit ==
    /\ \A b \in RouteSummary :
          b.ids = {t \in Known : rows[t].route = b.route /\ rows[t].approval = b.approval}
    /\ \A t \in Known :
          \E b \in RouteSummary : b.route = rows[t].route /\ b.approval = rows[t].approval
<1> DEFINE bucket(k) == [route |-> k[1], approval |-> k[2],
                         ids |-> {t \in Known : rows[t].route = k[1] /\ rows[t].approval = k[2]}]
           keys == {<<rows[t].route, rows[t].approval>> : t \in Known}
<1>1. RouteSummary = {bucket(k) : k \in keys} BY DEF RouteSummary
<1>2. ASSUME NEW t \in Known
      PROVE  \E b \in RouteSummary : b.route = rows[t].route /\ b.approval = rows[t].approval
  <2> DEFINE k == <<rows[t].route, rows[t].approval>>
  <2>1. k \in keys /\ k[1] = rows[t].route /\ k[2] = rows[t].approval OBVIOUS
  <2>2. bucket(k) \in RouteSummary BY <1>1, <2>1
  <2>3. bucket(k).route = rows[t].route /\ bucket(k).approval = rows[t].approval BY <2>1
  <2> QED BY <2>2, <2>3
<1>3. ASSUME NEW b \in RouteSummary
      PROVE  b.ids = {t \in Known : rows[t].route = b.route /\ rows[t].approval = b.approval}
  <2>1. PICK k \in keys : b = bucket(k) BY <1>1, <1>3
  <2> QED BY <2>1
<1> QED BY <1>2, <1>3

\* When every event is acknowledged, the rows there are, their routes and their
\* resolutions are what the events say.
LEMMA RowsAreExact ==
    ASSUME AuditInv, OneDecision, events \subseteq recorded
    PROVE  /\ \A t : t \in Known <=> \E e \in events : e.tid = t
           /\ \A t \in Known : \A r \in Routes :
                 rows[t].route = r <=> \E e \in events : e.tid = t /\ e.route = r
           /\ \A t \in Known :
                 rows[t].approval = "approved" <=> \E e \in events : e.tid = t /\ e.resolution = "approved"
           /\ \A t \in Known : rows[t].approval = "approved" => rows[t].route = "human_review"
<1>1. Types /\ events \subseteq Event /\ \A e \in events : RecordedOK(e)
  BY DEF AuditInv, OutletsInv, Types
<1>2. \A e \in events : /\ e.tid \in TrackingIds /\ e.route \in Routes /\ e.route # "none"
                        /\ (e.resolution = "approved" => e.topic = "approval")
                        /\ (e.topic = "approval" => e.route = "human_review")
  BY <1>1 DEF Event, Routes
<1>3. \A t \in TrackingIds : rows[t].route # "none" <=> rows[t] # NoRow
  BY DEF AuditInv, RowOK, NoRow
<1>4. \A t \in Known : t \in TrackingIds /\ rows[t].route # "none" /\ RowOK(t)
  BY <1>3 DEF Known, AuditInv
<1>5. ASSUME NEW e \in events PROVE rows[e.tid].route = e.route
  <2>1. rows[e.tid].route # "none" /\ RowOK(e.tid) BY <1>1, <1>2 DEF RecordedOK, AuditInv
  <2>2. PICK f \in events : f.tid = e.tid /\ f.route = rows[e.tid].route BY <2>1 DEF RowOK
  <2> QED BY <2>2 DEF OneDecision
<1>6. ASSUME NEW t PROVE t \in Known <=> \E e \in events : e.tid = t
  <2>1. ASSUME t \in Known PROVE \E e \in events : e.tid = t BY <1>4, <2>1 DEF RowOK
  <2>2. ASSUME NEW e \in events, e.tid = t PROVE t \in Known
    BY <1>2, <1>3, <1>5, <2>2 DEF Known
  <2> QED BY <2>1, <2>2
<1>7. ASSUME NEW t \in Known, NEW r \in Routes
      PROVE  rows[t].route = r <=> \E e \in events : e.tid = t /\ e.route = r
  BY <1>4, <1>5 DEF RowOK
<1>8. ASSUME NEW t \in Known
      PROVE  rows[t].approval = "approved" <=> \E e \in events : e.tid = t /\ e.resolution = "approved"
  <2>1. ASSUME NEW e \in events, e.tid = t, e.resolution = "approved" PROVE rows[t].approval = "approved"
    BY <1>1, <1>2, <2>1 DEF RecordedOK
  <2>2. ASSUME rows[t].approval = "approved" PROVE \E e \in events : e.tid = t /\ e.resolution = "approved"
    BY <1>4, <2>2 DEF RowOK
  <2> QED BY <2>1, <2>2
<1>9. ASSUME NEW t \in Known, rows[t].approval = "approved" PROVE rows[t].route = "human_review"
  <2>1. PICK e \in events : e.tid = t /\ e.resolution = "approved" BY <1>8, <1>9
  <2> QED BY <1>2, <1>5, <2>1
<1> QED BY <1>6, <1>7, <1>8, <1>9

\* Once every event is acknowledged the dashboard is what the events say, in
\* whatever order they came, unless they disagree on a decision.
THEOREM DashboardIsAlwaysExact == Spec => []DashboardIsExact
<1>1. AuditInv => DashboardIsExact
  <2> SUFFICES ASSUME AuditInv, OneDecision, events \subseteq recorded
               PROVE  Summary = [total      |-> {e.tid : e \in events},
                   counts     |-> [r \in Routes |-> {e.tid : e \in {x \in events : x.route = r}}],
                   moneyAuto  |-> {e.tid : e \in {x \in events : x.route = "auto_approve"}},
                   moneyHuman |-> {e.tid : e \in {x \in events : x.resolution = "approved"}}]
    BY DEF DashboardIsExact
  <2>1. Pooled(RouteSummary) = {e.tid : e \in events}
    <3>1. Pooled(RouteSummary) = Known BY BucketsSplit DEF Pooled
    <3> QED BY <3>1, RowsAreExact
  <2>2. ASSUME NEW r \in Routes PROVE CountedAs(r) = {e.tid : e \in {x \in events : x.route = r}}
    <3>1. CountedAs(r) = {t \in Known : rows[t].route = r} BY BucketsSplit DEF CountedAs, Pooled
    <3>2. \A t \in Known : rows[t].route = r <=> \E e \in events : e.tid = t /\ e.route = r
      BY RowsAreExact
    <3>3. \A e \in events : e.tid \in Known BY RowsAreExact
    <3> QED BY <3>1, <3>2, <3>3
  <2>3. MoneyAutoApproved = {e.tid : e \in {x \in events : x.route = "auto_approve"}}
    <3>1. "auto_approve" \in Routes BY DEF Routes
    <3>2. MoneyAutoApproved = CountedAs("auto_approve") BY DEF MoneyAutoApproved, CountedAs
    <3> QED BY <2>2, <3>1, <3>2
  <2>4. MoneyHumanApproved = {e.tid : e \in {x \in events : x.resolution = "approved"}}
    <3>1. MoneyHumanApproved = {t \in Known : rows[t].route = "human_review" /\ rows[t].approval = "approved"}
      BY BucketsSplit DEF MoneyHumanApproved, Pooled
    <3>2. \A t \in Known : rows[t].approval = "approved" <=> \E e \in events : e.tid = t /\ e.resolution = "approved"
      BY RowsAreExact
    <3>3. \A t \in Known : rows[t].approval = "approved" => rows[t].route = "human_review" BY RowsAreExact
    <3>4. \A e \in events : e.tid \in Known BY RowsAreExact
    <3> QED BY <3>1, <3>2, <3>3, <3>4
  <2>5. [r \in Routes |-> CountedAs(r)] = [r \in Routes |-> {e.tid : e \in {x \in events : x.route = r}}]
    BY <2>2
  <2> QED BY <2>1, <2>3, <2>4, <2>5 DEF Summary
<1>2. Spec => []AuditInv BY TrailIsBacked
<1> QED BY <1>1, <1>2, PTL

=============================================================================
