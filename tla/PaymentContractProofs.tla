----------------------- MODULE PaymentContractProofs -----------------------
(***************************************************************************)
(* TLAPS proof that PaymentSaga implements PaymentContract as long as no    *)
(* call fails, no process dies, no two deliveries of a payment overlap and  *)
(* no save() runs out of attempts, for any number of payments, departments, *)
(* handlers, events and retries.                                            *)
(***************************************************************************)
EXTENDS PaymentSagaProofs

\* Nothing has disturbed the service, and this step does not either.
Calm == Undisturbed /\ Undisturbed'

Ledger(t, taken, given) == debits[t] = taken /\ credits[t] = given

\* A budget exists once lifespan has seeded it, and only if it is configured.
SeedsOK ==
    /\ \A d \in Configured \ unseeded : etag[d] # 0
    /\ \A d \in Departments : etag[d] # 0 => d \in Configured

\* Where a handler stands tells what the payment has taken and given back.
HandlerAt(h) ==
    pc[h] # "idle" =>
        LET t == Tid(h) IN
        /\ Serving /\ Triggers(job[h])
        /\ pc[h] \in {"reserve_read", "reserve_write"} => Ledger(t, 0, 0)
        /\ pc[h] = "reserve_write" => etag[Dept[t]] # 0
        /\ pc[h] \in {"charge", "release_read", "release_write"} =>
              /\ draft[h] = [status |-> "reserved", reserved |-> Amount[t]]
              /\ Ledger(t, 1, 0)
        /\ pc[h] = "save" =>
              \/ /\ draft[h] = [status |-> "reserved", reserved |-> Amount[t]]
                 /\ payments[t].status = "none" /\ Ledger(t, 1, 0)
              \/ /\ draft[h].status = "completed"
                 /\ payments[t].status = "reserved" /\ Ledger(t, 1, 0)
              \/ /\ draft[h].status = "failed"
                 /\ payments[t].status = "none" /\ Ledger(t, 0, 0)
              \/ /\ draft[h].status = "failed"
                 /\ payments[t].status = "reserved" /\ Ledger(t, 1, 1)

Busy(t) == \E h \in Handlers : pc[h] # "idle" /\ Tid(h) = t

\* So does the record of a payment nobody works on.
RecordAt(t) ==
    /\ debits[t] > 0 => etag[Dept[t]] # 0
    /\ payments[t].status = "reserved" => payments[t].reserved = Amount[t]
    /\ ~Busy(t) /\ payments[t].status = "none" => Ledger(t, 0, 0)
    /\ ~Busy(t) /\ payments[t].status = "reserved" => Ledger(t, 1, 0)

QuietInv ==
    /\ SerialInv /\ BudgetInv
    /\ SeedsOK
    /\ \A h \in Handlers : HandlerAt(h)
    /\ \A t \in TrackingIds : RecordAt(t)

-----------------------------------------------------------------------------
(* The invariant                                                           *)

\* There is no record and no saga under way at the start.
LEMMA QuietInit == Init => QuietInv
<1>. SUFFICES ASSUME Init PROVE QuietInv
  OBVIOUS
<1>1. SerialInv /\ BudgetInv
  BY SerialInit, BudgetInit
<1>2. SeedsOK
  BY BudgetAssumption DEF Init, SeedsOK
<1>3. \A h \in Handlers : HandlerAt(h)
  BY DEF Init, HandlerAt
<1>4. \A t \in TrackingIds : RecordAt(t)
  BY DEF Init, RecordAt, Ledger, NoRecord
<1>. QED
  BY <1>1, <1>2, <1>3, <1>4 DEF QuietInv

\* Nothing fails, dies or overlaps.
LEMMA NoDisturbance ==
    ASSUME Calm, QuietInv
    PROVE  /\ TypeInv /\ InStep /\ overlaps = 0 /\ overlaps' = 0
           /\ ~Fault /\ ~Crash
BY DEF Calm, Undisturbed, QuietInv, SerialInv, Fault, Crash

\* What is known of the saga without overlaps still holds after a step.
LEMMA QuietStep ==
    ASSUME Calm, QuietInv, [Next]_vars
    PROVE  SerialInv' /\ BudgetInv' /\ TypeInv' /\ InStep'
<1>1. SerialInv' /\ BudgetInv'
  BY SerialNext, BudgetNext DEF QuietInv
<1>. QED
  BY <1>1, NoDisturbance DEF SerialInv

\* What a step of h may do to the payments of other handlers: nothing.
OtherPaymentsKept(t) ==
    \A u \in TrackingIds \ {t} :
        payments'[u] = payments[u] /\ debits'[u] = debits[u] /\ credits'[u] = credits[u]

SeedsKept ==
    /\ unseeded' = unseeded
    /\ \A d \in Departments : etag'[d] = 0 <=> etag[d] = 0

\* A step of one handler concerns its own invoice only.
LEMMA QuietFrame ==
    ASSUME Calm, QuietInv, SerialInv', BudgetInv', NEW h \in Handlers, pc[h] # "idle",
           OthersKept(h), pc'[h] = "idle" \/ Tid(h)' = Tid(h),
           OtherPaymentsKept(Tid(h)), SeedsKept, HandlerAt(h)',
           NEW t, t = Tid(h), RecordAt(t)'
    PROVE  QuietInv'
<1>0. TypeInv /\ Alone
  BY NoDisturbance DEF InStep
<1>1. ASSUME NEW i \in Handlers \ {h}
      PROVE  pc'[i] = pc[i] /\ draft'[i] = draft[i] /\ job'[i] = job[i] /\ Tid(i)' = Tid(i)
  BY DEF OthersKept, Tid
<1>2. SeedsOK'
  BY BudgetAssumption DEF QuietInv, SeedsOK, SeedsKept
<1>3. ASSUME NEW i \in Handlers \ {h} PROVE HandlerAt(i)'
  <2>1. CASE pc[i] = "idle"
    BY <1>1, <2>1 DEF HandlerAt
  <2>2. CASE pc[i] # "idle"
    <3>1. Tid(i) \in TrackingIds \ {Tid(h)} /\ Dept[Tid(i)] \in Departments
      BY <1>0, <2>2, BusyHandler DEF Alone
    <3>2. HandlerAt(i) /\ Serving
      BY <2>2 DEF QuietInv, HandlerAt
    <3>3. /\ payments'[Tid(i)] = payments[Tid(i)]
          /\ debits'[Tid(i)] = debits[Tid(i)] /\ credits'[Tid(i)] = credits[Tid(i)]
          /\ etag'[Dept[Tid(i)]] = 0 <=> etag[Dept[Tid(i)]] = 0
          /\ Serving'
      BY <3>1, <3>2 DEF OtherPaymentsKept, SeedsKept, Serving
    <3>. QED
      BY <1>1, <2>2, <3>2, <3>3 DEF HandlerAt, Ledger, Triggers
  <2>. QED
    BY <2>1, <2>2
<1>4. ASSUME NEW u \in TrackingIds \ {Tid(h)} PROVE RecordAt(u)'
  <2>1. Busy(u)' <=> Busy(u)
    BY <1>1 DEF Busy
  <2>2. RecordAt(u) /\ Dept[u] \in Departments
    BY BudgetAssumption DEF QuietInv
  <2>. QED
    BY <2>1, <2>2 DEF RecordAt, Ledger, OtherPaymentsKept, SeedsKept
<1>5. Tid(h) \in TrackingIds
  BY <1>0, BusyHandler
<1>. QED
  BY <1>2, <1>3, <1>4, <1>5 DEF QuietInv

\* A handler that stays at work keeps its payment busy.
LEMMA StaysBusy ==
    ASSUME NEW h \in Handlers, pc'[h] # "idle", Tid(h)' = Tid(h)
    PROVE  Busy(Tid(h))'
BY DEF Busy

\* One that leaves leaves nobody behind.
LEMMA NobodyLeft ==
    ASSUME Alone, NEW h \in Handlers, pc[h] # "idle", OthersKept(h), pc'[h] = "idle",
           NEW t, t = Tid(h)
    PROVE  ~Busy(t)'
BY DEF Alone, Busy, OthersKept, Tid

-----------------------------------------------------------------------------
(* What each step of the undisturbed saga does                             *)

\* A handler that leaves changes no other.
LEMMA LeaveEffect ==
    ASSUME TypeInv, NEW h \in Handlers, Leave(h)
    PROVE  OthersKept(h) /\ pc'[h] = "idle"
BY LeaveFrame DEF Leave, Goto, TypeInv, TypeOK

\* A retry, or the end of the retries, changes only the handler.
LEMMA RetryEffect ==
    ASSUME TypeInv, NEW h \in Handlers, NEW step, Retry(h, step)
    PROVE  /\ OthersKept(h)
           /\ \/ pc'[h] = "idle"
              \/ pc'[h] = step /\ draft'[h] = draft[h] /\ job'[h] = job[h]
<1>1. CASE Raise(h)
  BY <1>1, LeaveEffect DEF Raise
<1>2. CASE ~Raise(h)
  BY <1>2 DEF Retry, Again, OthersKept, TypeInv, TypeOK
<1>. QED
  BY <1>1, <1>2

PaymentsKept == UNCHANGED <<payments, debits, credits>>
BudgetsKept == UNCHANGED <<remaining, etag>>

\* A saga starts on an invoice nobody works on, from the record as it is stored.
LEMMA StartEffect ==
    ASSUME Calm, QuietInv, NEW h \in Handlers, NEW e \in Events, StartSaga(h, e)
    PROVE  /\ Serving /\ Triggers(e) /\ e.tid \in TrackingIds
           /\ pc[h] = "idle" /\ ~Busy(e.tid) /\ OthersKept(h)
           /\ PaymentsKept /\ BudgetsKept /\ UNCHANGED <<unseeded, published>>
           /\ job'[h] = e /\ draft'[h] = payments[e.tid]
           /\ \/ payments[e.tid].status = "none" /\ pc'[h] = "reserve_read"
              \/ payments[e.tid].status = "reserved" /\ pc'[h] = "charge"
<1>0. TypeInv /\ overlaps = 0 /\ overlaps' = 0
  BY NoDisturbance
<1>1. e.tid \in TrackingIds
  BY EventsAssumption
<1>2. payments[e.tid].status \in {"none", "reserved"}
  BY <1>0, <1>1 DEF StartSaga, Ended, Terminal, Statuses, TypeInv, TypeOK
<1>3. ~InFlight(e.tid)
  BY <1>0 DEF StartSaga, Receive
<1>4. ~Busy(e.tid)
  BY <1>0, <1>3, EventsAssumption DEF Busy, InFlight, TypeInv, HandlersOK
<1>5. /\ OthersKept(h) /\ job'[h] = e /\ draft'[h] = payments[e.tid]
      /\ pc'[h] = IF payments[e.tid].status = "none" THEN "reserve_read" ELSE "charge"
  BY <1>0 DEF StartSaga, FirstStep, Goto, OthersKept, TypeInv, TypeOK
<1>. QED
  BY <1>1, <1>2, <1>4, <1>5
     DEF StartSaga, Receive, PaymentsKept, BudgetsKept, store, history

\* The budget read decides between refusing and trying to reserve.
LEMMA ReserveReadEffect ==
    ASSUME Calm, QuietInv, NEW h \in Handlers, ReserveRead(h)
    PROVE  /\ pc[h] = "reserve_read" /\ OthersKept(h) /\ job'[h] = job[h]
           /\ PaymentsKept /\ BudgetsKept /\ UNCHANGED <<unseeded, published>>
           /\ \/ /\ pc'[h] = "save" /\ draft'[h] = [status |-> "failed", reserved |-> 0]
                 /\ Insufficient(Dept[Tid(h)], Amount[Tid(h)])
              \/ /\ pc'[h] = "reserve_write" /\ draft'[h] = draft[h]
                 /\ etag[Dept[Tid(h)]] # 0
<1>0. TypeInv
  BY NoDisturbance
<1>1. /\ pc[h] = "reserve_read"
      /\ UNCHANGED <<store, history, published, unseeded, job>>
  BY DEF ReserveRead
<1>2. CASE Insufficient(Dept[Tid(h)], Amount[Tid(h)])
  BY <1>0, <1>1, <1>2
     DEF ReserveRead, Goto, OthersKept, PaymentsKept, BudgetsKept, TypeInv, TypeOK, store, history
<1>3. CASE ~Insufficient(Dept[Tid(h)], Amount[Tid(h)])
  <2>1. etag[Dept[Tid(h)]] # 0
    BY <1>3 DEF Insufficient
  <2>. QED
    BY <1>0, <1>1, <1>3, <2>1
       DEF ReserveRead, OthersKept, PaymentsKept, BudgetsKept, TypeInv, TypeOK, store, history
<1>. QED
  BY <1>2, <1>3

\* The write a handler of payment t made took effect: one budget changed by delta.
BudgetMoves(t, delta) ==
    /\ remaining'[Dept[t]] = remaining[Dept[t]] + delta
    /\ \A d \in Departments \ {Dept[t]} : remaining'[d] = remaining[d]
    /\ \A d \in Departments : etag'[d] = 0 <=> etag[d] = 0
    /\ etag[Dept[t]] # 0

\* A write that goes through moves the budget by what the handler meant to.
LEMMA CommitEffect ==
    ASSUME QuietInv, NEW h \in Handlers, pc[h] \in Writing, NEW delta \in Int,
           etag[Dept[Tid(h)]] # 0, Committed(h, seen[h].remaining + delta)
    PROVE  BudgetMoves(Tid(h), delta)
<1>0. TypeInv /\ SnapshotOK
  BY DEF QuietInv, BudgetInv
<1>1. Dept[Tid(h)] \in Departments
  BY <1>0, BusyHandler DEF Writing
<1>2. seen[h].remaining = remaining[Dept[Tid(h)]]
  BY <1>0 DEF SnapshotOK, Committed
<1>. QED
  BY <1>0, <1>1, <1>2 DEF Committed, BudgetMoves, TypeInv, TypeOK

\* A reservation moves the amount out of the budget, or is tried again.
LEMMA ReserveWriteEffect ==
    ASSUME Calm, QuietInv, NEW h \in Handlers, ReserveWrite(h)
    PROVE  /\ pc[h] = "reserve_write" /\ OthersKept(h) /\ UNCHANGED <<unseeded, published>>
           /\ \/ /\ pc'[h] = "save" /\ job'[h] = job[h]
                 /\ draft'[h] = [status |-> "reserved", reserved |-> Amount[Tid(h)]]
                 /\ debits' = [debits EXCEPT ![Tid(h)] = @ + 1]
                 /\ UNCHANGED <<payments, credits>>
                 /\ Amount[Tid(h)] <= remaining[Dept[Tid(h)]]
                 /\ BudgetMoves(Tid(h), -Amount[Tid(h)])
              \/ /\ PaymentsKept /\ BudgetsKept
                 /\ pc'[h] = "idle" \/ (pc'[h] = "reserve_read" /\ job'[h] = job[h])
<1>0. TypeInv /\ SnapshotOK /\ ~Fault
  BY NoDisturbance DEF QuietInv, BudgetInv
<1>1. /\ pc[h] = "reserve_write" /\ UNCHANGED <<payments, published, unseeded>>
  BY DEF ReserveWrite
<1>2. /\ Dept[Tid(h)] \in Departments /\ Amount[Tid(h)] \in Nat /\ etag[Dept[Tid(h)]] # 0
      /\ seen[h].remaining \in Int
  BY <1>0, <1>1, BusyHandler DEF QuietInv, HandlerAt, TypeInv, TypeOK
<1>3. CASE NotCommitted(h, "reserve_read")
  BY <1>0, <1>1, <1>3, RetryEffect DEF NotCommitted, PaymentsKept, BudgetsKept, history
<1>4. CASE ~NotCommitted(h, "reserve_read")
  <2>1. /\ Committed(h, seen[h].remaining - Amount[Tid(h)])
        /\ debits' = [debits EXCEPT ![Tid(h)] = @ + 1] /\ UNCHANGED credits
        /\ draft' = [draft EXCEPT ![h] = [status |-> "reserved", reserved |-> Amount[Tid(h)]]]
        /\ seen' = [seen EXCEPT ![h] = NoBudget] /\ Goto(h, "save") /\ UNCHANGED job
    BY <1>0, <1>4 DEF ReserveWrite
  <2>2. /\ OthersKept(h) /\ pc'[h] = "save" /\ job'[h] = job[h]
        /\ draft'[h] = [status |-> "reserved", reserved |-> Amount[Tid(h)]]
    BY <1>0, <2>1 DEF Goto, OthersKept, TypeInv, TypeOK
  <2>3. seen[h].remaining - Amount[Tid(h)] = seen[h].remaining + (-Amount[Tid(h)])
    BY <1>2
  <2>4. Committed(h, seen[h].remaining + (-Amount[Tid(h)]))
    BY <2>1, <2>3
  <2>5. BudgetMoves(Tid(h), -Amount[Tid(h)])
    BY <1>1, <1>2, <2>4, CommitEffect DEF Writing
  <2>6. Amount[Tid(h)] <= remaining[Dept[Tid(h)]]
    BY <1>0, <1>1, <2>1 DEF SnapshotOK, Committed, Writing
  <2>. QED
    BY <1>1, <2>1, <2>2, <2>5, <2>6
<1>. QED
  BY <1>3, <1>4

\* A save stores the draft and goes on to what its status asks for, or finds the
\* index written by another save and is made again.
LEMMA SaveEffect ==
    ASSUME Calm, QuietInv, NEW h \in Handlers, Save(h)
    PROVE  /\ pc[h] = "save" /\ OthersKept(h) /\ job'[h] = job[h] /\ draft'[h] = draft[h]
           /\ UNCHANGED <<debits, credits, unseeded, published>> /\ BudgetsKept
           /\ \/ /\ payments' = [payments EXCEPT ![Tid(h)] = draft[h]]
                 /\ pc'[h] = IF draft[h].status = "reserved" THEN "charge" ELSE "publish"
              \/ payments' = payments /\ pc'[h] = "save"
<1>0. TypeInv /\ ~Fault
  BY NoDisturbance
<1>1. /\ pc[h] = "save"
      /\ UNCHANGED <<debits, credits, unseeded, published, remaining, etag>>
  BY DEF Save
<1>2. CASE /\ Stored(h)
           /\ Goto(h, IF draft[h].status = "reserved" THEN "charge" ELSE "publish")
           /\ UNCHANGED <<job, draft, seen>>
  BY <1>0, <1>1, <1>2 DEF Stored, Goto, OthersKept, BudgetsKept, TypeInv, TypeOK
<1>3. CASE UNCHANGED payments /\ Retry(h, "save") /\ gaveUp' = (gaveUp \/ LastAttempt(h))
  <2>1. ~LastAttempt(h)
    BY <1>3 DEF Calm, Undisturbed
  <2>2. Again(h, "save")
    BY <1>3, <2>1 DEF Retry
  <2>. QED
    BY <1>0, <1>1, <1>3, <2>2 DEF Again, OthersKept, BudgetsKept, TypeInv, TypeOK
<1>. QED
  BY <1>0, <1>2, <1>3 DEF Save

\* The gateway's answer decides between completing and giving back.
LEMMA ChargeEffect ==
    ASSUME Calm, QuietInv, NEW h \in Handlers, Charge(h)
    PROVE  /\ pc[h] = "charge" /\ OthersKept(h) /\ job'[h] = job[h]
           /\ PaymentsKept /\ BudgetsKept /\ UNCHANGED <<unseeded, published>>
           /\ \/ pc'[h] = "release_read" /\ draft'[h] = draft[h]
              \/ pc'[h] = "save" /\ draft'[h].status = "completed"
<1>0. TypeInv
  BY NoDisturbance
<1>1. pc[h] = "charge" /\ UNCHANGED <<store, history, published, unseeded, job, seen>>
  BY DEF Charge
<1>2. CASE Goto(h, "release_read") /\ UNCHANGED draft
  BY <1>0, <1>1, <1>2
     DEF Goto, OthersKept, PaymentsKept, BudgetsKept, store, history, TypeInv, TypeOK
<1>3. CASE draft' = [draft EXCEPT ![h].status = "completed"] /\ Goto(h, "save")
  <2>1. draft \in [Handlers -> [status: Statuses, reserved: Nat]] /\ "completed" \in Statuses
    BY <1>0 DEF TypeInv, TypeOK, Statuses
  <2>2. draft'[h].status = "completed" /\ \A i \in Handlers \ {h} : draft'[i] = draft[i]
    BY <1>3, <2>1, StatusSet
  <2>3. OthersKept(h) /\ pc'[h] = "save" /\ job'[h] = job[h]
    BY <1>0, <1>1, <1>3, <2>2 DEF Goto, OthersKept, TypeInv, TypeOK
  <2>. QED
    BY <1>1, <2>2, <2>3 DEF PaymentsKept, BudgetsKept, store, history
<1>. QED
  BY <1>2, <1>3 DEF Charge

\* To give back, the budget is read first, or the handler gives up.
LEMMA ReleaseReadEffect ==
    ASSUME Calm, QuietInv, NEW h \in Handlers, ReleaseRead(h)
    PROVE  /\ pc[h] = "release_read" /\ OthersKept(h)
           /\ PaymentsKept /\ BudgetsKept /\ UNCHANGED <<unseeded, published>>
           /\ \/ pc'[h] = "idle"
              \/ pc'[h] = "release_write" /\ draft'[h] = draft[h] /\ job'[h] = job[h]
<1>0. TypeInv
  BY NoDisturbance
<1>1. pc[h] = "release_read" /\ UNCHANGED <<store, history, published, unseeded>>
  BY DEF ReleaseRead
<1>2. CASE Raise(h)
  BY <1>0, <1>1, <1>2, LeaveEffect DEF Raise, PaymentsKept, BudgetsKept, store, history
<1>3. CASE ~Raise(h)
  BY <1>0, <1>1, <1>3
     DEF ReleaseRead, OthersKept, PaymentsKept, BudgetsKept, store, history, TypeInv, TypeOK
<1>. QED
  BY <1>2, <1>3

\* A compensation moves the amount back into the budget, or is tried again.
LEMMA ReleaseWriteEffect ==
    ASSUME Calm, QuietInv, NEW h \in Handlers, ReleaseWrite(h)
    PROVE  /\ pc[h] = "release_write" /\ OthersKept(h) /\ UNCHANGED <<unseeded, published>>
           /\ \/ /\ pc'[h] = "save" /\ job'[h] = job[h]
                 /\ draft'[h].status = "failed"
                 /\ credits' = [credits EXCEPT ![Tid(h)] = @ + 1]
                 /\ UNCHANGED <<payments, debits>>
                 /\ BudgetMoves(Tid(h), Amount[Tid(h)])
              \/ /\ PaymentsKept /\ BudgetsKept
                 /\ \/ pc'[h] = "idle"
                    \/ pc'[h] = "release_read" /\ draft'[h] = draft[h] /\ job'[h] = job[h]
<1>0. TypeInv /\ ~Fault
  BY NoDisturbance
<1>1. /\ pc[h] = "release_write" /\ UNCHANGED <<payments, published, unseeded>>
  BY DEF ReleaseWrite
<1>2. /\ Tid(h) \in TrackingIds /\ Dept[Tid(h)] \in Departments /\ Amount[Tid(h)] \in Nat
      /\ draft[h] = [status |-> "reserved", reserved |-> Amount[Tid(h)]]
      /\ Ledger(Tid(h), 1, 0)
  <2>1. HandlerAt(h)
    BY DEF QuietInv
  <2>. QED
    BY <1>0, <1>1, <2>1, BusyHandler DEF HandlerAt
<1>3. CASE NotCommitted(h, "release_read")
  BY <1>0, <1>1, <1>3, RetryEffect DEF NotCommitted, PaymentsKept, BudgetsKept, history
<1>4. CASE ~NotCommitted(h, "release_read")
  <2>1. /\ Committed(h, seen[h].remaining + draft[h].reserved)
        /\ credits' = [credits EXCEPT ![Tid(h)] = @ + 1] /\ UNCHANGED debits
        /\ draft' = [draft EXCEPT ![h].status = "failed"]
        /\ seen' = [seen EXCEPT ![h] = NoBudget] /\ Goto(h, "save") /\ UNCHANGED job
    BY <1>0, <1>4 DEF ReleaseWrite
  <2>2. draft \in [Handlers -> [status: Statuses, reserved: Nat]] /\ "failed" \in Statuses
    BY <1>0 DEF TypeInv, TypeOK, Statuses
  <2>3. draft'[h].status = "failed" /\ \A i \in Handlers \ {h} : draft'[i] = draft[i]
    BY <2>1, <2>2, StatusSet
  <2>4. OthersKept(h) /\ pc'[h] = "save" /\ job'[h] = job[h]
    BY <1>0, <2>1, <2>3 DEF Goto, OthersKept, TypeInv, TypeOK
  <2>5. etag[Dept[Tid(h)]] # 0
    <3>1. RecordAt(Tid(h))
      BY <1>2 DEF QuietInv
    <3>. QED
      BY <1>2, <3>1 DEF RecordAt, Ledger
  <2>6. BudgetMoves(Tid(h), Amount[Tid(h)])
    BY <1>1, <1>2, <2>1, <2>5, CommitEffect DEF Writing
  <2>. QED
    BY <1>1, <2>1, <2>3, <2>4, <2>6
<1>. QED
  BY <1>3, <1>4

\* The announcement says what the record says, and ends the request.
LEMMA PublishEffect ==
    ASSUME Calm, QuietInv, NEW h \in Handlers, Publish(h)
    PROVE  /\ pc[h] = "publish" /\ OthersKept(h) /\ pc'[h] = "idle"
           /\ PaymentsKept /\ BudgetsKept /\ UNCHANGED unseeded
           /\ published' = published \cup {[tid |-> Tid(h), resolution |-> draft[h].status]}
<1>0. TypeInv
  BY NoDisturbance
<1>1. /\ pc[h] = "publish" /\ UNCHANGED <<store, history, unseeded>> /\ Leave(h)
      /\ published' = published \cup {[tid |-> Tid(h), resolution |-> draft[h].status]}
  BY DEF Publish, Sent, Return, Raise
<1>. QED
  BY <1>0, <1>1, LeaveEffect DEF PaymentsKept, BudgetsKept, store, history

-----------------------------------------------------------------------------
\* Every undisturbed step keeps the invariant.
LEMMA QuietNext == Calm /\ QuietInv /\ [Next]_vars => QuietInv'
<1>. SUFFICES ASSUME Calm, QuietInv, [Next]_vars PROVE QuietInv'
  OBVIOUS
<1>0. /\ TypeInv /\ TypeInv' /\ SerialInv' /\ BudgetInv' /\ Alone
      /\ \A h \in Handlers : HandlerInStep(h)
  BY NoDisturbance, QuietStep DEF InStep
<1>1. /\ SeedsOK
      /\ \A h \in Handlers : HandlerAt(h)
      /\ \A t \in TrackingIds : RecordAt(t)
  BY DEF QuietInv
\* A step that changes no payment and no budget, and keeps the handler's claims.
<1>2. ASSUME NEW h \in Handlers, pc[h] # "idle", OthersKept(h), PaymentsKept, BudgetsKept,
             unseeded' = unseeded,
             \/ job'[h] = job[h] /\ pc'[h] # "idle" /\ HandlerAt(h)'
             \/ /\ pc'[h] = "idle"
                /\ payments[Tid(h)].status = "none" => Ledger(Tid(h), 0, 0)
                /\ payments[Tid(h)].status = "reserved" => Ledger(Tid(h), 1, 0)
      PROVE  QuietInv'
  <2>1. PICK t \in TrackingIds : t = Tid(h)
    BY <1>0, <1>2, BusyHandler
  <2>2. OtherPaymentsKept(Tid(h)) /\ SeedsKept
    BY <1>2 DEF PaymentsKept, BudgetsKept, OtherPaymentsKept, SeedsKept
  <2>3. RecordAt(t)'
    <3>1. RecordAt(t)
      BY <1>1, <2>1
    <3>2. CASE pc'[h] = "idle"
      BY <1>2, <2>1, <3>1, <3>2 DEF RecordAt, Ledger, PaymentsKept, BudgetsKept
    <3>3. CASE pc'[h] # "idle"
      <4>1. job'[h] = job[h]
        BY <1>2, <3>3
      <4>2. Busy(t)'
        BY <2>1, <3>3, <4>1 DEF Busy, Tid
      <4>. QED
        BY <1>2, <3>1, <4>2 DEF RecordAt, PaymentsKept, BudgetsKept
    <3>. QED
      BY <3>2, <3>3
  <2>4. HandlerAt(h)' /\ (pc'[h] = "idle" \/ Tid(h)' = Tid(h))
    BY <1>2 DEF HandlerAt, Tid
  <2>. QED
    BY <1>0, <1>2, <2>1, <2>2, <2>3, <2>4, QuietFrame
<1>3. CASE UNCHANGED vars \/ \E h \in Handlers : ReadIndex(h)
  <2>1. SeedsOK'
    BY <1>1, <1>3 DEF ReadIndex, SeedsOK, vars, store
  <2>2. \A h \in Handlers : HandlerAt(h)'
    BY <1>1, <1>3 DEF ReadIndex, HandlerAt, Ledger, Tid, Serving, Triggers, vars, store, local, history
  <2>3. \A t \in TrackingIds : RecordAt(t)'
    BY <1>1, <1>3 DEF ReadIndex, RecordAt, Ledger, Busy, Tid, vars, store, local, history
  <2>. QED
    BY <1>0, <2>1, <2>2, <2>3 DEF QuietInv
<1>4. ASSUME NEW d \in Configured, EnsureSeeded(d) PROVE QuietInv'
  <2>1. /\ d \in unseeded /\ unseeded' = unseeded \ {d} /\ d \in Departments
        /\ UNCHANGED <<payments, local, history>>
        /\ etag'[d] # 0 /\ \A x \in Departments \ {d} : etag'[x] = etag[x]
    <3>1. ~Fault
      BY NoDisturbance
    <3>. QED
      BY <1>0, <1>4, <3>1, BudgetAssumption DEF EnsureSeeded, TypeInv, TypeOK
  <2>2. SeedsOK'
    BY <1>1, <2>1, BudgetAssumption DEF SeedsOK
  <2>3. ASSUME NEW h \in Handlers PROVE HandlerAt(h)'
    BY <1>1, <2>1 DEF HandlerAt, Serving, local
  <2>4. ASSUME NEW t \in TrackingIds PROVE RecordAt(t)'
    <3>1. Dept[t] \in Departments /\ RecordAt(t)
      BY <1>1, BudgetAssumption
    <3>2. Busy(t)' <=> Busy(t)
      BY <2>1 DEF Busy, Tid, local
    <3>. QED
      BY <2>1, <3>1, <3>2 DEF RecordAt, Ledger, history
  <2>. QED
    BY <1>0, <2>2, <2>3, <2>4 DEF QuietInv
<1>5. ASSUME NEW h \in Handlers, NEW e \in Events, Ignore(h, e) PROVE QuietInv'
  <2>0. UNCHANGED <<store, local, history, unseeded>>
    BY <1>5 DEF Ignore, Receive
  <2>1. SeedsOK'
    BY <1>1, <2>0 DEF SeedsOK, store
  <2>2. \A i \in Handlers : HandlerAt(i)'
    BY <1>1, <2>0 DEF HandlerAt, Ledger, Tid, Serving, Triggers, store, local, history
  <2>3. \A t \in TrackingIds : RecordAt(t)'
    BY <1>1, <2>0 DEF RecordAt, Ledger, Busy, Tid, store, local, history
  <2>. QED
    BY <1>0, <2>1, <2>2, <2>3 DEF QuietInv
<1>6. ASSUME NEW h \in Handlers, NEW e \in Events, StartSaga(h, e) PROVE QuietInv'
  <2>0. /\ Serving /\ Triggers(e) /\ e.tid \in TrackingIds
        /\ pc[h] = "idle" /\ ~Busy(e.tid) /\ OthersKept(h)
        /\ PaymentsKept /\ BudgetsKept /\ UNCHANGED <<unseeded, published>>
        /\ job'[h] = e /\ draft'[h] = payments[e.tid]
        /\ \/ payments[e.tid].status = "none" /\ pc'[h] = "reserve_read"
           \/ payments[e.tid].status = "reserved" /\ pc'[h] = "charge"
    BY <1>6, StartEffect
  <2>1. Tid(h)' = e.tid /\ \A i \in Handlers \ {h} : Tid(i)' = Tid(i)
    BY <2>0 DEF Tid, OthersKept
  <2>2. SeedsOK'
    BY <1>1, <2>0 DEF SeedsOK, BudgetsKept
  <2>3. HandlerAt(h)'
    <3>1. RecordAt(e.tid) /\ payments[e.tid] \in [status: Statuses, reserved: Nat]
      BY <1>0, <1>1, <2>0 DEF TypeInv, TypeOK
    <3>2. payments[e.tid].status = "reserved" =>
              /\ payments[e.tid] = [status |-> "reserved", reserved |-> Amount[e.tid]]
              /\ Ledger(e.tid, 1, 0)
      BY <2>0, <3>1 DEF RecordAt
    <3>3. payments[e.tid].status = "none" => Ledger(e.tid, 0, 0)
      BY <2>0, <3>1 DEF RecordAt
    <3>. QED
      BY <2>0, <2>1, <3>2, <3>3 DEF HandlerAt, Ledger, Serving, PaymentsKept, Triggers
  <2>4. ASSUME NEW i \in Handlers \ {h} PROVE HandlerAt(i)'
    <3>1. HandlerAt(i) /\ pc'[i] = pc[i] /\ draft'[i] = draft[i] /\ job'[i] = job[i]
      BY <1>1, <2>0 DEF OthersKept
    <3>. QED
      BY <2>0, <2>1, <3>1 DEF HandlerAt, Ledger, Serving, Triggers, PaymentsKept, BudgetsKept
  <2>5. ASSUME NEW t \in TrackingIds PROVE RecordAt(t)'
    <3>1. RecordAt(t)
      BY <1>1
    <3>2. Busy(t) => Busy(t)'
      BY <2>0, <2>1 DEF Busy, OthersKept
    <3>. QED
      BY <2>0, <3>1, <3>2 DEF RecordAt, Ledger, PaymentsKept, BudgetsKept
  <2>. QED
    BY <1>0, <2>2, <2>3, <2>4, <2>5 DEF QuietInv
<1>7. ASSUME NEW h \in Handlers, CallFails(h) PROVE FALSE
  BY <1>7, NoDisturbance DEF CallFails
<1>8. ASSUME NEW h \in Handlers, ReserveRead(h) PROVE QuietInv'
  <2>1. /\ pc[h] = "reserve_read" /\ HandlerAt(h) /\ payments[Tid(h)].status = "none"
    BY <1>0, <1>1, <1>8, ReserveReadEffect DEF HandlerInStep
  <2>2. HandlerAt(h)' /\ pc'[h] # "idle" /\ job'[h] = job[h]
    BY <1>8, <2>1, ReserveReadEffect
       DEF HandlerAt, Ledger, Tid, Serving, Triggers, PaymentsKept, BudgetsKept
  <2>. QED
    BY <1>2, <1>8, <2>1, <2>2, ReserveReadEffect
<1>9. ASSUME NEW h \in Handlers, ReserveWrite(h) PROVE QuietInv'
  <2>1. /\ pc[h] = "reserve_write" /\ OthersKept(h) /\ unseeded' = unseeded
        /\ HandlerAt(h) /\ payments[Tid(h)].status = "none"
    BY <1>0, <1>1, <1>9, ReserveWriteEffect DEF HandlerInStep
  <2>2. Ledger(Tid(h), 0, 0) /\ Tid(h) \in TrackingIds
    BY <1>0, <2>1, BusyHandler DEF HandlerAt
  <2>3. CASE PaymentsKept /\ BudgetsKept
              /\ (pc'[h] = "idle" \/ (pc'[h] = "reserve_read" /\ job'[h] = job[h]))
    <3>1. pc'[h] = "reserve_read" /\ job'[h] = job[h] => HandlerAt(h)'
      BY <2>1, <2>2, <2>3 DEF HandlerAt, Ledger, Tid, Serving, Triggers, PaymentsKept
    <3>. QED
      BY <1>2, <2>1, <2>2, <2>3, <3>1
  <2>4. CASE /\ pc'[h] = "save" /\ job'[h] = job[h]
             /\ draft'[h] = [status |-> "reserved", reserved |-> Amount[Tid(h)]]
             /\ debits' = [debits EXCEPT ![Tid(h)] = @ + 1]
             /\ UNCHANGED <<payments, credits>>
             /\ BudgetMoves(Tid(h), -Amount[Tid(h)])
    <3>. DEFINE t == Tid(h)
    <3>1. debits'[t] = 1 /\ credits'[t] = 0 /\ Tid(h)' = t /\ payments'[t] = payments[t]
      BY <1>0, <2>2, <2>4 DEF Ledger, Tid, TypeInv, TypeOK
    <3>2. OtherPaymentsKept(t)
      BY <1>0, <2>4 DEF OtherPaymentsKept, TypeInv, TypeOK
    <3>3. SeedsKept
      BY <2>1, <2>4 DEF SeedsKept, BudgetMoves
    <3>4. HandlerAt(h)'
      BY <2>1, <2>4, <3>1 DEF HandlerAt, Ledger, Serving, Triggers
    <3>5. Busy(t)'
      BY <2>4, <3>1 DEF Busy
    <3>6. etag'[Dept[t]] # 0
      BY <2>2, <2>4, BudgetAssumption DEF BudgetMoves
    <3>7. RecordAt(t)'
      BY <2>1, <3>1, <3>5, <3>6 DEF RecordAt
    <3>. QED
      BY <1>0, <2>1, <3>1, <3>2, <3>3, <3>4, <3>7, QuietFrame
  <2>. QED
    BY <1>9, <2>3, <2>4, ReserveWriteEffect
<1>10. ASSUME NEW h \in Handlers, Save(h) PROVE QuietInv'
  <2>. DEFINE t == Tid(h)
  <2>1. /\ pc[h] = "save" /\ OthersKept(h) /\ job'[h] = job[h] /\ draft'[h] = draft[h]
        /\ UNCHANGED <<debits, credits, unseeded, published>> /\ BudgetsKept
    BY <1>10, SaveEffect
  <2>2. t \in TrackingIds /\ HandlerAt(h) /\ RecordAt(t)
    BY <1>0, <1>1, <2>1, BusyHandler
  <2>3. CASE payments' = payments /\ pc'[h] = "save"
    <3>1. HandlerAt(h)'
      BY <2>1, <2>2, <2>3 DEF HandlerAt, Ledger, Tid, Serving, Triggers
    <3>. QED
      BY <1>2, <2>1, <2>3, <3>1 DEF PaymentsKept
  <2>4. CASE /\ payments' = [payments EXCEPT ![t] = draft[h]]
             /\ pc'[h] = IF draft[h].status = "reserved" THEN "charge" ELSE "publish"
    <3>1. payments'[t] = draft[h] /\ Tid(h)' = t /\ OtherPaymentsKept(t) /\ SeedsKept
      BY <1>0, <2>1, <2>2, <2>4
         DEF OtherPaymentsKept, SeedsKept, BudgetsKept, Tid, TypeInv, TypeOK
    <3>2. HandlerAt(h)'
      BY <2>1, <2>2, <2>4, <3>1 DEF HandlerAt, Ledger, Serving, Triggers
    <3>3. Busy(t)'
      BY <2>4, <3>1 DEF Busy
    <3>4. draft[h].status = "reserved" => draft[h].reserved = Amount[t]
      BY <2>1, <2>2 DEF HandlerAt
    <3>5. RecordAt(t)'
      BY <2>1, <2>2, <3>1, <3>3, <3>4 DEF RecordAt, BudgetsKept
    <3>. QED
      BY <1>0, <2>1, <3>1, <3>2, <3>5, QuietFrame
  <2>. QED
    BY <1>10, <2>3, <2>4, SaveEffect
<1>11. ASSUME NEW h \in Handlers, Charge(h) PROVE QuietInv'
  <2>1. /\ pc[h] = "charge" /\ HandlerAt(h) /\ payments[Tid(h)].status = "reserved"
    BY <1>0, <1>1, <1>11, ChargeEffect DEF HandlerInStep
  <2>2. HandlerAt(h)' /\ pc'[h] # "idle" /\ job'[h] = job[h]
    BY <1>11, <2>1, ChargeEffect
       DEF HandlerAt, Ledger, Tid, Serving, Triggers, PaymentsKept, BudgetsKept
  <2>. QED
    BY <1>2, <1>11, <2>1, <2>2, ChargeEffect
<1>12. ASSUME NEW h \in Handlers, ReleaseRead(h) PROVE QuietInv'
  <2>1. /\ pc[h] = "release_read" /\ HandlerAt(h) /\ payments[Tid(h)].status = "reserved"
    BY <1>0, <1>1, <1>12, ReleaseReadEffect DEF HandlerInStep
  <2>2. Ledger(Tid(h), 1, 0)
    BY <2>1 DEF HandlerAt
  <2>3. pc'[h] = "idle" \/ (HandlerAt(h)' /\ pc'[h] # "idle" /\ job'[h] = job[h])
    BY <1>12, <2>1, ReleaseReadEffect
       DEF HandlerAt, Ledger, Tid, Serving, Triggers, PaymentsKept, BudgetsKept
  <2>. QED
    BY <1>2, <1>12, <2>1, <2>2, <2>3, ReleaseReadEffect
<1>13. ASSUME NEW h \in Handlers, ReleaseWrite(h) PROVE QuietInv'
  <2>1. /\ pc[h] = "release_write" /\ OthersKept(h) /\ unseeded' = unseeded
        /\ HandlerAt(h) /\ payments[Tid(h)].status = "reserved"
    BY <1>0, <1>1, <1>13, ReleaseWriteEffect DEF HandlerInStep
  <2>2. Ledger(Tid(h), 1, 0) /\ Tid(h) \in TrackingIds /\ RecordAt(Tid(h))
    BY <1>0, <1>1, <2>1, BusyHandler DEF HandlerAt
  <2>3. CASE /\ PaymentsKept /\ BudgetsKept
             /\ \/ pc'[h] = "idle"
                \/ pc'[h] = "release_read" /\ draft'[h] = draft[h] /\ job'[h] = job[h]
    <3>1. pc'[h] = "idle" \/ (HandlerAt(h)' /\ pc'[h] # "idle" /\ job'[h] = job[h])
      BY <2>1, <2>2, <2>3 DEF HandlerAt, Ledger, Tid, Serving, Triggers, PaymentsKept
    <3>. QED
      BY <1>2, <2>1, <2>2, <2>3, <3>1
  <2>4. CASE /\ pc'[h] = "save" /\ job'[h] = job[h] /\ draft'[h].status = "failed"
             /\ credits' = [credits EXCEPT ![Tid(h)] = @ + 1]
             /\ UNCHANGED <<payments, debits>>
             /\ BudgetMoves(Tid(h), Amount[Tid(h)])
    <3>. DEFINE t == Tid(h)
    <3>1. debits'[t] = 1 /\ credits'[t] = 1 /\ Tid(h)' = t /\ payments'[t] = payments[t]
      BY <1>0, <2>2, <2>4 DEF Ledger, Tid, TypeInv, TypeOK
    <3>2. OtherPaymentsKept(t)
      BY <1>0, <2>4 DEF OtherPaymentsKept, TypeInv, TypeOK
    <3>3. SeedsKept
      BY <2>1, <2>4 DEF SeedsKept, BudgetMoves
    <3>4. HandlerAt(h)'
      BY <2>1, <2>4, <3>1 DEF HandlerAt, Ledger, Serving, Triggers
    <3>5. Busy(t)'
      BY <2>4, <3>1 DEF Busy
    <3>6. etag'[Dept[t]] # 0
      BY <2>2, <2>4, BudgetAssumption DEF BudgetMoves
    <3>7. RecordAt(t)'
      BY <2>2, <3>1, <3>5, <3>6 DEF RecordAt
    <3>. QED
      BY <1>0, <2>1, <3>1, <3>2, <3>3, <3>4, <3>7, QuietFrame
  <2>. QED
    BY <1>13, <2>3, <2>4, ReleaseWriteEffect
<1>14. ASSUME NEW h \in Handlers, Publish(h) PROVE QuietInv'
  <2>1. /\ pc[h] = "publish" /\ payments[Tid(h)].status = draft[h].status
        /\ draft[h].status \in Terminal
    BY <1>0, <1>14, PublishEffect DEF HandlerInStep, TypeInv, HandlersOK
  <2>. QED
    BY <1>2, <1>14, <2>1, PublishEffect DEF Terminal
<1>15. ~Crash
  BY NoDisturbance
<1>. QED
  BY <1>3, <1>4, <1>5, <1>6, <1>7, <1>8, <1>9, <1>10, <1>11, <1>12, <1>13, <1>14, <1>15
     DEF Next, HandlerStep

-----------------------------------------------------------------------------
(* The refinement: every step is a step of the contract, or none            *)

Balance(d) == IF d \in Configured /\ etag[d] = 0 THEN Total[d] ELSE remaining[d]
ApprovedIds == {e.tid : e \in {x \in Events : Approving(x)}}

PhasesKept == \A u \in TrackingIds : Phase(u)' = Phase(u)
PhaseMoves(t, to) ==
    /\ Phase(t)' = to
    /\ \A u \in TrackingIds \ {t} : Phase(u)' = Phase(u)
BalancesKept == \A d \in Departments : Balance(d)' = Balance(d)
BalanceMoves(t, delta) ==
    /\ Balance(Dept[t])' = Balance(Dept[t]) + delta
    /\ \A d \in Departments \ {Dept[t]} : Balance(d)' = Balance(d)

\* A payment's phase, from what QuietInv says of it.
LEMMA PhaseOf ==
    ASSUME TypeInv, NEW t \in TrackingIds
    PROVE  /\ payments[t].status = "completed" => Phase(t) = "paid"
           /\ payments[t].status = "failed" => Phase(t) = "failed"
           /\ payments[t].status \in {"none", "reserved"} =>
                 /\ Ledger(t, 1, 0) => Phase(t) = "held"
                 /\ Ledger(t, 1, 1) => Phase(t) = "released"
                 /\ Ledger(t, 0, 0) => Phase(t) = IF Refusing(t) THEN "refused" ELSE "new"
BY DEF Phase, Ledger, Terminal

\* The same of the next state.
LEMMA PhaseOfNext ==
    ASSUME TypeInv', NEW t \in TrackingIds
    PROVE  /\ payments'[t].status = "completed" => Phase(t)' = "paid"
           /\ payments'[t].status = "failed" => Phase(t)' = "failed"
           /\ payments'[t].status \in {"none", "reserved"} =>
                 /\ Ledger(t, 1, 0)' => Phase(t)' = "held"
                 /\ Ledger(t, 1, 1)' => Phase(t)' = "released"
                 /\ Ledger(t, 0, 0)' => Phase(t)' = IF Refusing(t)' THEN "refused" ELSE "new"
BY DEF Phase, Ledger, Terminal

\* A step of h leaves the phases of the other payments alone.
LEMMA OtherPhases ==
    ASSUME NEW h \in Handlers, NEW t, OthersKept(h), OtherPaymentsKept(t),
           pc[h] = "idle" \/ Tid(h) = t, pc'[h] = "idle" \/ Tid(h)' = t
    PROVE  \A u \in TrackingIds \ {t} : Phase(u)' = Phase(u)
<1>1. ASSUME NEW u \in TrackingIds \ {t} PROVE Refusing(u)' <=> Refusing(u)
  BY DEF Refusing, OthersKept, Tid
<1>. QED
  BY <1>1 DEF Phase, OtherPaymentsKept

\* Only a handler about to save a failure refuses.
LEMMA RefusingOf ==
    ASSUME Alone, NEW h \in Handlers, pc[h] # "idle"
    PROVE  Refusing(Tid(h)) <=> pc[h] = "save" /\ draft[h].status = "failed"
BY DEF Alone, Refusing

\* A step that changes no record is invisible if the handler neither starts nor
\* stops refusing.
LEMMA KeptPhases ==
    ASSUME NEW h \in Handlers, OthersKept(h), PaymentsKept,
           ~(pc[h] = "save" /\ draft[h].status = "failed"),
           ~(pc'[h] = "save" /\ draft'[h].status = "failed")
    PROVE  PhasesKept
<1>1. ASSUME NEW u \in TrackingIds PROVE Refusing(u)' <=> Refusing(u)
  BY DEF Refusing, OthersKept, Tid
<1>. QED
  BY <1>1 DEF Phase, PhasesKept, PaymentsKept

\* A budget that is not written has the same balance.
LEMMA KeptBalances == BudgetsKept => BalancesKept
BY DEF BudgetsKept, BalancesKept, Balance

\* The balance moves as the stored budget does.
LEMMA MovedBalance ==
    ASSUME NEW t \in TrackingIds, NEW delta, BudgetMoves(t, delta)
    PROVE  BalanceMoves(t, delta)
<1>1. Dept[t] \in Departments
  BY BudgetAssumption
<1>. QED
  BY <1>1 DEF BudgetMoves, BalanceMoves, Balance

(* The same facts, as the contract's steps read them.                       *)

\* A step that moves no phase, balance or announcement is a stutter of the contract.
LEMMA StutterStep ==
    ASSUME PhasesKept, BalancesKept, published' = published
    PROVE  UNCHANGED Contract!contractVars
BY DEF PhasesKept, BalancesKept, Balance, Contract!contractVars

\* A phase that moves alone is a move of the contract.
LEMMA MoveStep ==
    ASSUME NEW t \in TrackingIds, NEW to, PhaseMoves(t, to)
    PROVE  Contract!Move(t, Phase(t), to)
BY DEF PhaseMoves, Contract!Move

\* The saga starts where the contract does.
LEMMA ContractStart == Init => Contract!ContractInit
<1>. SUFFICES ASSUME Init PROVE Contract!ContractInit
  OBVIOUS
<1>1. ASSUME NEW t \in TrackingIds PROVE Phase(t) = "new"
  <2>1. ~Refusing(t)
    BY DEF Init, Refusing
  <2>2. Ledger(t, 0, 0) /\ payments[t].status = "none"
    BY DEF Init, Ledger, NoRecord
  <2>. QED
    BY <2>1, <2>2, TypeInit, PhaseOf
<1>2. \A d \in Departments : etag[d] = 0 /\ remaining[d] = 0
  BY DEF Init
<1>3. published = {}
  BY DEF Init
<1>. QED
  BY <1>1, <1>2, <1>3 DEF Contract!ContractInit

\* Every undisturbed step of the saga is a step of the contract, or none.
LEMMA ContractStep ==
    Calm /\ QuietInv /\ QuietInv' /\ [Next]_vars
        => [Contract!ContractNext]_(Contract!contractVars)
<1>. SUFFICES ASSUME Calm, QuietInv, QuietInv', [Next]_vars
              PROVE  Contract!ContractNext \/ UNCHANGED Contract!contractVars
  OBVIOUS
<1>0. /\ TypeInv /\ TypeInv' /\ Alone /\ Alone'
      /\ \A h \in Handlers : HandlerInStep(h) /\ HandlerAt(h)
      /\ SeedsOK
  BY NoDisturbance, QuietStep DEF InStep, QuietInv
\* The payment a busy handler works on was approved.
<1>1. ASSUME NEW h \in Handlers, pc[h] # "idle"
      PROVE  Tid(h) \in TrackingIds /\ Tid(h) \in ApprovedIds /\ Serving
  <2>1. Triggers(job[h]) /\ Serving /\ job[h] \in Events
    BY <1>0, <1>1 DEF HandlerAt, TypeInv, HandlersOK
  <2>. QED
    BY <1>0, <1>1, <2>1, BusyHandler DEF Triggers, Approving, ApprovedIds, Tid
<1>2. CASE UNCHANGED vars \/ \E h \in Handlers : ReadIndex(h)
  <2>1. PhasesKept /\ BalancesKept /\ published' = published
    BY <1>2 DEF ReadIndex, PhasesKept, BalancesKept, Phase, Refusing, Balance, Tid, vars, store,
                local, history
  <2>. QED
    BY <2>1, StutterStep
<1>3. ASSUME NEW d \in Configured, EnsureSeeded(d) PROVE UNCHANGED Contract!contractVars
  <2>1. PhasesKept /\ published' = published
    BY <1>3 DEF EnsureSeeded, PhasesKept, Phase, Refusing, Tid, local, history
  <2>2. BalancesKept
    BY <1>0, <1>3, BudgetAssumption DEF EnsureSeeded, BalancesKept, Balance, TypeInv, TypeOK
  <2>. QED
    BY <2>1, <2>2, StutterStep
<1>4. ASSUME NEW h \in Handlers, NEW e \in Events, Ignore(h, e)
      PROVE  UNCHANGED Contract!contractVars
  <2>1. PhasesKept /\ BalancesKept /\ published' = published
    BY <1>4 DEF Ignore, Receive, PhasesKept, BalancesKept, Phase, Refusing, Balance, Tid,
                store, local, history
  <2>. QED
    BY <2>1, StutterStep
<1>5. ASSUME NEW h \in Handlers, NEW e \in Events, StartSaga(h, e)
      PROVE  UNCHANGED Contract!contractVars
  <2>1. PhasesKept /\ BalancesKept /\ published' = published
    BY <1>5, StartEffect, KeptPhases, KeptBalances
  <2>. QED
    BY <2>1, StutterStep
<1>6. ASSUME NEW h \in Handlers, CallFails(h) PROVE FALSE
  BY <1>6, NoDisturbance DEF CallFails
<1>7. ASSUME NEW h \in Handlers, ReserveRead(h)
      PROVE  Contract!ContractNext \/ UNCHANGED Contract!contractVars
  <2>1. PICK t \in TrackingIds : t = Tid(h)
    BY <1>1, <1>7, ReserveReadEffect
  <2>2. /\ pc[h] = "reserve_read" /\ OthersKept(h) /\ Tid(h)' = t
        /\ PaymentsKept /\ BudgetsKept /\ published' = published
        /\ t \in ApprovedIds /\ Serving
        /\ payments[t].status = "none" /\ Ledger(t, 0, 0)
    BY <1>0, <1>1, <1>7, <2>1, ReserveReadEffect DEF HandlerInStep, HandlerAt, Tid
  <2>3. CASE pc'[h] # "save"
    BY <2>2, <2>3, KeptPhases, KeptBalances, StutterStep
  <2>4. CASE pc'[h] = "save"
    <3>1. draft'[h].status = "failed" /\ Insufficient(Dept[t], Amount[t])
      BY <1>7, <2>1, <2>4, ReserveReadEffect
    <3>2. Phase(t) = "new"
      BY <1>0, <2>1, <2>2, PhaseOf, RefusingOf
    <3>3. Phase(t)' = "refused"
      <4>1. Refusing(t)'
        BY <2>2, <2>4, <3>1 DEF Refusing
      <4>2. Ledger(t, 0, 0)' /\ payments'[t].status = "none"
        BY <2>2 DEF Ledger, PaymentsKept
      <4>. QED
        BY <1>0, <4>1, <4>2, PhaseOfNext
    <3>4. PhaseMoves(t, "refused")
      BY <2>1, <2>2, <3>3, OtherPhases DEF PhaseMoves, PaymentsKept, OtherPaymentsKept
    <3>5. Contract!Move(t, "new", "refused")
      BY <3>2, <3>4, MoveStep
    <3>6. BalancesKept
      BY <2>2, KeptBalances
    <3>7. Dept[t] \in Departments
      BY BudgetAssumption
    <3>8. Dept[t] \notin Configured \/ Balance(Dept[t]) < Amount[t]
      BY <1>0, <2>2, <3>1 DEF Insufficient, SeedsOK, Serving, Balance
    <3>9. Contract!Refuse(t)
      BY <2>2, <3>5, <3>6, <3>7, <3>8
         DEF Contract!Refuse, ApprovedIds, Balance, BalancesKept
    <3>. QED
      BY <3>9 DEF Contract!ContractNext
  <2>. QED
    BY <2>3, <2>4
<1>8. ASSUME NEW h \in Handlers, ReserveWrite(h)
      PROVE  Contract!ContractNext \/ UNCHANGED Contract!contractVars
  <2>1. PICK t \in TrackingIds : t = Tid(h)
    BY <1>1, <1>8, ReserveWriteEffect
  <2>2. /\ pc[h] = "reserve_write" /\ OthersKept(h) /\ published' = published
        /\ t \in ApprovedIds /\ payments[t].status = "none" /\ Ledger(t, 0, 0)
    BY <1>0, <1>1, <1>8, <2>1, ReserveWriteEffect DEF HandlerInStep, HandlerAt
  <2>3. CASE pc'[h] # "save"
    BY <1>8, <2>2, <2>3, ReserveWriteEffect, KeptPhases, KeptBalances, StutterStep
  <2>4. CASE pc'[h] = "save"
    <3>1. /\ Tid(h)' = t /\ debits' = [debits EXCEPT ![t] = @ + 1]
          /\ UNCHANGED <<payments, credits>> /\ Amount[t] <= remaining[Dept[t]]
          /\ BudgetMoves(t, -Amount[t])
      BY <1>8, <2>1, <2>4, ReserveWriteEffect DEF Tid
    <3>2. Phase(t) = "new"
      BY <1>0, <2>1, <2>2, PhaseOf, RefusingOf
    <3>3. Phase(t)' = "held"
      <4>1. Ledger(t, 1, 0)' /\ payments'[t].status = "none"
        BY <1>0, <2>2, <3>1 DEF Ledger, TypeInv, TypeOK
      <4>. QED
        BY <1>0, <4>1, PhaseOfNext
    <3>4. OtherPaymentsKept(t)
      BY <1>0, <3>1 DEF OtherPaymentsKept, TypeInv, TypeOK
    <3>5. PhaseMoves(t, "held")
      BY <2>1, <2>2, <3>1, <3>3, <3>4, OtherPhases DEF PhaseMoves
    <3>6. Contract!Move(t, "new", "held")
      BY <3>2, <3>5, MoveStep
    <3>7. /\ Dept[t] \in Departments /\ Dept[t] \in Configured /\ etag[Dept[t]] # 0
          /\ Amount[t] \in Nat /\ remaining[Dept[t]] \in Int
      BY <1>0, <3>1, BudgetAssumption DEF SeedsOK, BudgetMoves, TypeInv, TypeOK
    <3>8. Balance(Dept[t]) = remaining[Dept[t]]
      BY <3>7 DEF Balance
    <3>9. Balance(Dept[t])' = Balance(Dept[t]) - Amount[t]
      BY <3>1, <3>7, <3>8, MovedBalance DEF BalanceMoves
    <3>10. \A d \in Departments \ {Dept[t]} : Balance(d)' = Balance(d)
      BY <3>1, MovedBalance DEF BalanceMoves
    <3>11. Contract!Hold(t)
      BY <2>2, <3>1, <3>6, <3>7, <3>8, <3>9, <3>10 DEF Contract!Hold, ApprovedIds, Balance
    <3>. QED
      BY <3>11 DEF Contract!ContractNext
  <2>. QED
    BY <2>3, <2>4
<1>9. ASSUME NEW h \in Handlers, Save(h)
      PROVE  Contract!ContractNext \/ UNCHANGED Contract!contractVars
  <2>1. PICK t \in TrackingIds : t = Tid(h)
    BY <1>1, <1>9, SaveEffect
  <2>0. CASE payments' = payments /\ pc'[h] = "save"
    <3>1. /\ OthersKept(h) /\ job'[h] = job[h] /\ draft'[h] = draft[h] /\ pc'[h] = pc[h]
          /\ UNCHANGED <<debits, credits, published>> /\ BudgetsKept
      BY <1>9, <2>0, SaveEffect
    <3>2. ASSUME NEW u \in TrackingIds PROVE Refusing(u)' <=> Refusing(u)
      BY <3>1 DEF Refusing, OthersKept, Tid
    <3>3. PhasesKept
      BY <2>0, <3>1, <3>2 DEF Phase, PhasesKept
    <3>. QED
      BY <3>1, <3>3, KeptBalances, StutterStep
  <2>. SUFFICES ASSUME ~(payments' = payments /\ pc'[h] = "save")
                PROVE  Contract!ContractNext \/ UNCHANGED Contract!contractVars
    BY <2>0
  <2>2. /\ pc[h] = "save" /\ OthersKept(h) /\ Tid(h)' = t /\ pc'[h] \in {"charge", "publish"}
        /\ payments' = [payments EXCEPT ![t] = draft[h]]
        /\ UNCHANGED <<debits, credits, published>> /\ BudgetsKept
        /\ HandlerAt(h)
    BY <1>0, <1>9, <2>1, SaveEffect DEF Tid
  <2>3. /\ OtherPaymentsKept(t) /\ payments'[t] = draft[h] /\ BalancesKept
        /\ \A taken, given : Ledger(t, taken, given)' <=> Ledger(t, taken, given)
    BY <1>0, <2>2, KeptBalances DEF OtherPaymentsKept, Ledger, TypeInv, TypeOK
  <2>4. \A u \in TrackingIds \ {t} : Phase(u)' = Phase(u)
    BY <2>1, <2>2, <2>3, OtherPhases
  <2>5. CASE draft[h].status = "reserved"
    <3>1. payments[t].status = "none" /\ Ledger(t, 1, 0)
      BY <2>1, <2>2, <2>5 DEF HandlerAt
    <3>2. Phase(t) = "held" /\ Phase(t)' = "held"
      BY <1>0, <2>3, <2>5, <3>1, PhaseOf, PhaseOfNext
    <3>. QED
      BY <2>2, <2>3, <2>4, <3>2, StutterStep DEF PhasesKept
  <2>6. CASE draft[h].status = "completed"
    <3>1. payments[t].status = "reserved" /\ Ledger(t, 1, 0)
      BY <2>1, <2>2, <2>6 DEF HandlerAt
    <3>2. Phase(t) = "held" /\ Phase(t)' = "paid"
      BY <1>0, <2>3, <2>6, <3>1, PhaseOf, PhaseOfNext
    <3>3. Contract!Move(t, "held", "paid")
      BY <2>4, <3>2, MoveStep DEF PhaseMoves
    <3>4. Contract!Pay(t)
      BY <2>2, <2>3, <3>3 DEF Contract!Pay, BalancesKept, Balance
    <3>. QED
      BY <3>4 DEF Contract!ContractNext
  <2>7. CASE draft[h].status = "failed"
    <3>1. \/ payments[t].status = "none" /\ Ledger(t, 0, 0)
          \/ payments[t].status = "reserved" /\ Ledger(t, 1, 1)
      BY <2>1, <2>2, <2>7 DEF HandlerAt
    <3>2. Refusing(t)
      BY <2>1, <2>2, <2>7 DEF Refusing
    <3>3. Phase(t) \in {"refused", "released"} /\ Phase(t)' = "failed"
      BY <1>0, <2>3, <2>7, <3>1, <3>2, PhaseOf, PhaseOfNext
    <3>4. Contract!Move(t, "released", "failed") \/ Contract!Move(t, "refused", "failed")
      BY <2>4, <3>3, MoveStep DEF PhaseMoves
    <3>5. Contract!Close(t)
      BY <2>2, <2>3, <3>4 DEF Contract!Close, BalancesKept, Balance
    <3>. QED
      BY <3>5 DEF Contract!ContractNext
  <2>. QED
    BY <1>0, <2>2, <2>5, <2>6, <2>7 DEF HandlerAt
<1>10. ASSUME NEW h \in Handlers, Charge(h) PROVE UNCHANGED Contract!contractVars
  <2>1. PhasesKept /\ BalancesKept /\ published' = published
    BY <1>0, <1>10, ChargeEffect, KeptPhases, KeptBalances
  <2>. QED
    BY <2>1, StutterStep
<1>11. ASSUME NEW h \in Handlers, ReleaseRead(h) PROVE UNCHANGED Contract!contractVars
  <2>1. PhasesKept /\ BalancesKept /\ published' = published
    BY <1>0, <1>11, ReleaseReadEffect, KeptPhases, KeptBalances
  <2>. QED
    BY <2>1, StutterStep
<1>12. ASSUME NEW h \in Handlers, ReleaseWrite(h)
      PROVE  Contract!ContractNext \/ UNCHANGED Contract!contractVars
  <2>1. PICK t \in TrackingIds : t = Tid(h)
    BY <1>1, <1>12, ReleaseWriteEffect
  <2>2. /\ pc[h] = "release_write" /\ OthersKept(h) /\ published' = published
        /\ payments[t].status = "reserved" /\ Ledger(t, 1, 0)
    BY <1>0, <1>12, <2>1, ReleaseWriteEffect DEF HandlerInStep, HandlerAt
  <2>3. CASE pc'[h] # "save"
    BY <1>12, <2>2, <2>3, ReleaseWriteEffect, KeptPhases, KeptBalances, StutterStep
  <2>4. CASE pc'[h] = "save"
    <3>1. /\ Tid(h)' = t /\ credits' = [credits EXCEPT ![t] = @ + 1]
          /\ UNCHANGED <<payments, debits>> /\ BudgetMoves(t, Amount[t])
      BY <1>12, <2>1, <2>4, ReleaseWriteEffect DEF Tid
    <3>2. Phase(t) = "held"
      BY <1>0, <2>2, PhaseOf
    <3>3. Phase(t)' = "released"
      <4>1. Ledger(t, 1, 1)' /\ payments'[t].status = "reserved"
        BY <1>0, <2>2, <3>1 DEF Ledger, TypeInv, TypeOK
      <4>. QED
        BY <1>0, <4>1, PhaseOfNext
    <3>4. OtherPaymentsKept(t)
      BY <1>0, <3>1 DEF OtherPaymentsKept, TypeInv, TypeOK
    <3>5. PhaseMoves(t, "released")
      BY <2>1, <2>2, <3>1, <3>3, <3>4, OtherPhases DEF PhaseMoves
    <3>6. Contract!Move(t, "held", "released")
      BY <3>2, <3>5, MoveStep
    <3>7. Dept[t] \in Departments
      BY BudgetAssumption
    <3>8. BalanceMoves(t, Amount[t])
      BY <3>1, MovedBalance
    <3>9. Contract!GiveBack(t)
      BY <2>2, <3>6, <3>7, <3>8 DEF Contract!GiveBack, BalanceMoves, Balance
    <3>. QED
      BY <3>9 DEF Contract!ContractNext
  <2>. QED
    BY <2>3, <2>4
<1>13. ASSUME NEW h \in Handlers, Publish(h) PROVE Contract!ContractNext
  <2>1. PICK t \in TrackingIds : t = Tid(h)
    BY <1>1, <1>13, PublishEffect
  <2>2. /\ pc[h] = "publish" /\ PhasesKept /\ BalancesKept
        /\ published' = published \cup {[tid |-> t, resolution |-> draft[h].status]}
    BY <1>13, <2>1, PublishEffect, KeptPhases, KeptBalances
  <2>3. draft[h].status \in Terminal /\ payments[t].status = draft[h].status
    BY <1>0, <2>1, <2>2 DEF TypeInv, HandlersOK, HandlerInStep
  <2>4. \/ draft[h].status = "completed" /\ Phase(t) = "paid"
        \/ draft[h].status = "failed" /\ Phase(t) = "failed"
    BY <1>0, <2>3, PhaseOf DEF Terminal
  <2>5. Contract!Announce(t)
    BY <2>2, <2>4 DEF Contract!Announce, PhasesKept, BalancesKept, Balance
  <2>. QED
    BY <2>5 DEF Contract!ContractNext
<1>14. ~Crash
  BY NoDisturbance
<1>. QED
  BY <1>2, <1>3, <1>4, <1>5, <1>6, <1>7, <1>8, <1>9, <1>10, <1>11, <1>12, <1>13, <1>14
     DEF Next, HandlerStep

\* What disturbed the service once is never forgotten.
LEMMA DisturbanceStays == TypeInv /\ [Next]_vars /\ Undisturbed' => Undisturbed
<1>. SUFFICES ASSUME TypeInv, [Next]_vars
              PROVE  /\ faults' \in {faults, faults + 1} /\ crashes' \in {crashes, crashes + 1}
                     /\ overlaps' \in {overlaps, overlaps + 1} /\ (gaveUp => gaveUp')
  BY BoundsAssumption DEF Undisturbed, TypeInv, TypeOK
<1>1. CASE UNCHANGED vars
  BY <1>1 DEF vars, env, history
<1>2. ASSUME NEW d \in Configured, EnsureSeeded(d)
      PROVE  faults' \in {faults, faults + 1} /\ UNCHANGED <<crashes, overlaps, gaveUp>>
  BY <1>2 DEF EnsureSeeded, Fault, env, history
<1>3. ASSUME NEW h \in Handlers, NEW e \in Events, Ignore(h, e) \/ StartSaga(h, e)
      PROVE  overlaps' \in {overlaps, overlaps + 1} /\ UNCHANGED <<faults, crashes, gaveUp>>
  BY <1>3 DEF Ignore, StartSaga, Receive, history
<1>4. ASSUME NEW h \in Handlers, HandlerStep(h) \/ CallFails(h)
      PROVE  /\ faults' \in {faults, faults + 1} /\ UNCHANGED <<crashes, overlaps>>
             /\ gaveUp => gaveUp'
  <2>1. CASE Save(h)
    <3>1. faults' \in {faults, faults + 1} /\ UNCHANGED <<crashes, overlaps>>
      BY <2>1 DEF Save, Fault, env
    <3>2. gaveUp => gaveUp'
      BY <2>1 DEF Save
    <3>. QED
      BY <3>1, <3>2
  <2>2. CASE ~Save(h)
    BY <1>4, <2>2 DEF HandlerStep, CallFails, ReserveRead, ReserveWrite, ReadIndex, Charge,
         ReleaseRead, ReleaseWrite, NotCommitted, Publish, Fault, env, history
  <2>. QED
    BY <2>1, <2>2
<1>5. CASE Crash
  BY <1>5 DEF Crash, history
<1>. QED
  BY <1>1, <1>2, <1>3, <1>4, <1>5 DEF Next

\* The invariant holds as long as nothing disturbs the service.
ContractInv == SerialInv /\ BudgetInv /\ (Undisturbed => QuietInv)

\* As long as no call failed, no process died, no deliveries overlapped and no save()
\* ran out of attempts, the saga implements its contract: nothing is held without an
\* approval, every payment holds its amount at most once, and gives it back exactly
\* when the gateway declines; what is announced is what was reached.
THEOREM SagaKeepsContract == Spec => KeepsContract
<1>1. Init => ContractInv
  BY QuietInit DEF ContractInv, QuietInv
<1>2. ContractInv /\ [Next]_vars => ContractInv'
  <2>. SUFFICES ASSUME ContractInv, [Next]_vars PROVE ContractInv'
    OBVIOUS
  <2>1. SerialInv' /\ BudgetInv'
    BY SerialNext, BudgetNext DEF ContractInv
  <2>2. ASSUME Undisturbed' PROVE QuietInv'
    <3>1. Undisturbed
      BY <2>2, DisturbanceStays DEF ContractInv, SerialInv
    <3>. QED
      BY <2>2, <3>1, QuietNext DEF ContractInv, Calm
  <2>. QED
    BY <2>1, <2>2 DEF ContractInv
<1>3. ContractInv /\ ContractInv' /\ [Next]_vars =>
        [Undisturbed' => Contract!ContractNext]_(Contract!contractVars)
  <2>. SUFFICES ASSUME ContractInv, ContractInv', [Next]_vars, Undisturbed'
                PROVE  Contract!ContractNext \/ UNCHANGED Contract!contractVars
    OBVIOUS
  <2>1. Undisturbed
    BY DisturbanceStays DEF ContractInv, SerialInv
  <2>. QED
    BY <2>1, ContractStep DEF ContractInv, Calm
<1>. QED
  BY <1>1, <1>2, <1>3, ContractStart, PTL DEF Spec, KeepsContract
=============================================================================
