------------------------- MODULE PaymentSagaProofs -------------------------
(***************************************************************************)
(* TLAPS proofs about PaymentSaga, for any number of payments, departments, *)
(* handlers, events and retries, and any number of faults, crashes and      *)
(* overlapping deliveries.                                                  *)
(***************************************************************************)
EXTENDS PaymentSaga, FiniteSetTheorems, WellFoundedInduction, TLAPS

(* What a handler holds at each of its steps.                               *)
HandlersOK ==
    \A h \in Handlers :
        /\ pc[h] # "idle" => job[h] \in Events
        /\ pc[h] = "save" => draft[h].status # "none"
        /\ pc[h] = "publish" => draft[h].status \in Terminal

TypeInv == TypeOK /\ HandlersOK

\* The state is well typed at the start.
LEMMA TypeInit == Init => TypeInv
<1>. SUFFICES ASSUME Init PROVE TypeInv
  OBVIOUS
<1>1. gaveUp \in BOOLEAN
  BY Zenon DEF Init
<1>2. tag \in [Handlers -> Tags]
  BY DEF Init, Tags
<1>. QED
  BY <1>1, <1>2, EventsAssumption, BudgetAssumption, BoundsAssumption
     DEF Init, TypeInv, TypeOK, HandlersOK, NoRecord, NoBudget, Statuses, Steps, Terminal

\* Leaving, retrying and moving on keep the handlers' local state well typed.
LEMMA LeaveType ==
    ASSUME TypeInv, NEW h \in Handlers, Leave(h)
    PROVE  /\ pc' \in [Handlers -> Steps] /\ pc'[h] = "idle"
           /\ job' \in [Handlers -> Events \cup {NoEvent}]
           /\ draft' \in [Handlers -> [status: Statuses, reserved: Nat]]
           /\ seen' \in [Handlers -> [remaining: Int, etag: Nat]]
           /\ tries' \in [Handlers -> 1..MaxRetries]
           /\ HandlersOK'
BY BoundsAssumption
   DEF TypeInv, TypeOK, HandlersOK, Leave, Goto, NoRecord, NoBudget, Statuses, Steps, Terminal

\* So does the exception that ends the retries.
LEMMA RaiseType ==
    ASSUME TypeInv, NEW h \in Handlers, Raise(h)
    PROVE  /\ pc' \in [Handlers -> Steps]
           /\ job' \in [Handlers -> Events \cup {NoEvent}]
           /\ draft' \in [Handlers -> [status: Statuses, reserved: Nat]]
           /\ seen' \in [Handlers -> [remaining: Int, etag: Nat]]
           /\ tries' \in [Handlers -> 1..MaxRetries]
           /\ acked' \subseteq Events
           /\ HandlersOK'
BY LeaveType DEF Raise, TypeInv, TypeOK

\* So does another attempt.
LEMMA RetryType ==
    ASSUME TypeInv, NEW h \in Handlers, pc[h] # "idle",
           NEW step \in {"reserve_read", "release_read", "save"},
           step = "save" => pc[h] = "save", Retry(h, step)
    PROVE  /\ pc' \in [Handlers -> Steps]
           /\ job' \in [Handlers -> Events \cup {NoEvent}]
           /\ draft' \in [Handlers -> [status: Statuses, reserved: Nat]]
           /\ seen' \in [Handlers -> [remaining: Int, etag: Nat]]
           /\ tries' \in [Handlers -> 1..MaxRetries]
           /\ acked' \subseteq Events
           /\ HandlersOK'
<1>1. CASE Raise(h)
  BY <1>1, RaiseType
<1>2. CASE /\ tries[h] < MaxRetries
           /\ pc' = [pc EXCEPT ![h] = step]
           /\ tries' = [tries EXCEPT ![h] = @ + 1]
           /\ seen' = [seen EXCEPT ![h] = NoBudget]
           /\ UNCHANGED <<job, draft, acked>>
  <2>1. tries' \in [Handlers -> 1..MaxRetries]
    BY <1>2, BoundsAssumption DEF TypeInv, TypeOK
  <2>2. QED
    BY <1>2, <2>1 DEF TypeInv, TypeOK, HandlersOK, NoBudget, Steps, Terminal
<1>3. tries[h] \in 1..MaxRetries
  BY DEF TypeInv, TypeOK
<1>. QED
  BY <1>1, <1>2, <1>3, BoundsAssumption DEF Retry, Again, LastAttempt

\* A busy handler handles an event of some payment of some department.
LEMMA BusyHandler ==
    ASSUME TypeInv, NEW h \in Handlers, pc[h] # "idle"
    PROVE  /\ Tid(h) \in TrackingIds
           /\ Dept[Tid(h)] \in Departments
           /\ Amount[Tid(h)] \in Nat
<1>1. job[h] \in [tid: TrackingIds, topic: Topics, verdict: Verdicts]
  BY EventsAssumption DEF TypeInv, HandlersOK
<1>. QED
  BY <1>1, BudgetAssumption DEF Tid

\* A write that is lost or refused leaves everything but the handler alone.
LEMMA LostReplyType ==
    ASSUME TypeInv, NEW h \in Handlers, pc[h] # "idle",
           NEW step \in {"reserve_read", "release_read", "save"},
           step = "save" => pc[h] = "save",
           Fault \/ UNCHANGED faults, Retry(h, step),
           payments' \in [TrackingIds -> [status: Statuses, reserved: Nat]],
           remaining' \in [Departments -> Int],
           etag' \in [Departments -> Nat],
           debits' \in [TrackingIds -> Nat], credits' \in [TrackingIds -> Nat],
           tag' \in [Handlers -> Tags], gaveUp' \in BOOLEAN,
           UNCHANGED <<gateway, env, published, unseeded>>
    PROVE  TypeInv'
<1>1. faults' \in 0..MaxFaults
  BY BoundsAssumption DEF Fault, TypeInv, TypeOK
<1>. QED
  BY <1>1, RetryType DEF TypeInv, TypeOK, gateway, env

\* Setting one draft's status keeps the drafts well typed and the others as they are.
LEMMA StatusSet ==
    ASSUME NEW f \in [Handlers -> [status: Statuses, reserved: Nat]],
           NEW h \in Handlers, NEW s \in Statuses
    PROVE  LET g == [f EXCEPT ![h].status = s] IN
           /\ g \in [Handlers -> [status: Statuses, reserved: Nat]]
           /\ g[h].status = s
           /\ \A i \in Handlers \ {h} : g[i] = f[i]
<1> DEFINE g == [f EXCEPT ![h].status = s]
<1>1. f[h] \in [status: Statuses, reserved: Nat]
  OBVIOUS
<1>2. [f[h] EXCEPT !.status = s] \in [status: Statuses, reserved: Nat]
  BY <1>1
<1>3. g \in [Handlers -> [status: Statuses, reserved: Nat]]
  BY <1>2
<1>4. g[h].status = s
  BY <1>1
<1>5. \A i \in Handlers \ {h} : g[i] = f[i]
  OBVIOUS
<1> QED
  BY <1>3, <1>4, <1>5

\* Every step keeps the state well typed.
LEMMA TypeNext == TypeInv /\ [Next]_vars => TypeInv'
<1>. SUFFICES ASSUME TypeInv, [Next]_vars PROVE TypeInv'
  OBVIOUS
<1>. USE EventsAssumption, BudgetAssumption, BoundsAssumption
<1>1. CASE UNCHANGED vars
  BY <1>1 DEF TypeInv, TypeOK, HandlersOK, vars, store, gateway, local, history, env
<1>2. ASSUME NEW d \in Configured, EnsureSeeded(d) PROVE TypeInv'
  BY <1>2 DEF EnsureSeeded, Fault, TypeInv, TypeOK, HandlersOK, gateway, local, history, env
<1>3. ASSUME NEW h \in Handlers, NEW e \in Events, Ignore(h, e) PROVE TypeInv'
  BY <1>3 DEF Ignore, Receive, TypeInv, TypeOK, HandlersOK, store, gateway, local, history
<1>4. ASSUME NEW h \in Handlers, NEW e \in Events, StartSaga(h, e) PROVE TypeInv'
  BY <1>4 DEF StartSaga, FirstStep, Receive, Goto, TypeInv, TypeOK, HandlersOK, Steps, Terminal,
              store, gateway, history
<1>5. ASSUME NEW h \in Handlers, CallFails(h) PROVE TypeInv'
  BY <1>5, RaiseType DEF CallFails, Fault, TypeInv, TypeOK, store, gateway, history, env
<1>6. ASSUME NEW h \in Handlers, ReserveRead(h) PROVE TypeInv'
  <2>. DEFINE d == Dept[Tid(h)]
  <2>1. /\ pc[h] = "reserve_read" /\ pc[h] # "idle"
        /\ UNCHANGED <<store, gateway, history, env, published, acked, unseeded, job, faults>>
    BY <1>6 DEF ReserveRead
  <2>2. d \in Departments
    BY <2>1, BusyHandler
  <2>3. CASE /\ draft' = [draft EXCEPT ![h] = [status |-> "failed", reserved |-> 0]]
             /\ Goto(h, "save")
             /\ UNCHANGED seen
    BY <2>1, <2>3 DEF Goto, TypeInv, TypeOK, HandlersOK, Steps, Statuses, Terminal,
                      store, gateway, history, env
  <2>4. CASE /\ seen' = [seen EXCEPT ![h] = [remaining |-> remaining[d], etag |-> etag[d]]]
             /\ pc' = [pc EXCEPT ![h] = "reserve_write"]
             /\ UNCHANGED <<draft, tries>>
    BY <2>1, <2>2, <2>4 DEF TypeInv, TypeOK, HandlersOK, Steps, Statuses, Terminal,
                            store, gateway, history, env
  <2>. QED
    BY <1>6, <2>3, <2>4 DEF ReserveRead
<1>7. ASSUME NEW h \in Handlers, ReserveWrite(h) PROVE TypeInv'
  <2>1. /\ pc[h] = "reserve_write" /\ pc[h] # "idle"
        /\ UNCHANGED <<payments, tag, gaveUp, gateway, env, published, unseeded>>
    BY <1>7 DEF ReserveWrite, NotCommitted, history
  <2>2. Tid(h) \in TrackingIds /\ Amount[Tid(h)] \in Nat /\ Dept[Tid(h)] \in Departments
    BY <2>1, BusyHandler
  <2>3. ASSUME Committed(h, seen[h].remaining - Amount[Tid(h)]),
               debits' = [debits EXCEPT ![Tid(h)] = @ + 1],
               UNCHANGED credits
        PROVE  /\ remaining' \in [Departments -> Int] /\ etag' \in [Departments -> Nat]
               /\ debits' \in [TrackingIds -> Nat] /\ credits' \in [TrackingIds -> Nat]
    BY <2>2, <2>3 DEF Committed, TypeInv, TypeOK
  <2>4. CASE /\ Committed(h, seen[h].remaining - Amount[Tid(h)])
             /\ debits' = [debits EXCEPT ![Tid(h)] = @ + 1]
             /\ UNCHANGED credits
             /\ draft' = [draft EXCEPT ![h] =
                            [status |-> "reserved", reserved |-> Amount[Tid(h)]]]
             /\ seen' = [seen EXCEPT ![h] = NoBudget]
             /\ Goto(h, "save")
             /\ UNCHANGED <<job, acked, faults>>
    BY <2>1, <2>2, <2>3, <2>4
       DEF Goto, NoBudget, TypeInv, TypeOK, HandlersOK, Steps, Statuses, Terminal, gateway, env
  <2>5. CASE /\ Committed(h, seen[h].remaining - Amount[Tid(h)])
             /\ debits' = [debits EXCEPT ![Tid(h)] = @ + 1]
             /\ UNCHANGED credits
             /\ Fault /\ Retry(h, "reserve_read")
    BY <2>1, <2>3, <2>5, LostReplyType DEF TypeInv, TypeOK
  <2>6. CASE NotCommitted(h, "reserve_read")
    BY <2>1, <2>6, LostReplyType DEF NotCommitted, TypeInv, TypeOK, history
  <2>. QED
    BY <1>7, <2>4, <2>5, <2>6 DEF ReserveWrite
<1>8. ASSUME NEW h \in Handlers, Save(h) PROVE TypeInv'
  <2>1. /\ pc[h] = "save" /\ pc[h] # "idle"
        /\ UNCHANGED <<remaining, etag, gateway, debits, credits, env, published, unseeded>>
    BY <1>8 DEF Save
  <2>2. Tid(h) \in TrackingIds
    BY <2>1, BusyHandler
  <2>3. payments' \in [TrackingIds -> [status: Statuses, reserved: Nat]]
    <3>1. draft[h] \in [status: Statuses, reserved: Nat]
      BY DEF TypeInv, TypeOK
    <3>2. payments' = payments \/ payments' = [payments EXCEPT ![Tid(h)] = draft[h]]
      BY <1>8 DEF Save, Stored
    <3>. QED
      BY <2>2, <3>1, <3>2 DEF TypeInv, TypeOK
  <2>4. tag' \in [Handlers -> Tags] /\ gaveUp' \in BOOLEAN
    <3>1. \/ tag' = [tag EXCEPT ![h] = "unread"]
          \/ tag' = [g \in Handlers |-> IF g = h THEN "unread"
                                       ELSE IF tag[g] = "current" THEN "stale" ELSE tag[g]]
      BY <1>8 DEF Save, Stored
    <3>2. gaveUp' = gaveUp \/ gaveUp' = (gaveUp \/ LastAttempt(h))
      BY <1>8 DEF Save
    <3>3. gaveUp' \in BOOLEAN
      BY <3>2, Zenon DEF TypeInv, TypeOK
    <3>. QED
      BY <3>1, <3>3 DEF TypeInv, TypeOK, Tags
  <2>5. CASE /\ Goto(h, IF draft[h].status = "reserved" THEN "charge" ELSE "publish")
             /\ UNCHANGED <<job, draft, seen, acked, faults>>
    BY <2>1, <2>3, <2>4, <2>5
       DEF Goto, TypeInv, TypeOK, HandlersOK, Steps, Statuses, Terminal, gateway, env
  <2>6. CASE (Fault \/ UNCHANGED faults) /\ Retry(h, "save")
    BY <2>1, <2>3, <2>4, <2>6, LostReplyType DEF TypeInv, TypeOK
  <2>. QED
    BY <1>8, <2>5, <2>6 DEF Save
<1>9. ASSUME NEW h \in Handlers, Charge(h) PROVE TypeInv'
  <2>1. /\ pc[h] = "charge" /\ pc[h] # "idle"
        /\ UNCHANGED <<store, history, env, published, acked, unseeded, job, seen, faults>>
    BY <1>9 DEF Charge
  <2>2. Tid(h) \in TrackingIds
    BY <2>1, BusyHandler
  <2>3. results' \subseteq TrackingIds /\ executed' \in [TrackingIds -> Nat]
    BY <1>9, <2>2 DEF Charge, TypeInv, TypeOK
  <2>4. CASE Goto(h, "release_read") /\ UNCHANGED draft
    BY <2>1, <2>3, <2>4
       DEF Goto, TypeInv, TypeOK, HandlersOK, Steps, Terminal, store, history, env
  <2>5. CASE draft' = [draft EXCEPT ![h].status = "completed"] /\ Goto(h, "save")
    <3>1. /\ draft' \in [Handlers -> [status: Statuses, reserved: Nat]]
          /\ draft'[h].status = "completed"
          /\ \A i \in Handlers \ {h} : draft'[i] = draft[i]
      <4>1. draft \in [Handlers -> [status: Statuses, reserved: Nat]]
        BY DEF TypeInv, TypeOK
      <4>2. "completed" \in Statuses
        BY DEF Statuses
      <4> QED
        BY <2>5, <4>1, <4>2, StatusSet
    <3>2. /\ pc' \in [Handlers -> Steps] /\ tries' \in [Handlers -> 1..MaxRetries]
          /\ pc'[h] = "save" /\ \A i \in Handlers \ {h} : pc'[i] = pc[i]
      BY <2>5 DEF Goto, TypeInv, TypeOK, Steps
    <3>3. HandlersOK'
      BY <2>1, <3>1, <3>2 DEF TypeInv, HandlersOK
    <3>. QED
      BY <2>1, <2>3, <3>1, <3>2, <3>3 DEF TypeInv, TypeOK, store, history, env
  <2>. QED
    BY <1>9, <2>4, <2>5 DEF Charge
<1>10. ASSUME NEW h \in Handlers, ReleaseRead(h) PROVE TypeInv'
  <2>1. /\ pc[h] = "release_read" /\ pc[h] # "idle"
        /\ UNCHANGED <<store, gateway, history, env, published, unseeded, faults>>
    BY <1>10 DEF ReleaseRead
  <2>2. Dept[Tid(h)] \in Departments
    BY <2>1, BusyHandler
  <2>3. CASE /\ seen' = [seen EXCEPT ![h] = [remaining |-> remaining[Dept[Tid(h)]],
                                            etag |-> etag[Dept[Tid(h)]]]]
             /\ pc' = [pc EXCEPT ![h] = "release_write"]
             /\ UNCHANGED <<job, draft, tries, acked>>
    BY <2>1, <2>2, <2>3
       DEF TypeInv, TypeOK, HandlersOK, Steps, Terminal, store, gateway, history, env
  <2>4. CASE Raise(h)
    BY <2>1, <2>4, RaiseType DEF TypeInv, TypeOK, store, gateway, history, env
  <2>. QED
    BY <1>10, <2>3, <2>4 DEF ReleaseRead
<1>11. ASSUME NEW h \in Handlers, ReleaseWrite(h) PROVE TypeInv'
  <2>1. /\ pc[h] = "release_write" /\ pc[h] # "idle"
        /\ UNCHANGED <<payments, tag, gaveUp, gateway, env, published, unseeded>>
    BY <1>11 DEF ReleaseWrite, NotCommitted, history
  <2>2. Tid(h) \in TrackingIds /\ Dept[Tid(h)] \in Departments
    BY <2>1, BusyHandler
  <2>3. ASSUME Committed(h, seen[h].remaining + draft[h].reserved),
               credits' = [credits EXCEPT ![Tid(h)] = @ + 1],
               UNCHANGED debits
        PROVE  /\ remaining' \in [Departments -> Int] /\ etag' \in [Departments -> Nat]
               /\ debits' \in [TrackingIds -> Nat] /\ credits' \in [TrackingIds -> Nat]
    BY <2>2, <2>3 DEF Committed, TypeInv, TypeOK
  <2>4. CASE /\ Committed(h, seen[h].remaining + draft[h].reserved)
             /\ credits' = [credits EXCEPT ![Tid(h)] = @ + 1]
             /\ UNCHANGED debits
             /\ draft' = [draft EXCEPT ![h].status = "failed"]
             /\ seen' = [seen EXCEPT ![h] = NoBudget]
             /\ Goto(h, "save")
             /\ UNCHANGED <<job, acked, faults>>
    <3>1. /\ draft' \in [Handlers -> [status: Statuses, reserved: Nat]]
          /\ draft'[h].status = "failed"
          /\ \A i \in Handlers \ {h} : draft'[i] = draft[i]
      <4>1. draft \in [Handlers -> [status: Statuses, reserved: Nat]]
        BY DEF TypeInv, TypeOK
      <4>2. "failed" \in Statuses
        BY DEF Statuses
      <4> QED
        BY <2>4, <4>1, <4>2, StatusSet
    <3>2. HandlersOK'
      BY <2>1, <2>4, <3>1 DEF Goto, TypeInv, TypeOK, HandlersOK
    <3>. QED
      BY <2>1, <2>3, <2>4, <3>1, <3>2
         DEF Goto, NoBudget, TypeInv, TypeOK, Steps, gateway, env
  <2>5. CASE /\ Committed(h, seen[h].remaining + draft[h].reserved)
             /\ credits' = [credits EXCEPT ![Tid(h)] = @ + 1]
             /\ UNCHANGED debits
             /\ Fault /\ Retry(h, "release_read")
    BY <2>1, <2>3, <2>5, LostReplyType DEF TypeInv, TypeOK
  <2>6. CASE NotCommitted(h, "release_read")
    BY <2>1, <2>6, LostReplyType DEF NotCommitted, TypeInv, TypeOK, history
  <2>. QED
    BY <1>11, <2>4, <2>5, <2>6 DEF ReleaseWrite
<1>12. ASSUME NEW h \in Handlers, Publish(h) PROVE TypeInv'
  <2>1. /\ pc[h] = "publish" /\ pc[h] # "idle"
        /\ UNCHANGED <<store, gateway, history, env, unseeded>>
        /\ published' = published \cup {[tid |-> Tid(h), resolution |-> draft[h].status]}
        /\ Leave(h)
    BY <1>12 DEF Publish, Sent, Return, Raise
  <2>2. Tid(h) \in TrackingIds /\ draft[h].status \in Terminal /\ job[h] \in Events
    BY <2>1, BusyHandler DEF TypeInv, HandlersOK
  <2>3. published' \subseteq [tid: TrackingIds, resolution: Terminal]
    BY <2>1, <2>2 DEF TypeInv, TypeOK
  <2>4. acked' \subseteq Events
    BY <1>12, <2>2 DEF Publish, Return, Raise, TypeInv, TypeOK
  <2>5. faults' \in 0..MaxFaults
    BY <1>12 DEF Publish, Fault, TypeInv, TypeOK
  <2>. QED
    BY <2>1, <2>3, <2>4, <2>5, LeaveType DEF TypeInv, TypeOK, store, gateway, history, env
<1>13. ASSUME Crash PROVE TypeInv'
  BY <1>13 DEF Crash, NoRecord, NoBudget, TypeInv, TypeOK, HandlersOK, Steps, Statuses,
               Tags, Terminal, history
<1>14. ASSUME NEW h \in Handlers, ReadIndex(h) PROVE TypeInv'
  BY <1>14 DEF ReadIndex, TypeInv, TypeOK, HandlersOK, Tags, gateway, local, history, env
<1>. QED
  BY <1>1, <1>2, <1>3, <1>4, <1>5, <1>6, <1>7, <1>8, <1>9, <1>10, <1>11, <1>12, <1>13, <1>14
     DEF Next, HandlerStep

\* Every variable of the Payment service stays in its range.
THEOREM TypeCorrect == Spec => []TypeOK
<1>1. TypeInv => TypeOK
  BY DEF TypeInv
<1>. QED
  BY <1>1, TypeInit, TypeNext, PTL DEF Spec

-----------------------------------------------------------------------------
(* The etag protects the budget: a snapshot whose etag is still the stored  *)
(* one shows the stored balance, so the balance a handler computed from it  *)
(* is in bounds whenever its conditional write takes effect.                *)

Writing == {"reserve_write", "release_write"}

SnapshotOK ==
    \A h \in Handlers :
        LET d == Dept[Tid(h)] IN
        /\ pc[h] \in Writing =>
                /\ seen[h].etag <= etag[d]
                /\ seen[h].etag = etag[d] => seen[h].remaining = remaining[d]
        /\ pc[h] = "reserve_write" => Amount[Tid(h)] <= seen[h].remaining
        /\ pc[h] = "release_write" => seen[h].remaining + draft[h].reserved <= Total[d]

BalanceOK == \A d \in Departments : 0 <= remaining[d] /\ remaining[d] <= Total[d]

BudgetInv == TypeInv /\ SnapshotOK /\ BalanceOK

\* Nobody holds a snapshot of a budget at the start.
LEMMA BudgetInit == Init => BudgetInv
BY TypeInit, BudgetAssumption DEF Init, BudgetInv, SnapshotOK, BalanceOK, Writing

\* What every step of a handler h does to the others and to the store.
OthersKept(h) ==
    \A i \in Handlers \ {h} :
        pc'[i] = pc[i] /\ job'[i] = job[i] /\ draft'[i] = draft[i] /\ seen'[i] = seen[i]

StoreAdvances ==
    \A d \in Departments :
        /\ etag[d] <= etag'[d]
        /\ etag'[d] = etag[d] => remaining'[d] = remaining[d]

\* A snapshot stays older than the store while others write.
LEMMA SnapshotFrame ==
    ASSUME TypeInv, TypeInv', SnapshotOK, NEW h \in Handlers,
           OthersKept(h), StoreAdvances, pc'[h] \notin Writing
    PROVE  SnapshotOK'
<1>1. SUFFICES ASSUME NEW i \in Handlers \ {h}, pc[i] \in Writing
               PROVE  LET d == Dept[Tid(i)] IN
                      /\ seen[i].etag <= etag'[d]
                      /\ seen[i].etag = etag'[d] => seen[i].remaining = remaining'[d]
  BY DEF SnapshotOK, OthersKept, Writing, Tid
<1>2. Dept[Tid(i)] \in Departments
  BY <1>1, BusyHandler DEF Writing
<1>3. /\ seen[i].etag \in Nat
      /\ etag[Dept[Tid(i)]] \in Nat /\ etag'[Dept[Tid(i)]] \in Nat
  BY <1>2 DEF TypeInv, TypeOK
<1>4. /\ seen[i].etag <= etag[Dept[Tid(i)]]
      /\ seen[i].etag = etag[Dept[Tid(i)]] => seen[i].remaining = remaining[Dept[Tid(i)]]
  BY <1>1 DEF SnapshotOK
<1>5. /\ etag[Dept[Tid(i)]] <= etag'[Dept[Tid(i)]]
      /\ etag'[Dept[Tid(i)]] = etag[Dept[Tid(i)]]
            => remaining'[Dept[Tid(i)]] = remaining[Dept[Tid(i)]]
  BY <1>2 DEF StoreAdvances
<1>. QED
  BY <1>3, <1>4, <1>5

\* A store that is not written does not go back.
LEMMA SameStore == ASSUME TypeInv, UNCHANGED <<remaining, etag>> PROVE StoreAdvances
BY DEF StoreAdvances, TypeInv, TypeOK

\* A handler that leaves holds no snapshot and changes no other.
LEMMA LeaveFrame ==
    ASSUME TypeInv, NEW h \in Handlers, Leave(h)
    PROVE  OthersKept(h) /\ pc'[h] \notin Writing
BY DEF Leave, Goto, OthersKept, Writing, TypeInv, TypeOK

\* A handler that tries again reads the budget anew.
LEMMA RetryFrame ==
    ASSUME TypeInv, NEW h \in Handlers, NEW step \in Steps \ Writing, Retry(h, step)
    PROVE  OthersKept(h) /\ pc'[h] \notin Writing
<1>1. CASE Raise(h)
  BY <1>1, LeaveFrame DEF Raise
<1>2. CASE ~Raise(h)
  BY <1>2 DEF Retry, Again, LastAttempt, OthersKept, TypeInv, TypeOK
<1>. QED
  BY <1>1, <1>2

\* A conditional write that takes effect advances the etag.
LEMMA CommitAdvances ==
    ASSUME TypeInv, NEW h \in Handlers, pc[h] # "idle", NEW value \in Int,
           Committed(h, value)
    PROVE  /\ StoreAdvances
           /\ remaining'[Dept[Tid(h)]] = value
           /\ \A d \in Departments \ {Dept[Tid(h)]} : remaining'[d] = remaining[d]
<1>1. Dept[Tid(h)] \in Departments
  BY BusyHandler
<1>. QED
  BY <1>1 DEF Committed, StoreAdvances, TypeInv, TypeOK

\* One balance replaced by one in bounds.
LEMMA BalanceUpdate ==
    ASSUME BalanceOK, NEW d \in Departments, NEW value \in Int,
           0 <= value, value <= Total[d],
           remaining'[d] = value,
           \A e \in Departments \ {d} : remaining'[e] = remaining[e]
    PROVE  BalanceOK'
BY DEF BalanceOK

\* Every step keeps the budgets' invariant.
LEMMA BudgetNext == BudgetInv /\ [Next]_vars => BudgetInv'
<1>. SUFFICES ASSUME BudgetInv, [Next]_vars PROVE BudgetInv'
  OBVIOUS
<1>0. TypeInv /\ TypeInv'
  BY TypeNext DEF BudgetInv
<1>. SUFFICES SnapshotOK' /\ BalanceOK'
  BY <1>0 DEF BudgetInv
<1>1. CASE UNCHANGED vars \/ \E h \in Handlers : ReadIndex(h)
  BY <1>1 DEF ReadIndex, BudgetInv, SnapshotOK, BalanceOK, Tid, vars, store, local
<1>2. ASSUME NEW d \in Configured, EnsureSeeded(d) PROVE SnapshotOK' /\ BalanceOK'
  <2>1. StoreAdvances /\ UNCHANGED local
    BY <1>0, <1>2, BudgetAssumption DEF EnsureSeeded, StoreAdvances, TypeInv, TypeOK, local
  <2>2. SnapshotOK'
    <3>1. SUFFICES ASSUME NEW h \in Handlers, pc[h] \in Writing
                   PROVE  LET e == Dept[Tid(h)] IN
                          /\ seen[h].etag <= etag'[e]
                          /\ seen[h].etag = etag'[e] => seen[h].remaining = remaining'[e]
      BY <2>1 DEF BudgetInv, SnapshotOK, Tid, local, Writing
    <3>2. Dept[Tid(h)] \in Departments
      BY <1>0, <3>1, BusyHandler DEF Writing
    <3>3. /\ seen[h].etag \in Nat
          /\ etag[Dept[Tid(h)]] \in Nat /\ etag'[Dept[Tid(h)]] \in Nat
      BY <1>0, <3>2 DEF TypeInv, TypeOK
    <3>4. /\ seen[h].etag <= etag[Dept[Tid(h)]]
          /\ seen[h].etag = etag[Dept[Tid(h)]] => seen[h].remaining = remaining[Dept[Tid(h)]]
      BY <3>1 DEF BudgetInv, SnapshotOK
    <3>5. /\ etag[Dept[Tid(h)]] <= etag'[Dept[Tid(h)]]
          /\ etag'[Dept[Tid(h)]] = etag[Dept[Tid(h)]]
                => remaining'[Dept[Tid(h)]] = remaining[Dept[Tid(h)]]
      BY <2>1, <3>2 DEF StoreAdvances
    <3>. QED
      BY <3>3, <3>4, <3>5
  <2>3. BalanceOK'
    BY <1>0, <1>2, BudgetAssumption DEF EnsureSeeded, BudgetInv, BalanceOK, TypeInv, TypeOK
  <2>. QED
    BY <2>2, <2>3
<1>3. ASSUME NEW h \in Handlers, OthersKept(h), pc'[h] \notin Writing,
             UNCHANGED <<remaining, etag>>
      PROVE  SnapshotOK' /\ BalanceOK'
  BY <1>0, <1>3, SameStore, SnapshotFrame DEF BudgetInv, BalanceOK
<1>4. ASSUME NEW h \in Handlers, NEW e \in Events, Ignore(h, e)
      PROVE  SnapshotOK' /\ BalanceOK'
  BY <1>4 DEF Ignore, Receive, BudgetInv, SnapshotOK, BalanceOK, Tid, store, local
<1>5. ASSUME NEW h \in Handlers, NEW e \in Events, StartSaga(h, e)
      PROVE  SnapshotOK' /\ BalanceOK'
  <2>1. OthersKept(h) /\ pc'[h] \notin Writing
    BY <1>0, <1>5 DEF StartSaga, FirstStep, Goto, OthersKept, Writing, TypeInv, TypeOK
  <2>. QED
    BY <1>3, <1>5, <2>1 DEF StartSaga, FirstStep, Receive, store
<1>6. ASSUME NEW h \in Handlers, CallFails(h) PROVE SnapshotOK' /\ BalanceOK'
  BY <1>0, <1>3, <1>6, LeaveFrame DEF CallFails, Raise, store
<1>7. ASSUME NEW h \in Handlers, ReserveRead(h) PROVE SnapshotOK' /\ BalanceOK'
  <2>1. /\ pc[h] # "idle" /\ UNCHANGED <<store, job>> /\ OthersKept(h)
    BY <1>0, <1>7 DEF ReserveRead, Goto, OthersKept, TypeInv, TypeOK
  <2>2. Dept[Tid(h)] \in Departments /\ Amount[Tid(h)] \in Nat
    BY <1>0, <2>1, BusyHandler
  <2>3. CASE pc'[h] \notin Writing
    BY <1>3, <2>1, <2>3 DEF store
  <2>4. CASE pc'[h] \in Writing
    <3>1. /\ pc'[h] = "reserve_write"
          /\ seen'[h] = [remaining |-> remaining[Dept[Tid(h)]], etag |-> etag[Dept[Tid(h)]]]
          /\ Amount[Tid(h)] <= remaining[Dept[Tid(h)]]
      BY <1>0, <1>7, <2>2, <2>4 DEF ReserveRead, Insufficient, Goto, Writing, TypeInv, TypeOK
    <3>2. /\ seen'[h].remaining = remaining'[Dept[Tid(h)']]
          /\ seen'[h].etag = etag'[Dept[Tid(h)']] /\ etag'[Dept[Tid(h)']] \in Nat
          /\ Amount[Tid(h)'] <= seen'[h].remaining
      BY <1>0, <2>1, <2>2, <3>1 DEF Tid, TypeInv, TypeOK, store
    <3>3. \A i \in Handlers \ {h} :
             /\ pc'[i] = pc[i] /\ Tid(i)' = Tid(i) /\ draft'[i] = draft[i] /\ seen'[i] = seen[i]
      BY <2>1 DEF OthersKept, Tid
    <3>4. remaining' = remaining /\ etag' = etag
      BY <2>1 DEF store
    <3>5. SnapshotOK
      BY <1>0 DEF BudgetInv
    <3>6. SnapshotOK'
      BY <3>1, <3>2, <3>3, <3>4, <3>5 DEF SnapshotOK
    <3>. QED
      BY <2>1, <1>0, <3>6 DEF BudgetInv, BalanceOK, store
  <2>. QED
    BY <2>3, <2>4
<1>8. ASSUME NEW h \in Handlers, ReserveWrite(h) PROVE SnapshotOK' /\ BalanceOK'
  <2>1. OthersKept(h) /\ pc'[h] \notin Writing
    <3>1. CASE \E step \in {"reserve_read"} : Retry(h, step)
      BY <1>0, <3>1, RetryFrame DEF Steps, Writing
    <3>2. CASE ~Retry(h, "reserve_read")
      BY <1>0, <1>8, <3>2
         DEF ReserveWrite, NotCommitted, Goto, OthersKept, Writing, TypeInv, TypeOK
    <3>. QED
      BY <3>1, <3>2
  <2>2. CASE UNCHANGED <<remaining, etag>>
    BY <1>3, <2>1, <2>2
  <2>3. CASE Committed(h, seen[h].remaining - Amount[Tid(h)])
    <3>. DEFINE d == Dept[Tid(h)]
                value == seen[h].remaining - Amount[Tid(h)]
    <3>1. pc[h] = "reserve_write"
      BY <1>8 DEF ReserveWrite
    <3>2. Tid(h) \in TrackingIds /\ d \in Departments /\ Amount[Tid(h)] \in Nat
      BY <1>0, <3>1, BusyHandler
    <3>3. value \in Int /\ 0 <= value /\ value <= remaining[d]
      BY <1>0, <2>3, <3>1, <3>2, BudgetAssumption
         DEF BudgetInv, SnapshotOK, BalanceOK, Committed, Writing, TypeInv, TypeOK
    <3>4. /\ StoreAdvances
          /\ remaining'[d] = value
          /\ \A e \in Departments \ {d} : remaining'[e] = remaining[e]
      BY <1>0, <2>3, <3>1, <3>3, CommitAdvances
    <3>6. value <= Total[d]
      BY <1>0, <3>2, <3>3, BudgetAssumption DEF BudgetInv, BalanceOK, TypeInv, TypeOK
    <3>5. BalanceOK'
      BY <3>2, <3>3, <3>4, <3>6, BalanceUpdate DEF BudgetInv
    <3>. QED
      BY <1>0, <2>1, <3>4, <3>5, SnapshotFrame DEF BudgetInv
  <2>. QED
    BY <1>8, <2>2, <2>3 DEF ReserveWrite, NotCommitted
<1>9. ASSUME NEW h \in Handlers, Save(h) PROVE SnapshotOK' /\ BalanceOK'
  <2>1. OthersKept(h) /\ pc'[h] \notin Writing
    <3>1. CASE Retry(h, "save")
      BY <1>0, <3>1, RetryFrame DEF Steps, Writing
    <3>2. CASE ~Retry(h, "save")
      BY <1>0, <1>9, <3>2 DEF Save, Stored, Goto, OthersKept, Writing, TypeInv, TypeOK
    <3>. QED
      BY <3>1, <3>2
  <2>. QED
    BY <1>3, <1>9, <2>1 DEF Save, Stored
<1>10. ASSUME NEW h \in Handlers, Charge(h) PROVE SnapshotOK' /\ BalanceOK'
  <2>1. OthersKept(h) /\ pc'[h] \notin Writing
    BY <1>0, <1>10 DEF Charge, Goto, OthersKept, Writing, TypeInv, TypeOK
  <2>. QED
    BY <1>3, <1>10, <2>1 DEF Charge, store
<1>11. ASSUME NEW h \in Handlers, ReleaseRead(h) PROVE SnapshotOK' /\ BalanceOK'
  <2>1. CASE Raise(h)
    BY <1>0, <1>3, <1>11, <2>1, LeaveFrame DEF ReleaseRead, Raise, store
  <2>2. CASE ~Raise(h)
    <3>1. /\ pc[h] # "idle" /\ UNCHANGED <<store, job, draft>> /\ OthersKept(h)
          /\ pc'[h] = "release_write"
          /\ seen'[h] = [remaining |-> remaining[Dept[Tid(h)]], etag |-> etag[Dept[Tid(h)]]]
          /\ remaining[Dept[Tid(h)]] + draft[h].reserved <= Total[Dept[Tid(h)]]
      BY <1>0, <1>11, <2>2 DEF ReleaseRead, OthersKept, TypeInv, TypeOK
    <3>2. Dept[Tid(h)] \in Departments
      BY <1>0, <3>1, BusyHandler
    <3>3. SnapshotOK'
      <4>1. remaining' = remaining /\ etag' = etag /\ Tid(h)' = Tid(h) /\ draft' = draft
        BY <3>1 DEF store, Tid
      <4>2. etag[Dept[Tid(h)]] \in Nat
        BY <1>0, <3>2 DEF TypeInv, TypeOK
      <4>. QED
        BY <3>1, <4>1, <4>2 DEF BudgetInv, SnapshotOK, OthersKept, Tid, Writing
    <3>. QED
      BY <3>1, <3>3 DEF BudgetInv, BalanceOK, store
  <2>. QED
    BY <2>1, <2>2
<1>12. ASSUME NEW h \in Handlers, ReleaseWrite(h) PROVE SnapshotOK' /\ BalanceOK'
  <2>1. OthersKept(h) /\ pc'[h] \notin Writing
    <3>1. CASE Retry(h, "release_read")
      BY <1>0, <3>1, RetryFrame DEF Steps, Writing
    <3>2. CASE ~Retry(h, "release_read")
      BY <1>0, <1>12, <3>2
         DEF ReleaseWrite, NotCommitted, Goto, OthersKept, Writing, TypeInv, TypeOK
    <3>. QED
      BY <3>1, <3>2
  <2>2. CASE UNCHANGED <<remaining, etag>>
    BY <1>3, <2>1, <2>2
  <2>3. CASE Committed(h, seen[h].remaining + draft[h].reserved)
    <3>. DEFINE d == Dept[Tid(h)]
                value == seen[h].remaining + draft[h].reserved
    <3>1. pc[h] = "release_write"
      BY <1>12 DEF ReleaseWrite
    <3>2. Tid(h) \in TrackingIds /\ d \in Departments
      BY <1>0, <3>1, BusyHandler
    <3>3. value \in Int /\ 0 <= value /\ value <= Total[d]
      BY <1>0, <2>3, <3>1, <3>2, BudgetAssumption
         DEF BudgetInv, SnapshotOK, BalanceOK, Committed, Writing, TypeInv, TypeOK
    <3>4. /\ StoreAdvances
          /\ remaining'[d] = value
          /\ \A e \in Departments \ {d} : remaining'[e] = remaining[e]
      BY <1>0, <2>3, <3>1, <3>3, CommitAdvances
    <3>5. BalanceOK'
      BY <3>2, <3>3, <3>4, BalanceUpdate DEF BudgetInv
    <3>. QED
      BY <1>0, <2>1, <3>4, <3>5, SnapshotFrame DEF BudgetInv
  <2>. QED
    BY <1>12, <2>2, <2>3 DEF ReleaseWrite, NotCommitted
<1>13. ASSUME NEW h \in Handlers, Publish(h) PROVE SnapshotOK' /\ BalanceOK'
  BY <1>0, <1>3, <1>13, LeaveFrame DEF Publish, Sent, Return, Raise, store
<1>14. ASSUME Crash PROVE SnapshotOK' /\ BalanceOK'
  BY <1>14 DEF Crash, BudgetInv, SnapshotOK, BalanceOK, Writing, store
<1>. QED
  BY <1>1, <1>2, <1>4, <1>5, <1>6, <1>7, <1>8, <1>9, <1>10, <1>11, <1>12, <1>13, <1>14
     DEF Next, HandlerStep

\* INV-1014: no interleaving of reservations and releases, and no fault, takes
\* a budget below zero or above its total.
THEOREM BudgetNeverOverdrawn == Spec => []BudgetInBounds
<1>1. BudgetInv => BudgetInBounds
  BY DEF BudgetInv, BalanceOK, BudgetInBounds
<1>. QED
  BY <1>1, BudgetInit, BudgetNext, PTL DEF Spec

-----------------------------------------------------------------------------
(* A completed payment is backed by a charge the gateway accepted and by a  *)
(* reservation: what the record or the announcement says is first true of   *)
(* the handler that will write it.                                          *)

Backed(t) == executed[t] > 0 /\ t \notin declined /\ debits[t] > 0

HandlerBacked(h) ==
    pc[h] # "idle" =>
        /\ pc[h] \in {"charge", "release_read", "release_write"} => debits[Tid(h)] > 0
        /\ pc[h] \in {"release_read", "release_write"} => Tid(h) \in declined
        /\ draft[h].status = "reserved" => debits[Tid(h)] > 0
        /\ draft[h].status = "completed" => Backed(Tid(h))

RecordBacked(t) ==
    /\ payments[t].status = "reserved" => debits[t] > 0
    /\ payments[t].status = "completed" => Backed(t)
    /\ [tid |-> t, resolution |-> "completed"] \in published => Backed(t)

ReplayedWasRun == \A t \in results : executed[t] > 0

OnlyDeclinedReturned == \A t \in TrackingIds : credits[t] > 0 => t \in declined

BackedInv ==
    /\ TypeInv
    /\ \A h \in Handlers : HandlerBacked(h)
    /\ \A t \in TrackingIds : RecordBacked(t)
    /\ OnlyDeclinedReturned
    /\ ReplayedWasRun

\* Nothing is claimed at the start.
LEMMA BackedInit == Init => BackedInv
BY TypeInit DEF Init, BackedInv, HandlerBacked, RecordBacked, OnlyDeclinedReturned, ReplayedWasRun, NoRecord

\* The history only grows and the gateway's mind does not change.
HistoryGrows ==
    /\ declined' = declined
    /\ \A t \in TrackingIds : debits[t] <= debits'[t] /\ executed[t] <= executed'[t]

\* A history that is left alone has not shrunk.
LEMMA SameHistory ==
    ASSUME TypeInv, UNCHANGED <<declined, executed, debits>>
    PROVE  HistoryGrows
BY DEF HistoryGrows, TypeInv, TypeOK

\* A handler's claims outlive every step of another one.
LEMMA BackedFrame ==
    ASSUME TypeInv, TypeInv', \A i \in Handlers : HandlerBacked(i), NEW h \in Handlers,
           OthersKept(h), HistoryGrows, HandlerBacked(h)'
    PROVE  \A i \in Handlers : HandlerBacked(i)'
<1>1. SUFFICES ASSUME NEW i \in Handlers \ {h}, pc[i] # "idle"
               PROVE  HandlerBacked(i)'
  BY DEF HandlerBacked, OthersKept
<1>2. Tid(i) \in TrackingIds /\ Tid(i)' = Tid(i)
  BY <1>1, BusyHandler DEF OthersKept, Tid
<1>3. /\ debits[Tid(i)] \in Nat /\ debits'[Tid(i)] \in Nat
      /\ executed[Tid(i)] \in Nat /\ executed'[Tid(i)] \in Nat
      /\ debits[Tid(i)] <= debits'[Tid(i)] /\ executed[Tid(i)] <= executed'[Tid(i)]
      /\ declined' = declined
  BY <1>2 DEF TypeInv, TypeOK, HistoryGrows
<1>4. pc'[i] = pc[i] /\ draft'[i] = draft[i] /\ HandlerBacked(i)
  BY <1>1 DEF OthersKept
<1>. QED
  BY <1>1, <1>2, <1>3, <1>4 DEF HandlerBacked, Backed

\* So do the claims of a record that is not written and not announced.
LEMMA RecordFrame ==
    ASSUME TypeInv, TypeInv', HistoryGrows, NEW t \in TrackingIds, RecordBacked(t),
           payments'[t] = payments[t] \/ payments'[t].status \in {"none", "failed"},
           [tid |-> t, resolution |-> "completed"] \in published' =>
                [tid |-> t, resolution |-> "completed"] \in published
    PROVE  RecordBacked(t)'
<1>1. /\ debits[t] \in Nat /\ debits'[t] \in Nat /\ executed[t] \in Nat /\ executed'[t] \in Nat
      /\ debits[t] <= debits'[t] /\ executed[t] <= executed'[t] /\ declined' = declined
  BY DEF TypeInv, TypeOK, HistoryGrows
<1>. QED
  BY <1>1 DEF RecordBacked, Backed

\* Every step keeps each claim of a handler or a record backed by the history.
LEMMA BackedNext == BackedInv /\ [Next]_vars => BackedInv'
<1>. SUFFICES ASSUME BackedInv, [Next]_vars PROVE BackedInv'
  OBVIOUS
<1>0. /\ TypeInv /\ TypeInv'
      /\ \A h \in Handlers : HandlerBacked(h)
      /\ \A t \in TrackingIds : RecordBacked(t)
      /\ OnlyDeclinedReturned /\ ReplayedWasRun
  BY TypeNext DEF BackedInv
<1>. DEFINE Rest == /\ \A i \in Handlers : HandlerBacked(i)'
                    /\ \A t \in TrackingIds : RecordBacked(t)'
                    /\ OnlyDeclinedReturned' /\ ReplayedWasRun'
<1>. SUFFICES Rest
  BY <1>0 DEF BackedInv
<1>1. CASE UNCHANGED vars \/ \E h \in Handlers : ReadIndex(h)
  BY <1>0, <1>1 DEF ReadIndex, HandlerBacked, RecordBacked, Backed, OnlyDeclinedReturned,
                    ReplayedWasRun, Tid,
                    vars, store, gateway, local, history, env
\* Steps that neither write a record, nor announce, nor touch the history.
<1>2. ASSUME NEW h \in Handlers, OthersKept(h), HandlerBacked(h)',
             UNCHANGED <<payments, published, gateway, debits, credits, declined>>
      PROVE  Rest
  <2>1. HistoryGrows
    BY <1>0, <1>2, SameHistory DEF gateway, history
  <2>2. \A t \in TrackingIds : RecordBacked(t)'
    BY <1>0, <1>2 DEF RecordBacked, Backed, gateway, history
  <2>. QED
    BY <1>0, <1>2, <2>1, <2>2, BackedFrame DEF OnlyDeclinedReturned, ReplayedWasRun, gateway, history
<1>3. ASSUME NEW h \in Handlers, Leave(h) PROVE OthersKept(h) /\ HandlerBacked(h)'
  BY <1>0, <1>3, LeaveFrame DEF Leave, Goto, HandlerBacked, TypeInv, TypeOK
\* A retry keeps the draft and what the handler knew.
<1>4. ASSUME NEW h \in Handlers, pc[h] # "idle", HistoryGrows,
             NEW step \in {"reserve_read", "release_read", "save"},
             step = "release_read" => pc[h] = "release_write", Retry(h, step)
      PROVE  OthersKept(h) /\ HandlerBacked(h)'
  <2>1. CASE Raise(h)
    BY <1>3, <2>1 DEF Raise
  <2>2. CASE ~Raise(h)
    <3>1. /\ pc' = [pc EXCEPT ![h] = step] /\ seen' = [seen EXCEPT ![h] = NoBudget]
          /\ UNCHANGED <<job, draft>>
      BY <1>4, <2>2 DEF Retry, Again
    <3>2. OthersKept(h) /\ pc'[h] = step /\ draft'[h] = draft[h] /\ Tid(h)' = Tid(h)
      BY <1>0, <3>1 DEF OthersKept, Tid, TypeInv, TypeOK
    <3>3. Tid(h) \in TrackingIds
      BY <1>0, <1>4, BusyHandler
    <3>4. /\ debits[Tid(h)] \in Nat /\ debits'[Tid(h)] \in Nat
          /\ executed[Tid(h)] \in Nat /\ executed'[Tid(h)] \in Nat
          /\ debits[Tid(h)] <= debits'[Tid(h)] /\ executed[Tid(h)] <= executed'[Tid(h)]
          /\ declined' = declined
      BY <1>0, <1>4, <3>3 DEF TypeInv, TypeOK, HistoryGrows
    <3>. QED
      BY <1>0, <1>4, <3>2, <3>4 DEF HandlerBacked, Backed
  <2>. QED
    BY <2>1, <2>2
<1>5. ASSUME NEW d \in Configured, EnsureSeeded(d) PROVE Rest
  BY <1>0, <1>5 DEF EnsureSeeded, HandlerBacked, RecordBacked, Backed, OnlyDeclinedReturned,
                    ReplayedWasRun, Tid,
                    gateway, local, history, env
<1>6. ASSUME NEW h \in Handlers, NEW e \in Events, Ignore(h, e) PROVE Rest
  BY <1>0, <1>6 DEF Ignore, Receive, HandlerBacked, RecordBacked, Backed, OnlyDeclinedReturned,
                    ReplayedWasRun, Tid,
                    store, gateway, local, history
<1>7. ASSUME NEW h \in Handlers, NEW e \in Events, StartSaga(h, e) PROVE Rest
  <2>1. /\ UNCHANGED <<payments, published, gateway, debits, credits, declined>>
        /\ e.tid \in TrackingIds
        /\ payments[e.tid].status \in {"none", "reserved"}
    BY <1>0, <1>7, EventsAssumption
       DEF StartSaga, Receive, Ended, Terminal, Statuses, TypeInv, TypeOK, store, history
  <2>2. /\ OthersKept(h) /\ Tid(h)' = e.tid /\ draft'[h] = payments[e.tid]
        /\ pc'[h] = IF payments[e.tid].status = "none" THEN "reserve_read" ELSE "charge"
    BY <1>0, <1>7 DEF StartSaga, FirstStep, Goto, OthersKept, Tid, TypeInv, TypeOK
  <2>3. RecordBacked(e.tid)
    BY <1>0, <2>1
  <2>4. HandlerBacked(h)'
    BY <2>1, <2>2, <2>3 DEF HandlerBacked, RecordBacked, history
  <2>. QED
    BY <1>2, <2>1, <2>2, <2>4
<1>8. ASSUME NEW h \in Handlers, CallFails(h) PROVE Rest
  BY <1>2, <1>3, <1>8 DEF CallFails, Raise, store, env, history
<1>9. ASSUME NEW h \in Handlers, ReserveRead(h) PROVE Rest
  <2>1. /\ UNCHANGED <<payments, published, gateway, debits, credits, declined>>
        /\ OthersKept(h) /\ Tid(h)' = Tid(h) /\ pc[h] = "reserve_read"
        /\ pc'[h] \in {"reserve_write", "save"}
        /\ draft'[h] = draft[h] \/ draft'[h].status = "failed"
    BY <1>0, <1>9 DEF ReserveRead, Goto, OthersKept, Tid, TypeInv, TypeOK, store, env, history
  <2>2. HandlerBacked(h)'
    BY <1>0, <2>1 DEF HandlerBacked, Backed, gateway, history
  <2>. QED
    BY <1>2, <2>1, <2>2
<1>10. ASSUME NEW h \in Handlers, ReserveWrite(h) PROVE Rest
  <2>1. /\ pc[h] = "reserve_write" /\ UNCHANGED <<payments, gateway, env, published, credits>>
    BY <1>10 DEF ReserveWrite, NotCommitted, history
  <2>2. Tid(h) \in TrackingIds
    BY <1>0, <2>1, BusyHandler
  <2>3. HistoryGrows
    <3>1. debits' = debits \/ debits' = [debits EXCEPT ![Tid(h)] = @ + 1]
      BY <1>10 DEF ReserveWrite, NotCommitted, history
    <3>2. executed' = executed /\ declined' = declined
      BY <2>1 DEF gateway, env
    <3>3. debits \in [TrackingIds -> Nat] /\ executed \in [TrackingIds -> Nat]
      BY <1>0 DEF TypeInv, TypeOK
    <3>4. ASSUME NEW t \in TrackingIds PROVE debits[t] <= debits'[t]
      BY <2>2, <3>1, <3>3
    <3>. QED
      BY <3>2, <3>3, <3>4 DEF HistoryGrows
  <2>4. OthersKept(h) /\ HandlerBacked(h)'
    <3>1. CASE Retry(h, "reserve_read")
      BY <1>4, <2>1, <2>3, <3>1
    <3>2. CASE ~Retry(h, "reserve_read")
      <4>1. /\ debits'[Tid(h)] = debits[Tid(h)] + 1
            /\ draft'[h] = [status |-> "reserved", reserved |-> Amount[Tid(h)]]
            /\ pc'[h] = "save" /\ Tid(h)' = Tid(h) /\ OthersKept(h)
        BY <1>0, <1>10, <2>2, <3>2
           DEF ReserveWrite, NotCommitted, Goto, OthersKept, Tid, TypeInv, TypeOK
      <4>2. debits[Tid(h)] \in Nat
        BY <1>0, <2>2 DEF TypeInv, TypeOK
      <4>. QED
        BY <4>1, <4>2 DEF HandlerBacked
    <3>. QED
      BY <3>1, <3>2
  <2>5. \A t \in TrackingIds : RecordBacked(t)'
    BY <1>0, <2>1, <2>3, RecordFrame
  <2>. QED
    BY <1>0, <2>1, <2>3, <2>4, <2>5, BackedFrame DEF OnlyDeclinedReturned, ReplayedWasRun, gateway, env
<1>11. ASSUME NEW h \in Handlers, Save(h) PROVE Rest
  <2>1. /\ pc[h] = "save" /\ UNCHANGED <<gateway, debits, credits, env, published>>
    BY <1>11 DEF Save, Stored
  <2>2. Tid(h) \in TrackingIds
    BY <1>0, <2>1, BusyHandler
  <2>3. HistoryGrows
    BY <1>0, <2>1, SameHistory DEF gateway, history, env
  <2>4. OthersKept(h) /\ HandlerBacked(h)'
    <3>1. CASE Retry(h, "save")
      BY <1>4, <2>1, <2>3, <3>1
    <3>2. CASE ~Retry(h, "save")
      <4>1. /\ Goto(h, IF draft[h].status = "reserved" THEN "charge" ELSE "publish")
            /\ UNCHANGED <<job, draft, seen>>
        BY <1>11, <3>2 DEF Save, Stored
      <4>2. /\ pc'[h] = IF draft[h].status = "reserved" THEN "charge" ELSE "publish"
            /\ draft'[h] = draft[h] /\ Tid(h)' = Tid(h) /\ OthersKept(h)
        BY <1>0, <4>1 DEF Goto, OthersKept, Tid, TypeInv, TypeOK
      <4>. QED
        BY <1>0, <2>1, <4>2 DEF HandlerBacked, Backed, gateway, history, env
    <3>. QED
      BY <3>1, <3>2
  <2>5. ASSUME NEW t \in TrackingIds PROVE RecordBacked(t)'
    <3>1. CASE payments'[t] = payments[t]
      BY <1>0, <2>1, <2>3, <3>1, RecordFrame
    <3>2. CASE payments'[t] # payments[t]
      <4>1. t = Tid(h) /\ payments'[t] = draft[h]
        BY <1>0, <1>11, <2>2, <3>2 DEF Save, Stored, TypeInv, TypeOK
      <4>. QED
        BY <1>0, <2>1, <4>1 DEF HandlerBacked, RecordBacked, Backed, gateway, history, env
    <3>. QED
      BY <3>1, <3>2
  <2>. QED
    BY <1>0, <2>1, <2>3, <2>4, <2>5, BackedFrame DEF OnlyDeclinedReturned, ReplayedWasRun,
          gateway, history, env
<1>12. ASSUME NEW h \in Handlers, Charge(h) PROVE Rest
  <2>1. /\ pc[h] = "charge"
        /\ UNCHANGED <<store, debits, credits, env, published, job, seen>>
    BY <1>12 DEF Charge, history
  <2>2. Tid(h) \in TrackingIds
    BY <1>0, <2>1, BusyHandler
  <2>3. HistoryGrows
    BY <1>0, <1>12, <2>1, <2>2 DEF Charge, HistoryGrows, TypeInv, TypeOK, history, env
  <2>4. executed'[Tid(h)] > 0 /\ ReplayedWasRun'
    BY <1>0, <1>12, <2>2 DEF Charge, ReplayedWasRun, TypeInv, TypeOK
  <2>5. debits[Tid(h)] > 0 /\ debits' = debits /\ declined' = declined /\ Tid(h)' = Tid(h)
    BY <1>0, <2>1 DEF HandlerBacked, Tid, history, env
  <2>6. OthersKept(h) /\ HandlerBacked(h)'
    <3>1. CASE Declines(Tid(h))
      <4>1. Goto(h, "release_read") /\ UNCHANGED draft
        BY <1>12, <3>1 DEF Charge
      <4>2. OthersKept(h) /\ pc'[h] = "release_read" /\ draft'[h] = draft[h]
        BY <1>0, <2>1, <4>1 DEF Goto, OthersKept, TypeInv, TypeOK
      <4>3. draft[h].status = "completed" => Backed(Tid(h))
        BY <1>0, <2>1 DEF HandlerBacked
      <4>4. Tid(h) \in declined
        BY <3>1 DEF Declines
      <4>. QED
        BY <2>5, <4>2, <4>3, <4>4 DEF HandlerBacked, Backed
    <3>2. CASE ~Declines(Tid(h))
      <4>1. Goto(h, "save") /\ draft' = [draft EXCEPT ![h].status = "completed"]
        BY <1>12, <3>2 DEF Charge
      <4>2. /\ draft \in [Handlers -> [status: Statuses, reserved: Nat]]
            /\ "completed" \in Statuses
        BY <1>0 DEF TypeInv, TypeOK, Statuses
      <4>3. draft'[h].status = "completed" /\ \A i \in Handlers \ {h} : draft'[i] = draft[i]
        BY <4>1, <4>2, StatusSet
      <4>4. OthersKept(h) /\ pc'[h] = "save"
        BY <1>0, <2>1, <4>1, <4>3 DEF Goto, OthersKept, TypeInv, TypeOK
      <4>. QED
        BY <2>4, <2>5, <3>2, <4>3, <4>4 DEF HandlerBacked, Backed, Declines
    <3>. QED
      BY <3>1, <3>2
  <2>7. \A t \in TrackingIds : RecordBacked(t)'
    BY <1>0, <2>1, <2>3, RecordFrame DEF store
  <2>. QED
    BY <1>0, <2>1, <2>3, <2>4, <2>6, <2>7, BackedFrame DEF OnlyDeclinedReturned, history, env
<1>13. ASSUME NEW h \in Handlers, ReleaseRead(h) PROVE Rest
  <2>1. /\ pc[h] = "release_read"
        /\ UNCHANGED <<payments, published, gateway, debits, credits, declined>>
    BY <1>13 DEF ReleaseRead, store, env, history
  <2>2. CASE Raise(h)
    BY <1>2, <1>3, <2>1, <2>2 DEF Raise
  <2>3. CASE ~Raise(h)
    <3>1. /\ OthersKept(h) /\ pc'[h] = "release_write" /\ draft'[h] = draft[h] /\ Tid(h)' = Tid(h)
      BY <1>0, <1>13, <2>3 DEF ReleaseRead, OthersKept, Tid, TypeInv, TypeOK
    <3>2. HandlerBacked(h)'
      BY <1>0, <2>1, <3>1 DEF HandlerBacked, Backed, gateway, history
    <3>. QED
      BY <1>2, <2>1, <3>1, <3>2
  <2>. QED
    BY <2>2, <2>3
<1>14. ASSUME NEW h \in Handlers, ReleaseWrite(h) PROVE Rest
  <2>1. /\ pc[h] = "release_write" /\ UNCHANGED <<payments, gateway, env, published, debits>>
    BY <1>14 DEF ReleaseWrite, NotCommitted, history
  <2>2. Tid(h) \in TrackingIds /\ Tid(h) \in declined /\ debits[Tid(h)] > 0
    BY <1>0, <2>1, BusyHandler DEF HandlerBacked
  <2>3. HistoryGrows
    BY <1>0, <2>1, SameHistory DEF gateway, env
  <2>4. OnlyDeclinedReturned'
    BY <1>0, <1>14, <2>1, <2>2
       DEF ReleaseWrite, NotCommitted, OnlyDeclinedReturned, TypeInv, TypeOK, history, env
  <2>5. OthersKept(h) /\ HandlerBacked(h)'
    <3>1. CASE Retry(h, "release_read")
      BY <1>4, <2>1, <2>3, <3>1
    <3>2. CASE ~Retry(h, "release_read")
      <4>1. /\ Goto(h, "save") /\ draft' = [draft EXCEPT ![h].status = "failed"]
            /\ seen' = [seen EXCEPT ![h] = NoBudget] /\ UNCHANGED job
        BY <1>14, <3>2 DEF ReleaseWrite, NotCommitted
      <4>2. /\ draft \in [Handlers -> [status: Statuses, reserved: Nat]]
            /\ "failed" \in Statuses
        BY <1>0 DEF TypeInv, TypeOK, Statuses
      <4>3. draft'[h].status = "failed" /\ \A i \in Handlers \ {h} : draft'[i] = draft[i]
        BY <4>1, <4>2, StatusSet
      <4>4. OthersKept(h) /\ pc'[h] = "save"
        BY <1>0, <4>1, <4>3 DEF Goto, OthersKept, TypeInv, TypeOK
      <4>. QED
        BY <4>3, <4>4 DEF HandlerBacked
    <3>. QED
      BY <3>1, <3>2
  <2>6. \A t \in TrackingIds : RecordBacked(t)'
    BY <1>0, <2>1, <2>3, RecordFrame
  <2>. QED
    BY <1>0, <2>1, <2>3, <2>4, <2>5, <2>6, BackedFrame DEF ReplayedWasRun, gateway
<1>15. ASSUME NEW h \in Handlers, Publish(h) PROVE Rest
  <2>1. /\ pc[h] = "publish" /\ UNCHANGED <<store, gateway, debits, credits, env>> /\ Leave(h)
        /\ published' = published \cup {[tid |-> Tid(h), resolution |-> draft[h].status]}
    BY <1>15 DEF Publish, Sent, Return, Raise, history
  <2>2. HistoryGrows
    BY <1>0, <2>1, SameHistory DEF gateway, history, env
  <2>3. draft[h].status = "completed" => Backed(Tid(h))
    BY <1>0, <2>1 DEF HandlerBacked
  <2>4. \A t \in TrackingIds : RecordBacked(t)'
    BY <1>0, <2>1, <2>3 DEF RecordBacked, Backed, store, gateway, history, env
  <2>. QED
    BY <1>0, <1>3, <2>1, <2>2, <2>4, BackedFrame
       DEF OnlyDeclinedReturned, ReplayedWasRun, gateway, history, env
<1>16. ASSUME Crash PROVE Rest
  BY <1>0, <1>16 DEF Crash, HandlerBacked, RecordBacked, Backed, OnlyDeclinedReturned,
                     ReplayedWasRun, store, history
<1>. QED
  BY <1>1, <1>5, <1>6, <1>7, <1>8, <1>9, <1>10, <1>11, <1>12, <1>13, <1>14, <1>15, <1>16
     DEF Next, HandlerStep

\* A payment recorded or announced as completed was charged, accepted by the gateway
\* and paid for from the budget, through any fault, crash and overlapping delivery.
THEOREM CompletedIsAlwaysBacked == Spec => []CompletedIsBacked
<1>1. BackedInv => CompletedIsBacked
  <2>. SUFFICES ASSUME BackedInv, NEW t \in TrackingIds,
                       \/ payments[t].status = "completed"
                       \/ [tid |-> t, resolution |-> "completed"] \in published
                PROVE  executed[t] > 0 /\ t \notin declined /\ debits[t] > 0 /\ credits[t] = 0
    BY DEF CompletedIsBacked
  <2>1. Backed(t)
    BY DEF BackedInv, RecordBacked
  <2>2. credits[t] \in Nat
    BY DEF BackedInv, TypeInv, TypeOK
  <2>. QED
    BY <2>1, <2>2 DEF BackedInv, OnlyDeclinedReturned, Backed
<1>. QED
  BY <1>1, BackedInit, BackedNext, PTL DEF Spec

-----------------------------------------------------------------------------
(* Sums over finite sets. A property of the parts of a set is proved by     *)
(* taking a smallest part without it.                                       *)

\* A set of numbers that is not empty has a least member.
LEMMA LeastNumber ==
    ASSUME NEW N, N \subseteq Nat, N # {}
    PROVE  \E n \in N : \A m \in N : n <= m
<1>1. PICK n \in N : \A m \in N : ~(<<m, n>> \in OpToRel(<, Nat))
  BY NatLessThanWellFounded, WFMin
<1>2. \A m \in N : ~(m < n)
  BY <1>1 DEF OpToRel
<1>. QED
  BY <1>2

\* The order in which a sum takes the members of s.
Pick(s) == CHOOSE x \in s : TRUE

\* g[s] is the sum of F over s, for every s that g is defined on.
Adds(g, F) ==
    g = [s \in DOMAIN g |-> IF s = {} THEN 0 ELSE F[Pick(s)] + g[s \ {Pick(s)}]]

\* Among some of the subsets of a finite set one has no smaller one among them.
LEMMA SmallestSet ==
    ASSUME NEW S, IsFiniteSet(S), NEW B, B \subseteq SUBSET S, B # {}
    PROVE  \E s \in B : \A x \in s : s \ {x} \notin B
<1>. DEFINE N == {Cardinality(s) : s \in B}
<1>1. \A s \in B : IsFiniteSet(s)
  BY FS_Subset
<1>2. N \subseteq Nat /\ N # {}
  BY <1>1, FS_CardinalityType
<1>3. PICK n \in N : \A m \in N : n <= m
  BY <1>2, LeastNumber
<1>4. PICK s \in B : Cardinality(s) = n
  BY <1>3
<1>5. ASSUME NEW x \in s PROVE s \ {x} \notin B
  <2>1. Cardinality(s \ {x}) = Cardinality(s) - 1
    BY <1>1, <1>4, FS_RemoveElement
  <2>2. ASSUME s \ {x} \in B PROVE FALSE
    <3>1. Cardinality(s \ {x}) \in N /\ n \in Nat
      BY <1>2, <1>3, <2>2
    <3>. HIDE DEF N
    <3>. QED
      BY <1>3, <1>4, <2>1, <3>1
  <2>. QED
    BY <2>2
<1>. QED
  BY <1>5

\* What the library's definition of a sum chooses does exist.
LEMMA SumExists ==
    ASSUME NEW S, IsFiniteSet(S), NEW F
    PROVE  \E g : DOMAIN g = SUBSET S /\ Adds(g, F)
<1>. DEFINE Small(n) == {s \in SUBSET S : Cardinality(s) <= n}
            Done(n) == \E g : DOMAIN g = Small(n) /\ Adds(g, F)
            Left == {n \in Nat : ~Done(n)}
<1>0. \A s \in SUBSET S : IsFiniteSet(s) /\ Cardinality(s) \in Nat
  BY FS_Subset, FS_CardinalityType
<1>1. Done(0)
  <2>1. \A s \in Small(0) : s = {}
    BY <1>0, FS_EmptySet
  <2>. DEFINE g == [s \in Small(0) |-> 0]
  <2>2. DOMAIN g = Small(0) /\ Adds(g, F)
    BY <2>1 DEF Adds
  <2>. QED
    BY <2>2
<1>2. ASSUME NEW n \in Nat, Done(n) PROVE Done(n + 1)
  <2>1. PICK g : DOMAIN g = Small(n) /\ Adds(g, F)
    BY <1>2
  <2>. DEFINE k == [s \in Small(n + 1) |-> IF s = {} THEN 0 ELSE F[Pick(s)] + g[s \ {Pick(s)}]]
  <2>2. Small(n) \subseteq Small(n + 1)
    BY <1>0
  <2>3. ASSUME NEW s \in Small(n) PROVE g[s] = k[s]
    <3>1. g[s] = IF s = {} THEN 0 ELSE F[Pick(s)] + g[s \ {Pick(s)}]
      BY <2>1, <2>3 DEF Adds
    <3>. QED
      BY <2>2, <2>3, <3>1
  <2>4. ASSUME NEW s \in Small(n + 1), s # {} PROVE s \ {Pick(s)} \in Small(n)
    <3>1. Pick(s) \in s
      BY <2>4 DEF Pick
    <3>2. Cardinality(s \ {Pick(s)}) = Cardinality(s) - 1
      BY <1>0, <2>4, <3>1, FS_RemoveElement
    <3>. QED
      BY <1>0, <2>4, <3>2
  <2>. HIDE DEF Small
  <2>5. k = [s \in Small(n + 1) |-> IF s = {} THEN 0 ELSE F[Pick(s)] + k[s \ {Pick(s)}]]
    BY <2>3, <2>4
  <2>6. DOMAIN k = Small(n + 1) /\ Adds(k, F)
    BY <2>5 DEF Adds
  <2>. QED
    BY <2>6
<1>3. \A n \in Nat : Done(n)
  <2>. HIDE DEF Done
  <2>. SUFFICES ASSUME Left # {} PROVE FALSE
    OBVIOUS
  <2>1. PICK n \in Left : \A m \in Left : n <= m
    BY LeastNumber
  <2>2. n # 0 /\ n \in Nat
    BY <1>1, <2>1
  <2>3. n - 1 \in Nat /\ n - 1 \notin Left
    BY <2>1, <2>2
  <2>4. Done(n - 1 + 1)
    BY <1>2, <2>3
  <2>. QED
    BY <2>1, <2>2, <2>4
<1>4. Small(Cardinality(S)) = SUBSET S
  BY <1>0, FS_Subset
<1>. QED
  BY <1>0, <1>3, <1>4

\* The sum of F over S, and over every part of it.
LEMMA SumAdds ==
    ASSUME NEW S, IsFiniteSet(S), NEW F
    PROVE  \E g : DOMAIN g = SUBSET S /\ Adds(g, F) /\ SumFunctionOnSet(F, S) = g[S]
<1>. DEFINE g == CHOOSE g : g = [s \in SUBSET S |-> IF s = {} THEN 0 ELSE F[Pick(s)] + g[s \ {Pick(s)}]]
<1>1. \E k : k = [s \in SUBSET S |-> IF s = {} THEN 0 ELSE F[Pick(s)] + k[s \ {Pick(s)}]]
  <2>1. PICK k : DOMAIN k = SUBSET S /\ Adds(k, F)
    BY SumExists
  <2>2. k = [s \in SUBSET S |-> IF s = {} THEN 0 ELSE F[Pick(s)] + k[s \ {Pick(s)}]]
    BY <2>1 DEF Adds
  <2>. QED
    BY <2>2
<1>2. g = [s \in SUBSET S |-> IF s = {} THEN 0 ELSE F[Pick(s)] + g[s \ {Pick(s)}]]
  BY <1>1
<1>3. SumFunctionOnSet(F, S) = g[S]
  BY DEF SumFunctionOnSet, FoldFunctionOnSet, MapThenFoldSet, Pick
<1>. HIDE DEF g
<1>4. DOMAIN g = SUBSET S
  BY <1>2
<1>. QED
  BY <1>2, <1>3, <1>4 DEF Adds

\* A sum over nothing but zeros is zero.
LEMMA SumOfZeros ==
    ASSUME NEW S, IsFiniteSet(S), NEW F, \A x \in S : F[x] = 0
    PROVE  SumFunctionOnSet(F, S) = 0
<1>1. PICK g : DOMAIN g = SUBSET S /\ Adds(g, F) /\ SumFunctionOnSet(F, S) = g[S]
  BY SumAdds
<1>. DEFINE B == {s \in SUBSET S : g[s] # 0}
<1>2. B = {}
  <2>. SUFFICES ASSUME B # {} PROVE FALSE
    OBVIOUS
  <2>1. PICK s \in B : \A x \in s : s \ {x} \notin B
    BY SmallestSet
  <2>2. g[s] = IF s = {} THEN 0 ELSE F[Pick(s)] + g[s \ {Pick(s)}]
    BY <1>1 DEF Adds
  <2>3. s # {}
    BY <2>1, <2>2
  <2>4. Pick(s) \in s
    BY <2>3 DEF Pick
  <2>5. F[Pick(s)] = 0 /\ g[s \ {Pick(s)}] = 0
    BY <2>1, <2>4
  <2>. QED
    BY <2>1, <2>2, <2>3, <2>5
<1>. QED
  BY <1>1, <1>2

\* F and G are the same on S, but for t, where G is delta more.
Differ(F, G, S, t, delta) ==
    \A x \in S : F[x] \in Int /\ G[x] = (IF x = t THEN F[x] + delta ELSE F[x])

\* Where one of the numbers changes, the sum changes by as much.
LEMMA SumMoves ==
    ASSUME NEW S, IsFiniteSet(S), NEW F, NEW G, NEW t, NEW delta \in Int, Differ(F, G, S, t, delta)
    PROVE  /\ SumFunctionOnSet(F, S) \in Int
           /\ SumFunctionOnSet(G, S) = SumFunctionOnSet(F, S) + (IF t \in S THEN delta ELSE 0)
<1>1. PICK f : DOMAIN f = SUBSET S /\ Adds(f, F) /\ SumFunctionOnSet(F, S) = f[S]
  BY SumAdds
<1>2. PICK g : DOMAIN g = SUBSET S /\ Adds(g, G) /\ SumFunctionOnSet(G, S) = g[S]
  BY SumAdds
<1>. DEFINE B == {s \in SUBSET S : ~(f[s] \in Int /\ g[s] = f[s] + (IF t \in s THEN delta ELSE 0))}
<1>3. B = {}
  <2>. SUFFICES ASSUME B # {} PROVE FALSE
    OBVIOUS
  <2>1. PICK s \in B : \A x \in s : s \ {x} \notin B
    BY SmallestSet
  <2>2. f[s] = IF s = {} THEN 0 ELSE F[Pick(s)] + f[s \ {Pick(s)}]
    BY <1>1 DEF Adds
  <2>3. g[s] = IF s = {} THEN 0 ELSE G[Pick(s)] + g[s \ {Pick(s)}]
    BY <1>2 DEF Adds
  <2>4. s # {}
    BY <2>1, <2>2, <2>3
  <2>5. PICK x \in s : x = Pick(s)
    BY <2>4 DEF Pick
  <2>6. x \in S /\ s \ {x} \in SUBSET S /\ s \ {x} \notin B
    BY <2>1
  <2>7. f[s \ {x}] \in Int /\ g[s \ {x}] = f[s \ {x}] + (IF t \in s \ {x} THEN delta ELSE 0)
    BY <2>6
  <2>8. F[x] \in Int /\ G[x] = (IF x = t THEN F[x] + delta ELSE F[x])
    BY <2>6 DEF Differ
  <2>9. f[s] = F[x] + f[s \ {x}] /\ g[s] = G[x] + g[s \ {x}]
    BY <2>2, <2>3, <2>4, <2>5
  <2>10. f[s] \in Int /\ g[s] = f[s] + (IF t \in s THEN delta ELSE 0)
    <3>1. CASE x = t
      BY <2>7, <2>8, <2>9, <3>1
    <3>2. CASE x # t
      <4>1. t \in s \ {x} <=> t \in s
        BY <3>2
      <4>. QED
        BY <2>7, <2>8, <2>9, <3>2, <4>1
    <3>. QED
      BY <3>1, <3>2
  <2>. QED
    BY <2>1, <2>10
<1>4. S \in SUBSET S /\ S \notin B
  BY <1>3
<1>5. f[S] \in Int /\ g[S] = f[S] + (IF t \in S THEN delta ELSE 0)
  BY <1>4
<1>. QED
  BY <1>1, <1>2, <1>5

-----------------------------------------------------------------------------
(* The ledger: a balance and what was booked on it move together.           *)

Accounted(d) == {t \in TrackingIds : Dept[t] = d}

LedgerOf(d) == etag[d] # 0 => Total[d] - remaining[d] = SumFunctionOnSet(Taken, Accounted(d))

\* Nothing is booked on a budget that is not there.
BookedOnBudget(t) == debits[t] > 0 \/ credits[t] > 0 => etag[Dept[t]] # 0

\* What a handler will give back is what was reserved, which is the amount.
HandlerBooks(h) ==
    pc[h] # "idle" =>
        /\ pc[h] \in {"charge", "release_read", "release_write"} => draft[h].status = "reserved"
        /\ draft[h].status = "reserved" => draft[h].reserved = Amount[Tid(h)]
        /\ pc[h] = "reserve_write" => etag[Dept[Tid(h)]] # 0

RecordBooks(t) == payments[t].status = "reserved" => payments[t].reserved = Amount[t]

LedgerInv ==
    /\ BudgetInv /\ BackedInv
    /\ \A h \in Handlers : HandlerBooks(h)
    /\ \A t \in TrackingIds : RecordBooks(t) /\ BookedOnBudget(t)
    /\ \A d \in Departments : LedgerOf(d)

\* Nothing is booked and no budget is there at the start.
LEMMA LedgerInit == Init => LedgerInv
BY BudgetInit, BackedInit
   DEF Init, LedgerInv, HandlerBooks, RecordBooks, BookedOnBudget, LedgerOf, NoRecord

\* One more transaction is one more amount.
LEMMA OneMore ==
    ASSUME NEW n \in Int, NEW amount \in Int
    PROVE  (n + 1) * amount = n * amount + amount /\ (n - 1) * amount = n * amount - amount
OBVIOUS

\* A transaction for t moves the sum of its department by delta, and no other.
LEMMA TakenMoves ==
    ASSUME TypeInv, NEW t \in TrackingIds, NEW delta \in Int, NEW d,
           \A u \in TrackingIds : Taken'[u] = IF u = t THEN Taken[u] + delta ELSE Taken[u]
    PROVE  /\ SumFunctionOnSet(Taken, Accounted(d)) \in Int
           /\ SumFunctionOnSet(Taken', Accounted(d))
                = SumFunctionOnSet(Taken, Accounted(d)) + (IF Dept[t] = d THEN delta ELSE 0)
<1>1. IsFiniteSet(Accounted(d))
  BY BudgetAssumption, FS_Subset DEF Accounted
<1>2. \A u \in TrackingIds : Taken[u] \in Int
  BY BudgetAssumption DEF Taken, TypeInv, TypeOK
<1>3. \A u \in Accounted(d) : Taken[u] \in Int /\ Taken'[u] = IF u = t THEN Taken[u] + delta ELSE Taken[u]
  BY <1>2 DEF Accounted
<1>4. t \in Accounted(d) <=> Dept[t] = d
  BY DEF Accounted
<1>5. Differ(Taken, Taken', Accounted(d), t, delta)
  BY <1>3 DEF Differ
<1>6. /\ SumFunctionOnSet(Taken, Accounted(d)) \in Int
      /\ SumFunctionOnSet(Taken', Accounted(d))
            = SumFunctionOnSet(Taken, Accounted(d)) + (IF t \in Accounted(d) THEN delta ELSE 0)
  BY <1>1, <1>5, SumMoves
<1>. QED
  BY <1>4, <1>6

\* A step of h that writes no budget.
LEMMA BooksFrame ==
    ASSUME LedgerInv, BudgetInv', BackedInv', NEW h \in Handlers, OthersKept(h), HandlerBooks(h)',
           \A t \in TrackingIds : RecordBooks(t)', UNCHANGED <<remaining, etag, debits, credits>>
    PROVE  LedgerInv'
<1>1. \A i \in Handlers : HandlerBooks(i)'
  BY DEF LedgerInv, HandlerBooks, OthersKept, Tid
<1>2. \A t \in TrackingIds : BookedOnBudget(t)'
  BY DEF LedgerInv, BookedOnBudget, history
<1>3. Taken' = Taken
  BY DEF Taken, history
<1>4. \A d \in Departments : LedgerOf(d)'
  BY <1>3 DEF LedgerInv, LedgerOf, Accounted
<1>. QED
  BY <1>1, <1>2, <1>4 DEF LedgerInv

\* A conditional write that takes effect is booked as it is made.
LEMMA BooksCommit ==
    ASSUME LedgerInv, BudgetInv', BackedInv', NEW h \in Handlers, pc[h] \in Writing,
           OthersKept(h), HandlerBooks(h)', payments' = payments,
           etag[Dept[Tid(h)]] # 0, NEW delta \in Int, Committed(h, seen[h].remaining - delta),
           \A u \in TrackingIds : Taken'[u] = IF u = Tid(h) THEN Taken[u] + delta ELSE Taken[u],
           \A u \in TrackingIds \ {Tid(h)} : debits'[u] = debits[u] /\ credits'[u] = credits[u]
    PROVE  LedgerInv'
<1>0. TypeInv /\ SnapshotOK /\ pc[h] # "idle"
  BY DEF LedgerInv, BudgetInv, Writing
<1>1. PICK t \in TrackingIds : t = Tid(h)
  BY <1>0, BusyHandler
<1>2. PICK d \in Departments : d = Dept[t]
  BY <1>1, BudgetAssumption
<1>3. /\ remaining' = [remaining EXCEPT ![d] = seen[h].remaining - delta]
      /\ etag' = [etag EXCEPT ![d] = etag[d] + 1]
      /\ seen[h].etag = etag[d]
  BY <1>1, <1>2 DEF Committed
<1>4. seen[h].remaining = remaining[d] /\ remaining[d] \in Int /\ Total[d] \in Int
  <2>1. seen[h].etag = etag[Dept[Tid(h)]] => seen[h].remaining = remaining[Dept[Tid(h)]]
    BY <1>0 DEF SnapshotOK
  <2>2. remaining[d] \in Int /\ Total[d] \in Int
    BY <1>0, BudgetAssumption DEF TypeInv, TypeOK
  <2>. QED
    BY <1>1, <1>2, <1>3, <2>1, <2>2
<1>5. \A x \in Departments : /\ remaining'[x] = IF x = d THEN remaining[d] - delta ELSE remaining[x]
                             /\ etag'[x] = (IF x = d THEN etag[d] + 1 ELSE etag[x]) /\ etag[x] \in Nat
  BY <1>0, <1>3, <1>4 DEF TypeInv, TypeOK
<1>6. etag[d] # 0 /\ \A x \in Departments : etag[x] # 0 => etag'[x] # 0
  BY <1>1, <1>2, <1>5
<1>7. \A i \in Handlers : HandlerBooks(i)'
  <2>. SUFFICES ASSUME NEW i \in Handlers \ {h}, pc[i] # "idle" PROVE HandlerBooks(i)'
    BY DEF HandlerBooks, OthersKept
  <2>1. Dept[Tid(i)] \in Departments /\ Tid(i)' = Tid(i) /\ pc'[i] = pc[i] /\ draft'[i] = draft[i]
    BY <1>0, BusyHandler DEF OthersKept, Tid
  <2>2. HandlerBooks(i)
    BY DEF LedgerInv
  <2>. QED
    BY <1>6, <2>1, <2>2 DEF HandlerBooks
<1>8. ASSUME NEW u \in TrackingIds PROVE RecordBooks(u)' /\ BookedOnBudget(u)'
  <2>1. RecordBooks(u) /\ BookedOnBudget(u) /\ Dept[u] \in Departments
    BY BudgetAssumption DEF LedgerInv
  <2>2. CASE u = t
    BY <1>2, <1>6, <2>1, <2>2 DEF RecordBooks, BookedOnBudget
  <2>3. CASE u # t
    BY <1>1, <1>6, <2>1, <2>3 DEF RecordBooks, BookedOnBudget
  <2>. QED
    BY <2>2, <2>3
<1>9. ASSUME NEW x \in Departments PROVE LedgerOf(x)'
  <2>. DEFINE was == SumFunctionOnSet(Taken, Accounted(x))
              now == SumFunctionOnSet(Taken', Accounted(x))
  <2>1. was \in Int /\ now = was + (IF Dept[t] = x THEN delta ELSE 0)
    BY <1>0, <1>1, TakenMoves
  <2>2. etag[x] # 0 => Total[x] - remaining[x] = was
    BY DEF LedgerInv, LedgerOf
  <2>. HIDE DEF was, now
  <2>3. etag'[x] # 0 => Total[x] - remaining'[x] = now
    <3>1. CASE x = d
      BY <1>2, <1>4, <1>5, <1>6, <2>1, <2>2, <3>1
    <3>2. CASE x # d
      BY <1>2, <1>5, <2>1, <2>2, <3>2
    <3>. QED
      BY <3>1, <3>2
  <2>. QED
    BY <2>3 DEF LedgerOf, Accounted, now
<1>. QED
  BY <1>7, <1>8, <1>9 DEF LedgerInv

\* A step of h leaves no handler and no record with a wrong amount, and every
\* budget explained by what was booked on it.
LEMMA LedgerNext == LedgerInv /\ [Next]_vars => LedgerInv'
<1>. SUFFICES ASSUME LedgerInv, [Next]_vars PROVE LedgerInv'
  OBVIOUS
<1>0. /\ TypeInv /\ BudgetInv' /\ BackedInv'
      /\ \A h \in Handlers : HandlerBooks(h) /\ HandlerBacked(h)
      /\ \A t \in TrackingIds : RecordBooks(t) /\ BookedOnBudget(t)
      /\ \A d \in Departments : LedgerOf(d)
  BY BudgetNext, BackedNext DEF LedgerInv, BudgetInv, BackedInv
<1>1. ASSUME UNCHANGED <<payments, remaining, etag, debits, credits>>,
             \A h \in Handlers : HandlerBooks(h)'
      PROVE  LedgerInv'
  <2>1. Taken' = Taken
    BY <1>1 DEF Taken, history
  <2>2. \A t \in TrackingIds : RecordBooks(t)' /\ BookedOnBudget(t)'
    BY <1>0, <1>1 DEF RecordBooks, BookedOnBudget, history
  <2>3. \A d \in Departments : LedgerOf(d)'
    BY <1>0, <1>1, <2>1 DEF LedgerOf, Accounted
  <2>. QED
    BY <1>0, <1>1, <2>2, <2>3 DEF LedgerInv
\* A step of h that writes neither a record nor a budget.
<1>2. ASSUME NEW h \in Handlers, OthersKept(h), HandlerBooks(h)',
             UNCHANGED <<payments, remaining, etag, debits, credits>>
      PROVE  LedgerInv'
  <2>1. \A t \in TrackingIds : RecordBooks(t)'
    BY <1>0, <1>2 DEF RecordBooks
  <2>. QED
    BY <1>0, <1>2, <2>1, BooksFrame
<1>3. ASSUME NEW h \in Handlers, Leave(h) PROVE OthersKept(h) /\ HandlerBooks(h)'
  BY <1>0, <1>3, LeaveFrame DEF Leave, Goto, HandlerBooks, TypeInv, TypeOK
<1>4. ASSUME NEW h \in Handlers, pc[h] # "idle",
             NEW step \in {"reserve_read", "release_read", "save"},
             step = "release_read" => pc[h] = "release_write", Retry(h, step)
      PROVE  OthersKept(h) /\ HandlerBooks(h)'
  <2>1. CASE Raise(h)
    BY <1>3, <2>1 DEF Raise
  <2>2. CASE ~Raise(h)
    <3>1. /\ pc' = [pc EXCEPT ![h] = step] /\ seen' = [seen EXCEPT ![h] = NoBudget]
          /\ UNCHANGED <<job, draft>>
      BY <1>4, <2>2 DEF Retry, Again
    <3>2. OthersKept(h) /\ pc'[h] = step /\ draft'[h] = draft[h] /\ Tid(h)' = Tid(h)
      BY <1>0, <3>1 DEF OthersKept, Tid, TypeInv, TypeOK
    <3>. QED
      BY <1>0, <1>4, <3>2 DEF HandlerBooks
  <2>. QED
    BY <2>1, <2>2
<1>5. CASE UNCHANGED vars \/ \E h \in Handlers : ReadIndex(h)
  <2>1. \A h \in Handlers : HandlerBooks(h)'
    BY <1>0, <1>5 DEF ReadIndex, HandlerBooks, Tid, vars, store, local
  <2>. QED
    BY <1>1, <1>5, <2>1 DEF ReadIndex, vars, store, history
<1>6. ASSUME NEW d \in Configured, EnsureSeeded(d) PROVE LedgerInv'
  <2>1. UNCHANGED <<payments, local, debits, credits>>
    BY <1>6 DEF EnsureSeeded, history
  <2>2. CASE UNCHANGED <<remaining, etag>>
    <3>1. \A h \in Handlers : HandlerBooks(h)'
      BY <1>0, <2>1, <2>2 DEF HandlerBooks, Tid, local
    <3>. QED
      BY <1>1, <2>1, <2>2, <3>1
  <2>3. CASE ~UNCHANGED <<remaining, etag>>
    <3>1. /\ etag[d] = 0 /\ d \in Departments
          /\ remaining' = [remaining EXCEPT ![d] = Total[d]]
          /\ etag' = [etag EXCEPT ![d] = 1]
      BY <1>6, <2>3, BudgetAssumption DEF EnsureSeeded
    <3>2. \A x \in Departments : /\ remaining'[x] = IF x = d THEN Total[d] ELSE remaining[x]
                                 /\ etag'[x] = IF x = d THEN 1 ELSE etag[x]
      BY <1>0, <3>1 DEF TypeInv, TypeOK
    <3>3. ASSUME NEW h \in Handlers PROVE HandlerBooks(h)'
      <4>. SUFFICES ASSUME pc[h] # "idle" PROVE HandlerBooks(h)'
        BY <2>1 DEF HandlerBooks, local
      <4>1. Tid(h) \in TrackingIds /\ Dept[Tid(h)] \in Departments
        BY <1>0, BusyHandler, BudgetAssumption
      <4>2. etag[Dept[Tid(h)]] # 0 => etag'[Dept[Tid(h)]] # 0
        BY <3>2, <4>1
      <4>3. HandlerBooks(h) /\ pc' = pc /\ draft' = draft /\ Tid(h)' = Tid(h)
        BY <1>0, <2>1 DEF local, Tid
      <4>. QED
        BY <4>2, <4>3 DEF HandlerBooks
    <3>4. ASSUME NEW t \in TrackingIds PROVE RecordBooks(t)' /\ BookedOnBudget(t)'
      <4>1. Dept[t] \in Departments /\ RecordBooks(t) /\ BookedOnBudget(t)
        BY <1>0, BudgetAssumption
      <4>2. etag[Dept[t]] # 0 => etag'[Dept[t]] # 0
        BY <3>2, <4>1
      <4>. QED
        BY <2>1, <4>1, <4>2 DEF RecordBooks, BookedOnBudget, history
    <3>5. Taken' = Taken
      BY <2>1 DEF Taken, history
    <3>6. SumFunctionOnSet(Taken, Accounted(d)) = 0
      <4>1. IsFiniteSet(Accounted(d))
        BY BudgetAssumption, FS_Subset DEF Accounted
      <4>2. ASSUME NEW t \in Accounted(d) PROVE Taken[t] = 0
        <5>1. t \in TrackingIds /\ Dept[t] = d
          BY DEF Accounted
        <5>2. debits[t] \in Nat /\ credits[t] \in Nat /\ Amount[t] \in Nat
          BY <1>0, <5>1, BudgetAssumption DEF TypeInv, TypeOK
        <5>3. debits[t] = 0 /\ credits[t] = 0
          BY <1>0, <3>1, <5>1, <5>2 DEF BookedOnBudget
        <5>. QED
          BY <5>1, <5>2, <5>3 DEF Taken
      <4>. QED
        BY <4>1, <4>2, SumOfZeros
    <3>7. ASSUME NEW x \in Departments PROVE LedgerOf(x)'
      <4>1. CASE x = d
        <5>1. Total[d] - Total[d] = 0
          BY BudgetAssumption, <3>1
        <5>. QED
          BY <3>2, <3>5, <3>6, <4>1, <5>1 DEF LedgerOf, Accounted
      <4>2. CASE x # d
        BY <1>0, <3>2, <3>5, <4>2 DEF LedgerOf, Accounted
      <4>. QED
        BY <4>1, <4>2
    <3>. QED
      BY <1>0, <3>3, <3>4, <3>7 DEF LedgerInv
  <2>. QED
    BY <2>2, <2>3
<1>7. ASSUME NEW h \in Handlers, NEW e \in Events, Ignore(h, e) PROVE LedgerInv'
  <2>1. UNCHANGED <<payments, remaining, etag, debits, credits, local>>
    BY <1>7 DEF Ignore, Receive, store, history
  <2>2. \A i \in Handlers : HandlerBooks(i)'
    BY <1>0, <2>1 DEF HandlerBooks, Tid, local
  <2>. QED
    BY <1>1, <2>1, <2>2
<1>8. ASSUME NEW h \in Handlers, NEW e \in Events, StartSaga(h, e) PROVE LedgerInv'
  <2>1. /\ UNCHANGED <<payments, remaining, etag, debits, credits>>
        /\ e.tid \in TrackingIds
        /\ payments[e.tid].status \in {"none", "reserved"}
    BY <1>0, <1>8, EventsAssumption
       DEF StartSaga, Receive, Ended, Terminal, Statuses, TypeInv, TypeOK, store, history
  <2>2. /\ OthersKept(h) /\ Tid(h)' = e.tid /\ draft'[h] = payments[e.tid]
        /\ pc'[h] = IF payments[e.tid].status = "none" THEN "reserve_read" ELSE "charge"
    BY <1>0, <1>8 DEF StartSaga, FirstStep, Goto, OthersKept, Tid, TypeInv, TypeOK
  <2>3. RecordBooks(e.tid)
    BY <1>0, <2>1
  <2>4. HandlerBooks(h)'
    BY <2>1, <2>2, <2>3 DEF HandlerBooks, RecordBooks
  <2>. QED
    BY <1>2, <2>1, <2>2, <2>4
<1>9. ASSUME NEW h \in Handlers, CallFails(h) PROVE LedgerInv'
  BY <1>2, <1>3, <1>9 DEF CallFails, Raise, store, history
<1>10. ASSUME NEW h \in Handlers, ReserveRead(h) PROVE LedgerInv'
  <2>1. /\ UNCHANGED <<payments, remaining, etag, debits, credits>> /\ pc[h] = "reserve_read"
        /\ OthersKept(h) /\ Tid(h)' = Tid(h)
        /\ pc'[h] \in {"reserve_write", "save"}
        /\ pc'[h] = "reserve_write" => etag[Dept[Tid(h)]] # 0
        /\ draft'[h] = draft[h] \/ draft'[h].status = "failed"
    BY <1>0, <1>10 DEF ReserveRead, Insufficient, Goto, OthersKept, Tid, TypeInv, TypeOK, store, history
  <2>2. HandlerBooks(h)'
    BY <1>0, <2>1 DEF HandlerBooks
  <2>. QED
    BY <1>2, <2>1, <2>2
<1>11. ASSUME NEW h \in Handlers, ReserveWrite(h) PROVE LedgerInv'
  <2>1. pc[h] = "reserve_write" /\ UNCHANGED payments
    BY <1>11 DEF ReserveWrite
  <2>2. Tid(h) \in TrackingIds /\ etag[Dept[Tid(h)]] # 0
    BY <1>0, <2>1, BusyHandler DEF HandlerBooks
  <2>3. OthersKept(h) /\ HandlerBooks(h)'
    <3>1. CASE Retry(h, "reserve_read")
      BY <1>4, <2>1, <3>1
    <3>2. CASE ~Retry(h, "reserve_read")
      <4>1. /\ draft'[h] = [status |-> "reserved", reserved |-> Amount[Tid(h)]]
            /\ pc'[h] = "save" /\ Tid(h)' = Tid(h) /\ OthersKept(h)
        BY <1>0, <1>11, <2>2, <3>2
           DEF ReserveWrite, NotCommitted, Goto, OthersKept, Tid, TypeInv, TypeOK
      <4>. QED
        BY <4>1 DEF HandlerBooks
    <3>. QED
      BY <3>1, <3>2
  <2>4. CASE NotCommitted(h, "reserve_read")
    BY <1>2, <2>1, <2>3, <2>4 DEF NotCommitted, history
  <2>5. CASE ~NotCommitted(h, "reserve_read")
    <3>1. /\ Committed(h, seen[h].remaining - Amount[Tid(h)])
          /\ debits' = [debits EXCEPT ![Tid(h)] = @ + 1] /\ credits' = credits
      BY <1>11, <2>5 DEF ReserveWrite
    <3>2. PICK delta \in Int : delta = Amount[Tid(h)]
      BY <2>2, BudgetAssumption
    <3>3. debits \in [TrackingIds -> Nat] /\ credits \in [TrackingIds -> Nat]
      BY <1>0 DEF TypeInv, TypeOK
    <3>4. \A u \in TrackingIds \ {Tid(h)} : debits'[u] = debits[u] /\ credits'[u] = credits[u]
      BY <3>1, <3>3
    <3>5. ASSUME NEW u \in TrackingIds
          PROVE  Taken'[u] = IF u = Tid(h) THEN Taken[u] + delta ELSE Taken[u]
      <4>0. /\ Taken[u] = (debits[u] - credits[u]) * Amount[u]
            /\ Taken'[u] = (debits'[u] - credits'[u]) * Amount[u]
        BY DEF Taken
      <4>1. CASE u = Tid(h)
        <5>1. PICK n \in Int : n = debits[u] - credits[u]
          BY <3>3
        <5>2. debits'[u] - credits'[u] = n + 1
          BY <3>1, <3>3, <4>1, <5>1
        <5>3. (n + 1) * delta = n * delta + delta
          BY OneMore
        <5>. QED
          BY <3>2, <4>0, <4>1, <5>1, <5>2, <5>3
      <4>2. CASE u # Tid(h)
        BY <3>4, <4>0, <4>2
      <4>. QED
        BY <4>1, <4>2
    <3>6. Committed(h, seen[h].remaining - delta)
      BY <3>1, <3>2
    <3>. QED
      BY <1>0, <2>1, <2>2, <2>3, <3>4, <3>5, <3>6, BooksCommit DEF Writing
  <2>. QED
    BY <2>4, <2>5
<1>12. ASSUME NEW h \in Handlers, Save(h) PROVE LedgerInv'
  <2>1. pc[h] = "save" /\ UNCHANGED <<remaining, etag, debits, credits>>
    BY <1>12 DEF Save, Stored
  <2>2. Tid(h) \in TrackingIds
    BY <1>0, <2>1, BusyHandler
  <2>3. OthersKept(h) /\ HandlerBooks(h)'
    <3>1. CASE Retry(h, "save")
      BY <1>4, <2>1, <3>1
    <3>2. CASE ~Retry(h, "save")
      <4>1. /\ Goto(h, IF draft[h].status = "reserved" THEN "charge" ELSE "publish")
            /\ UNCHANGED <<job, draft, seen>>
        BY <1>12, <3>2 DEF Save, Stored
      <4>2. /\ pc'[h] = IF draft[h].status = "reserved" THEN "charge" ELSE "publish"
            /\ draft'[h] = draft[h] /\ Tid(h)' = Tid(h) /\ OthersKept(h)
        BY <1>0, <4>1 DEF Goto, OthersKept, Tid, TypeInv, TypeOK
      <4>. QED
        BY <1>0, <2>1, <4>2 DEF HandlerBooks
    <3>. QED
      BY <3>1, <3>2
  <2>4. ASSUME NEW t \in TrackingIds PROVE RecordBooks(t)'
    <3>1. CASE payments'[t] = payments[t]
      BY <1>0, <3>1 DEF RecordBooks
    <3>2. CASE payments'[t] # payments[t]
      <4>1. t = Tid(h) /\ payments'[t] = draft[h]
        BY <1>0, <1>12, <2>2, <3>2 DEF Save, Stored, TypeInv, TypeOK
      <4>. QED
        BY <1>0, <2>1, <4>1 DEF HandlerBooks, RecordBooks
    <3>. QED
      BY <3>1, <3>2
  <2>. QED
    BY <1>0, <2>1, <2>3, <2>4, BooksFrame
<1>13. ASSUME NEW h \in Handlers, Charge(h) PROVE LedgerInv'
  <2>1. pc[h] = "charge" /\ UNCHANGED <<payments, remaining, etag, debits, credits, job, seen>>
    BY <1>13 DEF Charge, store, history
  <2>2. Tid(h)' = Tid(h) /\ HandlerBooks(h)
    BY <1>0, <2>1 DEF Tid
  <2>3. OthersKept(h) /\ HandlerBooks(h)'
    <3>1. CASE Declines(Tid(h))
      <4>1. Goto(h, "release_read") /\ UNCHANGED draft
        BY <1>13, <3>1 DEF Charge
      <4>2. OthersKept(h) /\ pc'[h] = "release_read" /\ draft'[h] = draft[h]
        BY <1>0, <2>1, <4>1 DEF Goto, OthersKept, TypeInv, TypeOK
      <4>. QED
        BY <2>1, <2>2, <4>2 DEF HandlerBooks
    <3>2. CASE ~Declines(Tid(h))
      <4>1. Goto(h, "save") /\ draft' = [draft EXCEPT ![h].status = "completed"]
        BY <1>13, <3>2 DEF Charge
      <4>2. /\ draft \in [Handlers -> [status: Statuses, reserved: Nat]]
            /\ "completed" \in Statuses
        BY <1>0 DEF TypeInv, TypeOK, Statuses
      <4>3. draft'[h].status = "completed" /\ \A i \in Handlers \ {h} : draft'[i] = draft[i]
        BY <4>1, <4>2, StatusSet
      <4>4. OthersKept(h) /\ pc'[h] = "save"
        BY <1>0, <2>1, <4>1, <4>3 DEF Goto, OthersKept, TypeInv, TypeOK
      <4>. QED
        BY <4>3, <4>4 DEF HandlerBooks
    <3>. QED
      BY <3>1, <3>2
  <2>. QED
    BY <1>2, <2>1, <2>3
<1>14. ASSUME NEW h \in Handlers, ReleaseRead(h) PROVE LedgerInv'
  <2>1. pc[h] = "release_read" /\ UNCHANGED <<payments, remaining, etag, debits, credits>>
    BY <1>14 DEF ReleaseRead, store, history
  <2>2. CASE Raise(h)
    BY <1>2, <1>3, <2>1, <2>2 DEF Raise
  <2>3. CASE ~Raise(h)
    <3>1. /\ OthersKept(h) /\ pc'[h] = "release_write" /\ draft'[h] = draft[h] /\ Tid(h)' = Tid(h)
      BY <1>0, <1>14, <2>3 DEF ReleaseRead, OthersKept, Tid, TypeInv, TypeOK
    <3>2. HandlerBooks(h)'
      BY <1>0, <2>1, <3>1 DEF HandlerBooks
    <3>. QED
      BY <1>2, <2>1, <3>1, <3>2
  <2>. QED
    BY <2>2, <2>3
<1>15. ASSUME NEW h \in Handlers, ReleaseWrite(h) PROVE LedgerInv'
  <2>1. pc[h] = "release_write" /\ UNCHANGED payments
    BY <1>15 DEF ReleaseWrite
  <2>2. Tid(h) \in TrackingIds /\ debits[Tid(h)] > 0 /\ draft[h].reserved = Amount[Tid(h)]
    BY <1>0, <2>1, BusyHandler DEF HandlerBooks, HandlerBacked
  <2>3. etag[Dept[Tid(h)]] # 0
    BY <1>0, <2>2 DEF BookedOnBudget
  <2>4. OthersKept(h) /\ HandlerBooks(h)'
    <3>1. CASE Retry(h, "release_read")
      BY <1>4, <2>1, <3>1
    <3>2. CASE ~Retry(h, "release_read")
      <4>1. /\ Goto(h, "save") /\ draft' = [draft EXCEPT ![h].status = "failed"]
            /\ seen' = [seen EXCEPT ![h] = NoBudget] /\ UNCHANGED job
        BY <1>15, <3>2 DEF ReleaseWrite, NotCommitted
      <4>2. /\ draft \in [Handlers -> [status: Statuses, reserved: Nat]]
            /\ "failed" \in Statuses
        BY <1>0 DEF TypeInv, TypeOK, Statuses
      <4>3. draft'[h].status = "failed" /\ \A i \in Handlers \ {h} : draft'[i] = draft[i]
        BY <4>1, <4>2, StatusSet
      <4>4. OthersKept(h) /\ pc'[h] = "save"
        BY <1>0, <4>1, <4>3 DEF Goto, OthersKept, TypeInv, TypeOK
      <4>. QED
        BY <4>3, <4>4 DEF HandlerBooks
    <3>. QED
      BY <3>1, <3>2
  <2>5. CASE NotCommitted(h, "release_read")
    BY <1>2, <2>1, <2>4, <2>5 DEF NotCommitted, history
  <2>6. CASE ~NotCommitted(h, "release_read")
    <3>1. /\ Committed(h, seen[h].remaining + Amount[Tid(h)])
          /\ credits' = [credits EXCEPT ![Tid(h)] = @ + 1] /\ debits' = debits
      BY <1>15, <2>2, <2>6 DEF ReleaseWrite
    <3>2. PICK delta \in Int : delta = -Amount[Tid(h)] /\ Amount[Tid(h)] \in Nat
      BY <2>2, BudgetAssumption
    <3>3. /\ debits \in [TrackingIds -> Nat] /\ credits \in [TrackingIds -> Nat]
          /\ seen[h].remaining \in Int
      BY <1>0 DEF TypeInv, TypeOK
    <3>4. \A u \in TrackingIds \ {Tid(h)} : debits'[u] = debits[u] /\ credits'[u] = credits[u]
      BY <3>1, <3>3
    <3>5. ASSUME NEW u \in TrackingIds
          PROVE  Taken'[u] = IF u = Tid(h) THEN Taken[u] + delta ELSE Taken[u]
      <4>0. /\ Taken[u] = (debits[u] - credits[u]) * Amount[u]
            /\ Taken'[u] = (debits'[u] - credits'[u]) * Amount[u]
        BY DEF Taken
      <4>1. CASE u = Tid(h)
        <5>1. PICK n \in Int : n = debits[u] - credits[u]
          BY <3>3
        <5>2. debits'[u] - credits'[u] = n - 1
          BY <3>1, <3>3, <4>1, <5>1
        <5>3. PICK amount \in Int : amount = Amount[u] /\ delta = -amount
          BY <3>2, <4>1
        <5>4. (n - 1) * amount = n * amount - amount /\ n * amount \in Int
          BY OneMore
        <5>5. PICK m \in Int : m = n * amount
          BY <5>4
        <5>6. Taken[u] = m /\ Taken'[u] = m - amount
          BY <4>0, <5>1, <5>2, <5>3, <5>4, <5>5
        <5>. QED
          BY <4>1, <5>3, <5>5, <5>6
      <4>2. CASE u # Tid(h)
        BY <3>4, <4>0, <4>2
      <4>. QED
        BY <4>1, <4>2
    <3>6. Committed(h, seen[h].remaining - delta)
      <4>1. seen[h].remaining - delta = seen[h].remaining + Amount[Tid(h)]
        BY <3>2, <3>3
      <4>. QED
        BY <3>1, <4>1
    <3>. QED
      BY <1>0, <2>1, <2>3, <2>4, <3>4, <3>5, <3>6, BooksCommit DEF Writing
  <2>. QED
    BY <2>5, <2>6
<1>16. ASSUME NEW h \in Handlers, Publish(h) PROVE LedgerInv'
  <2>1. Leave(h) /\ UNCHANGED <<payments, remaining, etag, debits, credits>>
    BY <1>16 DEF Publish, Return, Raise, store, history
  <2>. QED
    BY <1>2, <1>3, <2>1
<1>17. ASSUME Crash PROVE LedgerInv'
  <2>1. \A h \in Handlers : HandlerBooks(h)'
    BY <1>17 DEF Crash, HandlerBooks
  <2>. QED
    BY <1>1, <1>17, <2>1 DEF Crash, store, history
<1>. QED
  BY <1>5, <1>6, <1>7, <1>8, <1>9, <1>10, <1>11, <1>12, <1>13, <1>14, <1>15, <1>16, <1>17
     DEF Next, HandlerStep

\* No update of a budget is ever lost: through every interleaving of the two
\* loops, every lost reply and every crash, what a budget lacks is what the
\* committed transactions took less what they gave back.
THEOREM LedgerAlwaysConserved == Spec => []LedgerConserved
<1>1. LedgerInv => LedgerConserved
  BY BudgetAssumption DEF LedgerInv, LedgerOf, LedgerConserved, Accounted
<1>. QED
  BY <1>1, LedgerInit, LedgerNext, PTL DEF Spec

-----------------------------------------------------------------------------
(* As long as no delivery has overlapped a running handler, a payment has   *)
(* one handler at most, and where it stands tells what is recorded.         *)

Alone ==
    \A h, i \in Handlers :
        pc[h] # "idle" /\ pc[i] # "idle" /\ Tid(h) = Tid(i) => h = i

HandlerInStep(h) ==
    /\ pc[h] \in {"reserve_read", "reserve_write"} => payments[Tid(h)].status = "none"
    /\ pc[h] \in {"charge", "release_read", "release_write"} =>
            payments[Tid(h)].status = "reserved"
    /\ pc[h] = "save" =>
            payments[Tid(h)].status \notin Terminal \/ payments[Tid(h)] = draft[h]
    /\ pc[h] = "publish" => payments[Tid(h)].status = draft[h].status

ToldIsRecorded == \A m \in published : payments[m.tid].status = m.resolution

InStep == Alone /\ (\A h \in Handlers : HandlerInStep(h)) /\ ToldIsRecorded

SerialInv == TypeInv /\ (overlaps = 0 => InStep)

\* Nobody works on an invoice at the start.
LEMMA SerialInit == Init => SerialInv
BY TypeInit DEF Init, SerialInv, InStep, Alone, HandlerInStep, ToldIsRecorded

\* A busy handler's step leaves the payments of the others alone.
LEMMA SerialFrame ==
    ASSUME TypeInv, Alone, \A i \in Handlers : HandlerInStep(i),
           NEW h \in Handlers, pc[h] # "idle", OthersKept(h),
           pc'[h] = "idle" \/ Tid(h)' = Tid(h), HandlerInStep(h)',
           \A t \in TrackingIds \ {Tid(h)} : payments'[t] = payments[t]
    PROVE  Alone' /\ \A i \in Handlers : HandlerInStep(i)'
<1>1. ASSUME NEW i \in Handlers \ {h}
      PROVE  pc'[i] = pc[i] /\ draft'[i] = draft[i] /\ Tid(i)' = Tid(i)
  BY DEF OthersKept, Tid
<1>2. Alone'
  BY <1>1 DEF Alone
<1>3. ASSUME NEW i \in Handlers \ {h} PROVE HandlerInStep(i)'
  <2>1. CASE pc[i] = "idle"
    BY <1>1, <2>1 DEF HandlerInStep
  <2>2. CASE pc[i] # "idle"
    <3>1. Tid(i) \in TrackingIds \ {Tid(h)}
      BY <2>2, BusyHandler DEF Alone
    <3>. QED
      BY <1>1, <3>1 DEF HandlerInStep
  <2>. QED
    BY <2>1, <2>2
<1>. QED
  BY <1>2, <1>3

\* An overlap that was counted is never forgotten.
LEMMA OverlapsStay == TypeInv /\ [Next]_vars /\ overlaps' = 0 => overlaps = 0
<1>. SUFFICES ASSUME TypeInv, [Next]_vars PROVE overlaps' \in {overlaps, overlaps + 1}
  BY BoundsAssumption DEF TypeInv, TypeOK
<1>1. CASE UNCHANGED vars \/ \E h \in Handlers : ReadIndex(h)
  BY <1>1 DEF ReadIndex, vars, env
<1>2. ASSUME NEW d \in Configured, EnsureSeeded(d) PROVE UNCHANGED overlaps
  BY <1>2 DEF EnsureSeeded, env
<1>3. ASSUME NEW h \in Handlers, NEW e \in Events, Ignore(h, e) \/ StartSaga(h, e)
      PROVE  overlaps' \in {overlaps, overlaps + 1}
  BY <1>3 DEF Ignore, StartSaga, Receive
<1>4. ASSUME NEW h \in Handlers, HandlerStep(h) \/ CallFails(h) PROVE UNCHANGED overlaps
  BY <1>4 DEF HandlerStep, ReadIndex, CallFails, ReserveRead, ReserveWrite, Save, Charge, ReleaseRead,
              ReleaseWrite, Publish, env
<1>5. CASE Crash
  BY <1>5 DEF Crash
<1>. QED
  BY <1>1, <1>2, <1>3, <1>4, <1>5 DEF Next

\* Without overlaps, a handler and the record of its invoice stay in step.
LEMMA SerialNext == SerialInv /\ [Next]_vars => SerialInv'
<1>. SUFFICES ASSUME SerialInv, [Next]_vars, overlaps' = 0 PROVE InStep'
  BY TypeNext DEF SerialInv
<1>0. /\ TypeInv /\ TypeInv' /\ overlaps = 0
      /\ Alone /\ (\A i \in Handlers : HandlerInStep(i)) /\ ToldIsRecorded
  <2>1. overlaps = 0
    BY OverlapsStay DEF SerialInv
  <2>. QED
    BY <2>1, TypeNext DEF SerialInv, InStep
<1>1. CASE UNCHANGED vars \/ \E h \in Handlers : ReadIndex(h)
  BY <1>0, <1>1 DEF ReadIndex, InStep, Alone, HandlerInStep, ToldIsRecorded, Tid, vars, store, local
\* Steps of a busy handler that neither record nor announce anything.
<1>2. ASSUME NEW h \in Handlers, pc[h] # "idle", OthersKept(h),
             pc'[h] = "idle" \/ Tid(h)' = Tid(h), HandlerInStep(h)',
             UNCHANGED <<payments, published>>
      PROVE  InStep'
  BY <1>0, <1>2, SerialFrame DEF InStep, ToldIsRecorded
<1>3. ASSUME NEW h \in Handlers, Leave(h)
      PROVE  OthersKept(h) /\ pc'[h] = "idle" /\ HandlerInStep(h)'
  BY <1>0, <1>3, LeaveFrame DEF Leave, Goto, HandlerInStep, TypeInv, TypeOK
<1>4. ASSUME NEW h \in Handlers, NEW step, Retry(h, step)
      PROVE  /\ OthersKept(h)
             /\ \/ pc'[h] = "idle" /\ HandlerInStep(h)'
                \/ pc'[h] = step /\ draft'[h] = draft[h] /\ Tid(h)' = Tid(h)
  <2>1. CASE Raise(h)
    BY <1>3, <2>1 DEF Raise
  <2>2. CASE ~Raise(h)
    BY <1>0, <1>4, <2>2 DEF Retry, Again, OthersKept, Tid, TypeInv, TypeOK
  <2>. QED
    BY <2>1, <2>2
<1>5. ASSUME NEW d \in Configured, EnsureSeeded(d) PROVE InStep'
  BY <1>0, <1>5 DEF EnsureSeeded, InStep, Alone, HandlerInStep, ToldIsRecorded, Tid, local
<1>6. ASSUME NEW h \in Handlers, NEW e \in Events, Ignore(h, e) PROVE InStep'
  BY <1>0, <1>6 DEF Ignore, Receive, InStep, Alone, HandlerInStep, ToldIsRecorded, Tid, store, local
<1>7. ASSUME NEW h \in Handlers, NEW e \in Events, StartSaga(h, e) PROVE InStep'
  <2>1. /\ UNCHANGED <<payments, published>> /\ pc[h] = "idle"
        /\ e.tid \in TrackingIds /\ payments[e.tid].status \in {"none", "reserved"}
    BY <1>0, <1>7, EventsAssumption
       DEF StartSaga, Receive, Ended, Terminal, Statuses, TypeInv, TypeOK, store
  <2>2. ~InFlight(e.tid)
    BY <1>0, <1>7 DEF StartSaga, Receive
  <2>3. \A i \in Handlers \ {h} : pc[i] # "idle" => Tid(i) # e.tid
    BY <1>0, <2>2, EventsAssumption DEF InFlight, TypeInv, HandlersOK
  <2>4. /\ OthersKept(h) /\ Tid(h)' = e.tid
        /\ pc'[h] = IF payments[e.tid].status = "none" THEN "reserve_read" ELSE "charge"
    BY <1>0, <1>7 DEF StartSaga, FirstStep, Goto, OthersKept, Tid, TypeInv, TypeOK
  <2>5. \A i \in Handlers \ {h} : pc'[i] = pc[i] /\ draft'[i] = draft[i] /\ Tid(i)' = Tid(i)
    BY <2>4 DEF OthersKept, Tid
  <2>6. Alone'
    BY <1>0, <2>3, <2>4, <2>5 DEF Alone
  <2>7. HandlerInStep(h)'
    BY <2>1, <2>4 DEF HandlerInStep
  <2>8. \A i \in Handlers \ {h} : HandlerInStep(i)'
    BY <1>0, <2>1, <2>5 DEF HandlerInStep
  <2>. QED
    BY <1>0, <2>1, <2>6, <2>7, <2>8 DEF InStep, ToldIsRecorded
<1>8. ASSUME NEW h \in Handlers, CallFails(h) PROVE InStep'
  BY <1>2, <1>3, <1>8 DEF CallFails, Raise, store
<1>9. ASSUME NEW h \in Handlers, ReserveRead(h) PROVE InStep'
  <2>1. /\ UNCHANGED <<payments, published>> /\ OthersKept(h) /\ Tid(h)' = Tid(h)
        /\ pc[h] = "reserve_read" /\ pc'[h] \in {"reserve_write", "save"}
    BY <1>0, <1>9 DEF ReserveRead, Goto, OthersKept, Tid, TypeInv, TypeOK, store
  <2>2. HandlerInStep(h)'
    BY <1>0, <2>1 DEF HandlerInStep, Terminal
  <2>. QED
    BY <1>2, <2>1, <2>2
<1>10. ASSUME NEW h \in Handlers, ReserveWrite(h) PROVE InStep'
  <2>1. UNCHANGED <<payments, published>> /\ pc[h] = "reserve_write"
    BY <1>10 DEF ReserveWrite
  <2>2. CASE Retry(h, "reserve_read")
    <3>1. HandlerInStep(h)'
      BY <1>0, <1>4, <2>1, <2>2 DEF HandlerInStep
    <3>. QED
      BY <1>2, <1>4, <2>1, <2>2, <3>1
  <2>3. CASE ~Retry(h, "reserve_read")
    <3>1. OthersKept(h) /\ Tid(h)' = Tid(h) /\ pc'[h] = "save"
      BY <1>0, <1>10, <2>3 DEF ReserveWrite, NotCommitted, Goto, OthersKept, Tid, TypeInv, TypeOK
    <3>2. HandlerInStep(h)'
      BY <1>0, <2>1, <3>1 DEF HandlerInStep, Terminal
    <3>. QED
      BY <1>2, <2>1, <3>1, <3>2
  <2>. QED
    BY <2>2, <2>3
<1>11. ASSUME NEW h \in Handlers, Save(h) PROVE InStep'
  <2>1. pc[h] = "save" /\ published' = published
    BY <1>11 DEF Save, Stored
  <2>2. /\ Tid(h) \in TrackingIds /\ draft[h].status \in {"reserved", "completed", "failed"}
        /\ payments[Tid(h)].status \notin Terminal \/ payments[Tid(h)] = draft[h]
    BY <1>0, <2>1, BusyHandler DEF HandlerInStep, TypeInv, TypeOK, HandlersOK, Statuses
  <2>3. /\ payments' = payments \/ payments' = [payments EXCEPT ![Tid(h)] = draft[h]]
        /\ \A t \in TrackingIds \ {Tid(h)} : payments'[t] = payments[t]
        /\ payments'[Tid(h)] \in {payments[Tid(h)], draft[h]}
    BY <1>0, <1>11, <2>2 DEF Save, Stored, TypeInv, TypeOK
  <2>4. /\ OthersKept(h) /\ HandlerInStep(h)'
        /\ pc'[h] = "idle" \/ Tid(h)' = Tid(h)
    <3>1. CASE Retry(h, "save")
      BY <1>4, <2>2, <2>3, <3>1 DEF HandlerInStep
    <3>2. CASE ~Retry(h, "save")
      <4>1. /\ payments' = [payments EXCEPT ![Tid(h)] = draft[h]]
            /\ Goto(h, IF draft[h].status = "reserved" THEN "charge" ELSE "publish")
            /\ UNCHANGED <<job, draft, seen>>
        BY <1>11, <3>2 DEF Save, Stored
      <4>2. /\ pc'[h] = IF draft[h].status = "reserved" THEN "charge" ELSE "publish"
            /\ draft'[h] = draft[h] /\ Tid(h)' = Tid(h) /\ OthersKept(h)
            /\ payments'[Tid(h)] = draft[h]
        BY <1>0, <2>2, <4>1 DEF Goto, OthersKept, Tid, TypeInv, TypeOK
      <4>. QED
        BY <4>2 DEF HandlerInStep
    <3>. QED
      BY <3>1, <3>2
  <2>5. ToldIsRecorded'
    <3>. SUFFICES ASSUME NEW m \in published PROVE payments'[m.tid].status = m.resolution
      BY <2>1 DEF ToldIsRecorded
    <3>1. m.tid \in TrackingIds /\ m.resolution \in Terminal /\ payments[m.tid].status = m.resolution
      BY <1>0 DEF ToldIsRecorded, TypeInv, TypeOK
    <3>. QED
      BY <2>2, <2>3, <3>1
  <2>. QED
    BY <1>0, <2>1, <2>3, <2>4, <2>5, SerialFrame DEF InStep
<1>12. ASSUME NEW h \in Handlers, Charge(h) PROVE InStep'
  <2>1. UNCHANGED <<payments, published, job, seen>> /\ pc[h] = "charge"
    BY <1>12 DEF Charge, store
  <2>2. OthersKept(h) /\ pc'[h] \in {"release_read", "save"} /\ Tid(h)' = Tid(h)
    <3>1. pc'[h] \in {"release_read", "save"} /\ \A i \in Handlers \ {h} : pc'[i] = pc[i]
      BY <1>0, <1>12 DEF Charge, Goto, TypeInv, TypeOK
    <3>2. \A i \in Handlers \ {h} : draft'[i] = draft[i]
      BY <1>0, <1>12 DEF Charge, TypeInv, TypeOK
    <3>. QED
      BY <2>1, <3>1, <3>2 DEF OthersKept, Tid
  <2>3. HandlerInStep(h)'
    BY <1>0, <2>1, <2>2 DEF HandlerInStep, Terminal
  <2>. QED
    BY <1>2, <2>1, <2>2, <2>3
<1>13. ASSUME NEW h \in Handlers, ReleaseRead(h) PROVE InStep'
  <2>1. UNCHANGED <<payments, published>> /\ pc[h] = "release_read"
    BY <1>13 DEF ReleaseRead, store
  <2>2. CASE Raise(h)
    BY <1>2, <1>3, <2>1, <2>2 DEF Raise
  <2>3. CASE ~Raise(h)
    <3>1. OthersKept(h) /\ pc'[h] = "release_write" /\ Tid(h)' = Tid(h)
      BY <1>0, <1>13, <2>3 DEF ReleaseRead, OthersKept, Tid, TypeInv, TypeOK
    <3>2. HandlerInStep(h)'
      BY <1>0, <2>1, <3>1 DEF HandlerInStep
    <3>. QED
      BY <1>2, <2>1, <3>1, <3>2
  <2>. QED
    BY <2>2, <2>3
<1>14. ASSUME NEW h \in Handlers, ReleaseWrite(h) PROVE InStep'
  <2>1. UNCHANGED <<payments, published>> /\ pc[h] = "release_write"
    BY <1>14 DEF ReleaseWrite
  <2>2. CASE Retry(h, "release_read")
    <3>1. HandlerInStep(h)'
      BY <1>0, <1>4, <2>1, <2>2 DEF HandlerInStep
    <3>. QED
      BY <1>2, <1>4, <2>1, <2>2, <3>1
  <2>3. CASE ~Retry(h, "release_read")
    <3>1. /\ Goto(h, "save") /\ draft' = [draft EXCEPT ![h].status = "failed"]
          /\ seen' = [seen EXCEPT ![h] = NoBudget] /\ UNCHANGED job
      BY <1>14, <2>3 DEF ReleaseWrite, NotCommitted
    <3>2. OthersKept(h) /\ Tid(h)' = Tid(h) /\ pc'[h] = "save"
      BY <1>0, <3>1 DEF Goto, OthersKept, Tid, TypeInv, TypeOK
    <3>3. HandlerInStep(h)'
      BY <1>0, <2>1, <3>2 DEF HandlerInStep, Terminal
    <3>. QED
      BY <1>2, <2>1, <3>2, <3>3
  <2>. QED
    BY <2>2, <2>3
<1>15. ASSUME NEW h \in Handlers, Publish(h) PROVE InStep'
  <2>1. /\ pc[h] = "publish" /\ payments' = payments /\ Leave(h)
        /\ published' = published \cup {[tid |-> Tid(h), resolution |-> draft[h].status]}
    BY <1>15 DEF Publish, Sent, Return, Raise, store
  <2>2. payments[Tid(h)].status = draft[h].status
    BY <1>0, <2>1 DEF HandlerInStep
  <2>3. ToldIsRecorded'
    BY <1>0, <2>1, <2>2 DEF ToldIsRecorded
  <2>. QED
    BY <1>0, <1>3, <2>1, <2>3, SerialFrame DEF InStep
<1>16. ASSUME Crash PROVE InStep'
  BY <1>0, <1>16 DEF Crash, InStep, Alone, HandlerInStep, ToldIsRecorded, store
<1>. QED
  BY <1>1, <1>5, <1>6, <1>7, <1>8, <1>9, <1>10, <1>11, <1>12, <1>13, <1>14, <1>15, <1>16
     DEF Next, HandlerStep

\* Until a redelivery overlaps a running handler, every announcement says what the
\* record says, then and ever after, whatever calls fail and however often the
\* process dies.
THEOREM AnnouncedIsAlwaysRecorded == Spec => []AnnouncedIsRecorded
<1>1. SerialInv => AnnouncedIsRecorded
  BY DEF SerialInv, InStep, ToldIsRecorded, AnnouncedIsRecorded
<1>. QED
  BY <1>1, SerialInit, SerialNext, PTL DEF Spec

\* The two action properties: with no overlap a record only moves along the
\* documented state machine, and budget is only taken while nothing is recorded.
LEMMA SerialStep ==
    ASSUME SerialInv, SerialInv', [Next]_vars, overlaps' = 0, NEW t \in TrackingIds
    PROVE  /\ payments'[t].status # payments[t].status =>
                \/ payments[t].status = "none"
                \/ payments[t].status = "reserved" /\ payments'[t].status \in Terminal
           /\ debits'[t] > debits[t] => payments[t].status = "none"
<1>0. /\ TypeInv /\ overlaps = 0
      /\ Alone /\ (\A i \in Handlers : HandlerInStep(i)) /\ ToldIsRecorded
  <2>1. overlaps = 0
    BY OverlapsStay DEF SerialInv
  <2>. QED
    BY <2>1 DEF SerialInv, InStep
<1>1. payments[t].status \in Statuses /\ debits[t] \in Nat
  BY <1>0 DEF TypeInv, TypeOK
<1>2. CASE UNCHANGED <<payments, debits>>
  BY <1>1, <1>2
<1>3. ASSUME NEW h \in Handlers, ReserveWrite(h) PROVE UNCHANGED payments /\
                                        (debits'[t] > debits[t] => payments[t].status = "none")
  <2>1. pc[h] = "reserve_write" /\ UNCHANGED payments
    BY <1>3 DEF ReserveWrite
  <2>2. Tid(h) \in TrackingIds /\ payments[Tid(h)].status = "none"
    BY <1>0, <2>1, BusyHandler DEF HandlerInStep
  <2>3. debits' = debits \/ debits' = [debits EXCEPT ![Tid(h)] = @ + 1]
    BY <1>3 DEF ReserveWrite, NotCommitted, history
  <2>4. debits \in [TrackingIds -> Nat]
    BY <1>0 DEF TypeInv, TypeOK
  <2>5. t # Tid(h) => debits'[t] = debits[t]
    BY <2>2, <2>3, <2>4
  <2>. QED
    BY <1>1, <2>1, <2>2, <2>5
<1>4. ASSUME NEW h \in Handlers, Save(h)
      PROVE  /\ debits' = debits
             /\ payments'[t].status # payments[t].status =>
                   \/ payments[t].status = "none"
                   \/ payments[t].status = "reserved" /\ payments'[t].status \in Terminal
  <2>1. pc[h] = "save" /\ debits' = debits
    BY <1>4 DEF Save, Stored, history
  <2>2. /\ Tid(h) \in TrackingIds /\ draft[h].status \in {"reserved", "completed", "failed"}
        /\ payments[Tid(h)].status \notin Terminal \/ payments[Tid(h)] = draft[h]
    BY <1>0, <2>1, BusyHandler DEF HandlerInStep, TypeInv, TypeOK, HandlersOK, Statuses
  <2>3. payments'[t] = payments[t] \/ (t = Tid(h) /\ payments'[t] = draft[h])
    <3>1. payments' = payments \/ payments' = [payments EXCEPT ![Tid(h)] = draft[h]]
      BY <1>4 DEF Save, Stored
    <3>2. payments \in [TrackingIds -> [status: Statuses, reserved: Nat]]
      BY <1>0 DEF TypeInv, TypeOK
    <3>. QED
      BY <2>2, <3>1, <3>2
  <2>. QED
    BY <1>1, <2>1, <2>2, <2>3 DEF Statuses, Terminal
<1>5. CASE \E h \in Handlers : ReserveWrite(h) \/ Save(h)
  BY <1>1, <1>3, <1>4, <1>5
<1>6. CASE ~\E h \in Handlers : ReserveWrite(h) \/ Save(h)
  <2>1. CASE UNCHANGED vars \/ Crash \/ (\E h \in Handlers : ReadIndex(h)) \/ \E d \in Configured : EnsureSeeded(d)
    BY <1>2, <2>1 DEF ReadIndex, EnsureSeeded, Crash, vars, store, history
  <2>2. CASE \E h \in Handlers, e \in Events : Ignore(h, e) \/ StartSaga(h, e)
    BY <1>2, <2>2 DEF Ignore, StartSaga, Receive, store, history
  <2>3. ASSUME NEW h \in Handlers, HandlerStep(h) \/ CallFails(h) PROVE UNCHANGED <<payments, debits>>
    BY <1>6, <2>3 DEF HandlerStep, ReadIndex, CallFails, ReserveRead, Charge, ReleaseRead, ReleaseWrite,
                      NotCommitted, Publish, store, history
  <2>. QED
    BY <1>2, <2>1, <2>2, <2>3 DEF Next
<1>. QED
  BY <1>5, <1>6

\* Until a redelivery overlaps a running handler, COMPLETED and FAILED are final and a
\* reservation on record is neither forgotten nor made a second time, through crashes,
\* retries and lost replies.
THEOREM RecordAlwaysFollowsStateMachine == Spec => RecordFollowsStateMachine
<1>1. SerialInv /\ SerialInv' /\ [Next]_vars =>
        [overlaps' = 0 => \A t \in TrackingIds :
            LET was == payments[t].status
                is == payments'[t].status
            IN /\ was # is => \/ was = "none"
                              \/ was = "reserved" /\ is \in Terminal
               /\ debits'[t] > debits[t] => was = "none"]_vars
  BY SerialStep
<1>. QED
  BY <1>1, SerialInit, SerialNext, PTL DEF Spec, RecordFollowsStateMachine

-----------------------------------------------------------------------------
(* ReservesAreAccounted. A reservation of a payment that is still to come is *)
(* either that of a handler in reserve(), or one that a new delivery may     *)
(* start: nothing is recorded and no handler is at work. Both are counted    *)
(* beside those that were made.                                              *)

Reserving(t) == {h \in Handlers : pc[h] \in {"reserve_read", "reserve_write"} /\ Tid(h) = t}
Unclaimed(t) == IF payments[t].status = "none" /\ ~InFlight(t) THEN 1 ELSE 0

Covered(t) ==
    /\ IsFiniteSet(Reserving(t))
    /\ ~gaveUp => debits[t] + Cardinality(Reserving(t)) + Unclaimed(t)
                    <= 1 + faults + crashes + overlaps

\* The steps a saga reaches only after a save().
AfterSave == {"charge", "release_read", "release_write", "publish"}

HandlerClaims(h) ==
    /\ pc[h] = "idle" => job[h] = NoEvent
    /\ pc[h] \in AfterSave => payments[Tid(h)].status # "none"

AccountInv ==
    /\ TypeInv
    /\ \A h \in Handlers : HandlerClaims(h)
    /\ \A t \in TrackingIds : Covered(t)

\* The reservation a step may still make.
Pending(step) == IF step \in {"reserve_read", "reserve_write"} THEN 1 ELSE 0

Others(h) == \A i \in Handlers \ {h} : pc'[i] = pc[i] /\ job'[i] = job[i]

\* The numbers compared are numbers.
LEMMA Counts ==
    ASSUME TypeInv, NEW t \in TrackingIds
    PROVE  /\ debits[t] \in Nat /\ faults \in Nat /\ crashes \in Nat /\ overlaps \in Nat
           /\ Unclaimed(t) \in {0, 1}
BY BoundsAssumption DEF TypeInv, TypeOK, Unclaimed

\* One handler moves on: its payment's reservations change by its own.
LEMMA OneMoves ==
    ASSUME NEW h \in Handlers, NEW t \in TrackingIds, IsFiniteSet(Reserving(t)), Others(h)
    PROVE  LET old == IF Tid(h) = t THEN Pending(pc[h]) ELSE 0
               new == IF job'[h].tid = t THEN Pending(pc'[h]) ELSE 0
           IN /\ IsFiniteSet(Reserving(t)') /\ Cardinality(Reserving(t)) \in Nat
              /\ Cardinality(Reserving(t)') = Cardinality(Reserving(t)) - old + new
<1> DEFINE was == h \in Reserving(t)
           is == h \in Reserving(t)'
<1>1. Cardinality(Reserving(t)) \in Nat
  BY FS_CardinalityType
<1>2. /\ was <=> (Tid(h) = t /\ pc[h] \in {"reserve_read", "reserve_write"})
      /\ is <=> (job'[h].tid = t /\ pc'[h] \in {"reserve_read", "reserve_write"})
  BY DEF Reserving, Tid
<1>3. \A i \in Handlers \ {h} : i \in Reserving(t)' <=> i \in Reserving(t)
  BY DEF Reserving, Others, Tid
<1>4. Reserving(t) \subseteq Handlers /\ Reserving(t)' \subseteq Handlers
  BY DEF Reserving
<1>5. CASE was <=> is
  <2>1. Reserving(t)' = Reserving(t)
    BY <1>3, <1>4, <1>5
  <2>. QED
    BY <1>1, <1>2, <1>5, <2>1 DEF Pending
<1>6. CASE was /\ ~is
  <2>1. Reserving(t)' = Reserving(t) \ {h}
    BY <1>3, <1>4, <1>6
  <2>2. IsFiniteSet(Reserving(t)') /\ Cardinality(Reserving(t)') = Cardinality(Reserving(t)) - 1
    BY <1>6, <2>1, FS_RemoveElement
  <2>. QED
    BY <1>1, <1>2, <1>6, <2>2 DEF Pending
<1>7. CASE ~was /\ is
  <2>1. Reserving(t)' = Reserving(t) \cup {h}
    BY <1>3, <1>4, <1>7
  <2>2. IsFiniteSet(Reserving(t)') /\ Cardinality(Reserving(t)') = Cardinality(Reserving(t)) + 1
    BY <1>7, <2>1, FS_AddElement
  <2>. QED
    BY <1>1, <1>2, <1>7, <2>2 DEF Pending
<1>. QED
  BY <1>5, <1>6, <1>7

\* A step of a busy handler keeps the account when its own payment's balances.
LEMMA BusyStep ==
    ASSUME AccountInv, TypeInv', NEW h \in Handlers, pc[h] # "idle", Others(h),
           \/ pc'[h] = "idle" /\ job'[h] = NoEvent
           \/ pc'[h] # "idle" /\ job'[h] = job[h],
           \A t \in TrackingIds \ {Tid(h)} :
                payments'[t].status = payments[t].status /\ debits'[t] = debits[t],
           payments[Tid(h)].status # "none" => payments'[Tid(h)].status # "none",
           pc'[h] \in AfterSave => payments'[Tid(h)].status # "none",
           gaveUp => gaveUp', faults <= faults', UNCHANGED <<crashes, overlaps>>,
           ~gaveUp' =>
                debits'[Tid(h)] + Pending(pc'[h]) + faults
                    + (IF pc'[h] = "idle" /\ payments'[Tid(h)].status = "none" THEN 1 ELSE 0)
                <= debits[Tid(h)] + Pending(pc[h]) + faults'
    PROVE  AccountInv'
<1>1. job[h] \in Events /\ job[h] # NoEvent /\ Tid(h) \in TrackingIds /\ TypeInv
  BY BusyHandler, EventsAssumption DEF AccountInv, TypeInv, HandlersOK
<1>2. \A i \in Handlers : HandlerClaims(i)'
  <2>1. HandlerClaims(h)'
    BY DEF HandlerClaims, Tid, AfterSave
  <2>2. ASSUME NEW i \in Handlers \ {h} PROVE HandlerClaims(i)'
    <3>1. HandlerClaims(i) /\ pc'[i] = pc[i] /\ job'[i] = job[i]
      BY DEF AccountInv, Others
    <3>2. pc[i] # "idle" => Tid(i) \in TrackingIds
      BY <1>1, BusyHandler
    <3>. QED
      BY <3>1, <3>2 DEF HandlerClaims, Tid, AfterSave
  <2>. QED
    BY <2>1, <2>2
<1>3. ASSUME NEW t \in TrackingIds PROVE Covered(t)'
  <2> DEFINE n == Cardinality(Reserving(t))
             m == Cardinality(Reserving(t)')
             old == IF Tid(h) = t THEN Pending(pc[h]) ELSE 0
             new == IF job'[h].tid = t THEN Pending(pc'[h]) ELSE 0
  <2>1. IsFiniteSet(Reserving(t)) /\
        (~gaveUp => debits[t] + n + Unclaimed(t) <= 1 + faults + crashes + overlaps)
    BY DEF AccountInv, Covered
  <2>2. IsFiniteSet(Reserving(t)') /\ n \in Nat /\ m = n - old + new
    BY <2>1, OneMoves
  <2>3. /\ debits[t] \in Nat /\ faults \in Nat /\ crashes \in Nat /\ overlaps \in Nat
        /\ Unclaimed(t) \in {0, 1}
    BY <1>1, Counts
  <2>4. debits'[t] \in Nat /\ faults' \in Nat /\ Unclaimed(t)' \in {0, 1}
    BY BoundsAssumption DEF TypeInv, TypeOK, Unclaimed
  <2>5. Pending(pc[h]) \in {0, 1} /\ Pending(pc'[h]) \in {0, 1}
    BY DEF Pending
  <2>6. pc'[h] = "idle" => Pending(pc'[h]) = 0
    BY DEF Pending
  <2>7. CASE t = Tid(h)
    <3>1. Unclaimed(t)' = IF pc'[h] = "idle" /\ payments'[t].status = "none"
                             /\ ~InFlight(t)' THEN 1 ELSE 0
      BY <1>1, <2>7 DEF Unclaimed, InFlight, Tid
    <3>2. Unclaimed(t)' <= IF pc'[h] = "idle" /\ payments'[Tid(h)].status = "none" THEN 1 ELSE 0
      BY <2>7, <3>1
    <3>3. old = Pending(pc[h]) /\ new \in {Pending(pc'[h]), 0}
      BY <2>7
    <3>4. m <= n - Pending(pc[h]) + Pending(pc'[h])
      BY <2>2, <2>5, <3>3
    <3>5. m \in Int
      BY <2>2, <2>5, <3>3
    <3> DEFINE left == IF pc'[h] = "idle" /\ payments'[Tid(h)].status = "none" THEN 1 ELSE 0
               p == Pending(pc[h])
               q == Pending(pc'[h])
               u == Unclaimed(t)
               v == Unclaimed(t)'
    <3>6. ~gaveUp' => debits'[t] + q + faults + left <= debits[t] + p + faults'
      BY <2>7
    <3>7. p \in {0, 1} /\ q \in {0, 1} /\ u \in {0, 1} /\ v \in {0, 1} /\ left \in {0, 1} /\ v <= left
          /\ m <= n - p + q /\ n \in Nat /\ m \in Int
          /\ (~gaveUp => debits[t] + n + u <= 1 + faults + crashes + overlaps)
      BY <2>1, <2>2, <2>3, <2>4, <2>5, <3>2, <3>4, <3>5
    <3> HIDE DEF n, m, p, q, u, v, left
    <3>8. ~gaveUp' => debits'[t] + m + v <= 1 + faults' + crashes + overlaps
      BY <2>3, <2>4, <3>6, <3>7
    <3>. QED
      BY <2>2, <3>8 DEF Covered, m, v
  <2>8. CASE t # Tid(h)
    <3>1. old = 0 /\ new = 0
      BY <2>6, <2>8 DEF Tid
    <3>2. InFlight(t)' <=> InFlight(t)
      BY <1>1, <2>8 DEF InFlight, Others, Tid
    <3>3. Unclaimed(t)' = Unclaimed(t)
      BY <2>8, <3>2 DEF Unclaimed
    <3>4. m = n /\ debits'[t] = debits[t]
      BY <2>2, <2>8, <3>1
    <3> DEFINE u == Unclaimed(t)
               v == Unclaimed(t)'
    <3>5. u \in {0, 1} /\ v = u /\ n \in Nat
          /\ (~gaveUp => debits[t] + n + u <= 1 + faults + crashes + overlaps)
      BY <2>1, <2>2, <2>3, <3>3
    <3> HIDE DEF n, m, u, v
    <3>6. ~gaveUp' => debits'[t] + m + v <= 1 + faults' + crashes + overlaps
      BY <2>3, <2>4, <3>4, <3>5
    <3>. QED
      BY <2>2, <3>6 DEF Covered, m, v
  <2>. QED
    BY <2>7, <2>8
<1>. QED
  BY <1>2, <1>3 DEF AccountInv

\* Nothing is reserved or under way at the start.
LEMMA AccountInit == Init => AccountInv
<1>. SUFFICES ASSUME Init PROVE AccountInv
  OBVIOUS
<1>1. \A h \in Handlers : HandlerClaims(h)
  BY DEF Init, HandlerClaims, AfterSave
<1>2. ASSUME NEW t \in TrackingIds PROVE Covered(t)
  <2>1. Reserving(t) = {}
    BY DEF Init, Reserving
  <2>2. IsFiniteSet(Reserving(t)) /\ Cardinality(Reserving(t)) = 0
    BY <2>1, FS_EmptySet
  <2>3. /\ debits[t] = 0 /\ faults = 0 /\ crashes = 0 /\ overlaps = 0
        /\ Unclaimed(t) \in {0, 1}
    BY DEF Init, Unclaimed
  <2> DEFINE n == Cardinality(Reserving(t))
             u == Unclaimed(t)
  <2> HIDE DEF n, u
  <2>4. debits[t] + n + u <= 1 + faults + crashes + overlaps
    BY <2>2, <2>3 DEF n, u
  <2>. QED
    BY <2>2, <2>4 DEF Covered, n, u
<1>. QED
  BY <1>1, <1>2, TypeInit DEF AccountInv

\* Leaving frees the one handler.
LEMMA LeaveMoves ==
    ASSUME TypeInv, NEW h \in Handlers, Leave(h)
    PROVE  Others(h) /\ pc'[h] = "idle" /\ job'[h] = NoEvent
BY DEF Leave, Goto, Others, TypeInv, TypeOK

\* After a failed attempt it leaves, when it was the last, or goes back to the step named.
LEMMA RetryMoves ==
    ASSUME TypeInv, NEW h \in Handlers, pc[h] # "idle", NEW step \in Steps \ {"idle"}, Retry(h, step)
    PROVE  /\ Others(h)
           /\ \/ LastAttempt(h) /\ pc'[h] = "idle" /\ job'[h] = NoEvent
              \/ ~LastAttempt(h) /\ pc'[h] = step /\ job'[h] = job[h]
<1>1. CASE LastAttempt(h) /\ Raise(h)
  BY <1>1, LeaveMoves DEF Raise
<1>2. CASE ~LastAttempt(h) /\ Again(h, step)
  BY <1>2 DEF Again, Others, TypeInv, TypeOK
<1>. QED
  BY <1>1, <1>2 DEF Retry

\* A delivery claims what nobody had claimed, or is counted as an overlap.
LEMMA StartAccounted ==
    ASSUME AccountInv, TypeInv', NEW h \in Handlers, NEW e \in Events, StartSaga(h, e)
    PROVE  AccountInv'
<1>1. /\ TypeInv /\ pc[h] = "idle" /\ job[h] = NoEvent /\ e # NoEvent /\ e.tid \in TrackingIds
      /\ UNCHANGED <<payments, debits, gaveUp, faults, crashes>>
  BY EventsAssumption DEF StartSaga, Receive, AccountInv, HandlerClaims, store, history
<1>2. /\ Others(h) /\ job'[h] = e
      /\ pc'[h] = IF payments[e.tid].status = "none" THEN "reserve_read" ELSE "charge"
  BY <1>1 DEF StartSaga, FirstStep, Goto, Others, TypeInv, TypeOK
<1>3. \/ ~InFlight(e.tid) /\ overlaps' = overlaps
      \/ InFlight(e.tid) /\ overlaps' = overlaps + 1
  BY DEF StartSaga, Receive
<1>4. \A i \in Handlers : HandlerClaims(i)'
  <2>1. HandlerClaims(h)'
    BY <1>1, <1>2 DEF HandlerClaims, Tid, AfterSave
  <2>2. ASSUME NEW i \in Handlers \ {h} PROVE HandlerClaims(i)'
    BY <1>1, <1>2 DEF AccountInv, HandlerClaims, Others, Tid
  <2>. QED
    BY <2>1, <2>2
<1>5. ASSUME NEW t \in TrackingIds PROVE Covered(t)'
  <2> DEFINE n == Cardinality(Reserving(t))
             m == Cardinality(Reserving(t)')
             u == Unclaimed(t)
             v == Unclaimed(t)'
             old == IF Tid(h) = t THEN Pending(pc[h]) ELSE 0
             new == IF job'[h].tid = t THEN Pending(pc'[h]) ELSE 0
  <2>1. IsFiniteSet(Reserving(t)) /\
        (~gaveUp => debits[t] + n + u <= 1 + faults + crashes + overlaps)
    BY DEF AccountInv, Covered
  <2>2. IsFiniteSet(Reserving(t)') /\ n \in Nat /\ m = n - old + new
    BY <1>2, <2>1, OneMoves
  <2>3. /\ debits[t] \in Nat /\ faults \in Nat /\ crashes \in Nat /\ overlaps \in Nat
        /\ u \in {0, 1} /\ v \in {0, 1}
    BY <1>1, Counts DEF Unclaimed
  <2>4. old = 0
    BY <1>1 DEF Pending
  <2>5. CASE t = e.tid
    <3>1. v = 0 /\ u = IF payments[t].status = "none" /\ ~InFlight(t) THEN 1 ELSE 0
      BY <1>1, <1>2, <2>5 DEF Unclaimed, InFlight, Tid
    <3>2. new = IF payments[t].status = "none" THEN 1 ELSE 0
      BY <1>2, <2>5 DEF Pending
    <3>3. m = n + (IF payments[t].status = "none" THEN 1 ELSE 0)
      BY <2>2, <2>4, <3>2
    <3> HIDE DEF n, m, u, v
    <3>4. n \in Nat
      BY <2>2
    <3>5. ~gaveUp => debits[t] + m + v <= 1 + faults + crashes + overlaps'
      BY <1>3, <2>1, <2>3, <2>5, <3>1, <3>3, <3>4
    <3>. QED
      BY <1>1, <2>2, <3>5 DEF Covered, m, v
  <2>6. CASE t # e.tid
    <3>1. new = 0
      BY <1>2, <2>6
    <3>2. InFlight(t)' <=> InFlight(t)
      BY <1>1, <1>2, <2>6 DEF InFlight, Others, Tid
    <3>3. v = u
      BY <1>1, <3>2 DEF Unclaimed
    <3>4. m = n
      BY <2>2, <2>4, <3>1
    <3> HIDE DEF n, m, u, v
    <3>5. n \in Nat
      BY <2>2
    <3>6. ~gaveUp => debits[t] + m + v <= 1 + faults + crashes + overlaps'
      BY <1>3, <2>1, <2>3, <3>3, <3>4, <3>5
    <3>. QED
      BY <1>1, <2>2, <3>6 DEF Covered, m, v
  <2>. QED
    BY <2>5, <2>6
<1>. QED
  BY <1>4, <1>5 DEF AccountInv

\* A crash abandons every handler, and the payment may be started once more.
LEMMA CrashAccounted ==
    ASSUME AccountInv, TypeInv', Crash
    PROVE  AccountInv'
<1>1. TypeInv /\ UNCHANGED <<payments, debits, gaveUp, faults, overlaps>> /\ crashes' = crashes + 1
      /\ pc' = [h \in Handlers |-> "idle"] /\ job' = [h \in Handlers |-> NoEvent]
  BY DEF Crash, AccountInv, history
<1>2. \A h \in Handlers : HandlerClaims(h)'
  BY <1>1 DEF HandlerClaims, AfterSave
<1>3. ASSUME NEW t \in TrackingIds PROVE Covered(t)'
  <2> DEFINE n == Cardinality(Reserving(t))
             m == Cardinality(Reserving(t)')
             u == Unclaimed(t)
             v == Unclaimed(t)'
  <2>1. IsFiniteSet(Reserving(t)) /\
        (~gaveUp => debits[t] + n + u <= 1 + faults + crashes + overlaps)
    BY DEF AccountInv, Covered
  <2>2. Reserving(t)' = {}
    BY <1>1 DEF Reserving
  <2>3. IsFiniteSet(Reserving(t)') /\ m = 0
    BY <2>2, FS_EmptySet
  <2>4. /\ debits[t] \in Nat /\ faults \in Nat /\ crashes \in Nat /\ overlaps \in Nat
        /\ u \in {0, 1} /\ v \in {0, 1}
    BY <1>1, Counts DEF Unclaimed
  <2>5. n \in Nat
    BY <2>1, FS_CardinalityType
  <2> HIDE DEF n, m, u, v
  <2>6. ~gaveUp => debits[t] + m + v <= 1 + faults + (crashes + 1) + overlaps
    BY <2>1, <2>3, <2>4, <2>5
  <2>. QED
    BY <1>1, <2>3, <2>6 DEF Covered, m, v
<1>. QED
  BY <1>2, <1>3 DEF AccountInv

\* Steps that touch neither the handlers nor the records keep the account.
LEMMA IdleAccounted ==
    ASSUME AccountInv, TypeInv', UNCHANGED <<payments, debits, gaveUp, crashes, pc, job>>,
           faults' \in {faults, faults + 1}, overlaps' \in {overlaps, overlaps + 1}
    PROVE  AccountInv'
<1>1. \A h \in Handlers : HandlerClaims(h)'
  BY DEF AccountInv, HandlerClaims, Tid
<1>2. ASSUME NEW t \in TrackingIds PROVE Covered(t)'
  <2> DEFINE n == Cardinality(Reserving(t))
             u == Unclaimed(t)
  <2>1. Reserving(t)' = Reserving(t) /\ Unclaimed(t)' = u
    BY DEF Reserving, Unclaimed, InFlight, Tid
  <2>2. IsFiniteSet(Reserving(t)) /\
        (~gaveUp => debits[t] + n + u <= 1 + faults + crashes + overlaps)
    BY DEF AccountInv, Covered
  <2>3. n \in Nat
    BY <2>2, FS_CardinalityType
  <2>4. /\ debits[t] \in Nat /\ faults \in Nat /\ crashes \in Nat /\ overlaps \in Nat
        /\ u \in {0, 1}
    BY Counts DEF AccountInv
  <2> HIDE DEF n, u
  <2>5. ~gaveUp => debits[t] + n + u <= 1 + faults' + crashes + overlaps'
    BY <2>2, <2>3, <2>4
  <2>. QED
    BY <2>1, <2>2, <2>5 DEF Covered, n, u
<1>. QED
  BY <1>1, <1>2 DEF AccountInv

\* save() either stores the record, or tries again, or leaves by a fault or for good.
LEMMA SaveAccounted ==
    ASSUME AccountInv, TypeInv', NEW h \in Handlers, Save(h)
    PROVE  AccountInv'
<1>1. /\ TypeInv /\ pc[h] = "save" /\ pc[h] # "idle" /\ Tid(h) \in TrackingIds
      /\ draft[h].status # "none"
      /\ UNCHANGED <<debits, crashes, overlaps>>
  BY BusyHandler DEF Save, AccountInv, TypeInv, HandlersOK, env
<1>2. /\ \A t \in TrackingIds \ {Tid(h)} : payments'[t] = payments[t]
      /\ payments[Tid(h)].status # "none" => payments'[Tid(h)].status # "none"
      /\ payments \in [TrackingIds -> [status: Statuses, reserved: Nat]]
  BY <1>1 DEF Save, Stored, TypeInv, TypeOK
<1>3. debits[Tid(h)] \in Nat /\ faults \in Nat /\ Pending(pc[h]) = 0
  BY <1>1, Counts DEF Pending
<1>4. CASE /\ Stored(h)
           /\ Goto(h, IF draft[h].status = "reserved" THEN "charge" ELSE "publish")
           /\ UNCHANGED <<job, draft, seen, acked, faults, gaveUp>>
  <2>1. /\ Others(h) /\ pc'[h] \in {"charge", "publish"} /\ job'[h] = job[h]
        /\ payments'[Tid(h)].status # "none"
    BY <1>1, <1>2, <1>4 DEF Goto, Stored, Others, TypeInv, TypeOK
  <2>2. Pending(pc'[h]) = 0 /\ pc'[h] # "idle"
    BY <2>1 DEF Pending
  <2>3. debits'[Tid(h)] + Pending(pc'[h]) + faults
            + (IF pc'[h] = "idle" /\ payments'[Tid(h)].status = "none" THEN 1 ELSE 0)
          <= debits[Tid(h)] + Pending(pc[h]) + faults'
    BY <1>1, <1>3, <1>4, <2>2
  <2>. QED
    BY <1>1, <1>2, <1>3, <1>4, <2>1, <2>2, <2>3, BusyStep
<1>5. CASE /\ Fault \/ UNCHANGED faults
           /\ Retry(h, "save")
           /\ gaveUp' = (gaveUp \/ LastAttempt(h))
  <2>1. /\ Others(h) /\ (gaveUp => gaveUp')
        /\ \/ gaveUp' /\ pc'[h] = "idle" /\ job'[h] = NoEvent
           \/ pc'[h] = "save" /\ job'[h] = job[h]
    BY <1>1, <1>5, RetryMoves, Zenon DEF Steps
  <2>2. pc'[h] \in {"idle", "save"} /\ Pending(pc'[h]) = 0 /\ faults <= faults'
    BY <1>3, <1>5, <2>1 DEF Pending, Fault
  <2>3. ~gaveUp' =>
            debits'[Tid(h)] + Pending(pc'[h]) + faults
                + (IF pc'[h] = "idle" /\ payments'[Tid(h)].status = "none" THEN 1 ELSE 0)
              <= debits[Tid(h)] + Pending(pc[h]) + faults'
    <3>. SUFFICES ASSUME pc'[h] = "save"
                  PROVE  debits'[Tid(h)] + Pending(pc'[h]) + faults
                            + (IF pc'[h] = "idle" /\ payments'[Tid(h)].status = "none" THEN 1 ELSE 0)
                          <= debits[Tid(h)] + Pending(pc[h]) + faults'
      BY <2>1
    <3>1. faults' \in {faults, faults + 1}
      BY <1>5 DEF Fault
    <3>. QED
      BY <1>1, <1>3, <2>2, <3>1
  <2>4. pc'[h] \notin AfterSave
    BY <2>2 DEF AfterSave
  <2>. QED
    BY <1>1, <1>2, <2>1, <2>2, <2>3, <2>4, BusyStep
<1>. QED
  BY <1>4, <1>5 DEF Save

\* Every other step of a handler: what it reserves it had pending or a fault pays for.
LEMMA HandlerAccounted ==
    ASSUME AccountInv, TypeInv', NEW h \in Handlers,
           CallFails(h) \/ ReserveRead(h) \/ ReserveWrite(h) \/ Charge(h)
              \/ ReleaseRead(h) \/ ReleaseWrite(h) \/ Publish(h)
    PROVE  AccountInv'
<1>1. /\ TypeInv /\ pc[h] \in Steps \ {"idle"}
      /\ UNCHANGED <<payments, gaveUp, crashes, overlaps>>
  BY DEF CallFails, ReserveRead, ReserveWrite, NotCommitted, Charge, ReleaseRead, ReleaseWrite,
         Publish, AccountInv, store, history, env, Steps
<1>2. Tid(h) \in TrackingIds /\ debits[Tid(h)] \in Nat /\ faults \in Nat
  BY <1>1, BusyHandler, Counts
<1>3. Pending(pc[h]) \in {0, 1} /\ Pending(pc'[h]) \in {0, 1}
  BY DEF Pending
<1>4. pc[h] \in AfterSave => payments[Tid(h)].status # "none"
  BY DEF AccountInv, HandlerClaims
\* It goes on, without reserving.
<1>5. ASSUME Others(h), pc'[h] # "idle", job'[h] = job[h],
             pc'[h] \in AfterSave => pc[h] \in AfterSave,
             Pending(pc'[h]) <= Pending(pc[h]), UNCHANGED <<debits, faults>>
      PROVE  AccountInv'
  <2>1. debits'[Tid(h)] + Pending(pc'[h]) + faults
            + (IF pc'[h] = "idle" /\ payments'[Tid(h)].status = "none" THEN 1 ELSE 0)
          <= debits[Tid(h)] + Pending(pc[h]) + faults'
    BY <1>2, <1>3, <1>5
  <2>. QED
    BY <1>1, <1>2, <1>4, <1>5, <2>1, BusyStep
\* It gives up: what it had pending, what is recorded or a fault stands for the next.
<1>6. ASSUME Leave(h), UNCHANGED debits,
             \/ faults' = faults + 1
             \/ faults' = faults /\ (Pending(pc[h]) = 1 \/ pc[h] \in AfterSave)
      PROVE  AccountInv'
  <2>1. Others(h) /\ pc'[h] = "idle" /\ job'[h] = NoEvent
    BY <1>1, <1>6, LeaveMoves
  <2>2. Pending(pc'[h]) = 0 /\ pc'[h] \notin AfterSave
    BY <2>1 DEF Pending, AfterSave
  <2>3. debits'[Tid(h)] + Pending(pc'[h]) + faults
            + (IF pc'[h] = "idle" /\ payments'[Tid(h)].status = "none" THEN 1 ELSE 0)
          <= debits[Tid(h)] + Pending(pc[h]) + faults'
    BY <1>1, <1>2, <1>3, <1>4, <1>6, <2>2
  <2>4. faults <= faults'
    BY <1>2, <1>6
  <2>. QED
    BY <1>1, <1>2, <1>4, <1>6, <2>1, <2>2, <2>3, <2>4, BusyStep
\* Another attempt, of either loop.
<1>7. ASSUME NEW step \in {"reserve_read", "release_read"}, Retry(h, step),
             Pending(pc[h]) = Pending(step), pc[h] \in {"reserve_write", "release_write"},
             step = "release_read" => pc[h] = "release_write",
             UNCHANGED debits, faults' \in {faults, faults + 1}
      PROVE  AccountInv'
  <2>1. CASE LastAttempt(h)
    <3>1. Leave(h)
      BY <1>7, <2>1 DEF Retry, Raise
    <3>2. Pending(pc[h]) = 1 \/ pc[h] \in AfterSave
      BY <1>7 DEF Pending, AfterSave
    <3>. QED
      BY <1>6, <1>7, <3>1, <3>2
  <2>2. CASE ~LastAttempt(h)
    <3>1. Others(h) /\ pc'[h] = step /\ job'[h] = job[h]
      BY <1>1, <1>7, <2>2, RetryMoves DEF Steps
    <3>2. pc'[h] \in AfterSave => pc[h] \in AfterSave
      BY <1>7, <3>1 DEF AfterSave
    <3>3. debits'[Tid(h)] + Pending(pc'[h]) + faults
              + (IF pc'[h] = "idle" /\ payments'[Tid(h)].status = "none" THEN 1 ELSE 0)
            <= debits[Tid(h)] + Pending(pc[h]) + faults'
      BY <1>2, <1>3, <1>7, <3>1
    <3>4. pc'[h] # "idle" /\ faults <= faults'
      BY <1>2, <1>7, <3>1
    <3>. QED
      BY <1>1, <1>2, <1>4, <1>7, <3>1, <3>2, <3>3, <3>4, BusyStep
  <2>. QED
    BY <2>1, <2>2
<1>8. CASE CallFails(h)
  BY <1>6, <1>8 DEF CallFails, Raise, Fault, history
<1>9. CASE ReserveRead(h)
  <2>1. /\ Others(h) /\ pc[h] = "reserve_read" /\ pc'[h] \in {"reserve_write", "save"}
        /\ job'[h] = job[h] /\ UNCHANGED <<debits, faults>>
    BY <1>1, <1>9 DEF ReserveRead, Goto, Others, TypeInv, TypeOK, history
  <2>2. /\ pc'[h] # "idle" /\ pc'[h] \notin AfterSave
        /\ Pending(pc'[h]) <= Pending(pc[h])
    BY <2>1 DEF Pending, AfterSave
  <2>. QED
    BY <1>5, <2>1, <2>2
<1>10. CASE ReserveWrite(h)
  <2>1. pc[h] = "reserve_write" /\ Pending(pc[h]) = 1 /\ Pending("reserve_read") = 1
    BY <1>10 DEF ReserveWrite, Pending
  <2>2. CASE NotCommitted(h, "reserve_read")
    <3>1. UNCHANGED debits /\ faults' \in {faults, faults + 1} /\ Retry(h, "reserve_read")
      BY <2>2 DEF NotCommitted, Fault, history
    <3>. QED
      BY <1>7, <2>1, <3>1
  <2>3. CASE /\ debits' = [debits EXCEPT ![Tid(h)] = @ + 1]
             /\ Goto(h, "save")
             /\ UNCHANGED <<job, acked, faults>>
    <3>1. Others(h) /\ pc'[h] = "save" /\ job'[h] = job[h]
      BY <1>1, <2>3 DEF Goto, Others, TypeInv, TypeOK
    <3>2. Pending(pc'[h]) = 0 /\ pc'[h] # "idle" /\ pc'[h] \notin AfterSave
      BY <3>1 DEF Pending, AfterSave
    <3>3. /\ debits'[Tid(h)] = debits[Tid(h)] + 1
          /\ \A t \in TrackingIds \ {Tid(h)} : debits'[t] = debits[t]
      BY <1>1, <1>2, <2>3 DEF TypeInv, TypeOK
    <3>4. debits'[Tid(h)] + Pending(pc'[h]) + faults
              + (IF pc'[h] = "idle" /\ payments'[Tid(h)].status = "none" THEN 1 ELSE 0)
            <= debits[Tid(h)] + Pending(pc[h]) + faults'
      BY <1>2, <2>1, <2>3, <3>2, <3>3
    <3>5. faults <= faults'
      BY <1>2, <2>3
    <3>. QED
      BY <1>1, <2>1, <3>1, <3>2, <3>3, <3>4, <3>5, BusyStep
  <2>4. CASE /\ debits' = [debits EXCEPT ![Tid(h)] = @ + 1]
             /\ Fault /\ Retry(h, "reserve_read")
    <3>1. /\ Others(h)
          /\ \/ pc'[h] = "idle" /\ job'[h] = NoEvent
             \/ pc'[h] = "reserve_read" /\ pc'[h] # "idle" /\ job'[h] = job[h]
      BY <1>1, <2>4, RetryMoves DEF Steps
    <3>2. pc'[h] \notin AfterSave /\ faults' = faults + 1 /\ faults <= faults'
      BY <1>2, <2>4, <3>1 DEF AfterSave, Fault
    <3>3. /\ debits'[Tid(h)] = debits[Tid(h)] + 1
          /\ \A t \in TrackingIds \ {Tid(h)} : debits'[t] = debits[t]
      BY <1>1, <1>2, <2>4 DEF TypeInv, TypeOK
    <3>4. Pending(pc'[h]) + (IF pc'[h] = "idle" /\ payments'[Tid(h)].status = "none" THEN 1 ELSE 0) <= 1
      BY <3>1 DEF Pending
    <3>5. debits'[Tid(h)] + Pending(pc'[h]) + faults
              + (IF pc'[h] = "idle" /\ payments'[Tid(h)].status = "none" THEN 1 ELSE 0)
            <= debits[Tid(h)] + Pending(pc[h]) + faults'
      BY <1>2, <1>3, <2>1, <3>2, <3>3, <3>4
    <3>. QED
      BY <1>1, <2>1, <3>1, <3>2, <3>3, <3>5, BusyStep
  <2>. QED
    BY <1>10, <2>2, <2>3, <2>4 DEF ReserveWrite
<1>11. CASE Charge(h)
  <2>1. /\ Others(h) /\ pc[h] = "charge" /\ pc'[h] \in {"release_read", "save"}
        /\ job'[h] = job[h] /\ UNCHANGED <<debits, faults>>
    BY <1>1, <1>11 DEF Charge, Goto, Others, TypeInv, TypeOK, history
  <2>2. pc'[h] # "idle" /\ pc[h] \in AfterSave /\ Pending(pc'[h]) <= Pending(pc[h])
    BY <2>1 DEF Pending, AfterSave
  <2>. QED
    BY <1>5, <2>1, <2>2
<1>12. CASE ReleaseRead(h)
  <2>1. pc[h] = "release_read" /\ pc[h] \in AfterSave /\ UNCHANGED <<debits, faults>>
    BY <1>12 DEF ReleaseRead, AfterSave, history
  <2>2. CASE Raise(h)
    BY <1>6, <2>1, <2>2 DEF Raise
  <2>3. CASE ~Raise(h)
    <3>1. Others(h) /\ pc'[h] = "release_write" /\ job'[h] = job[h]
      BY <1>1, <1>12, <2>3 DEF ReleaseRead, Others, TypeInv, TypeOK
    <3>2. pc'[h] # "idle" /\ Pending(pc'[h]) <= Pending(pc[h])
      BY <2>1, <3>1 DEF Pending
    <3>. QED
      BY <1>5, <2>1, <3>1, <3>2
  <2>. QED
    BY <2>2, <2>3
<1>13. CASE ReleaseWrite(h)
  <2>1. pc[h] = "release_write" /\ pc[h] \in AfterSave /\ UNCHANGED debits
        /\ Pending(pc[h]) = 0 /\ Pending("release_read") = 0
    BY <1>13 DEF ReleaseWrite, NotCommitted, AfterSave, Pending, history
  <2>2. CASE Retry(h, "release_read")
    <3>1. faults' \in {faults, faults + 1}
      BY <1>13 DEF ReleaseWrite, NotCommitted, Fault
    <3>. QED
      BY <1>7, <2>1, <2>2, <3>1
  <2>3. CASE ~Retry(h, "release_read")
    <3>1. Goto(h, "save") /\ UNCHANGED <<job, faults>>
      BY <1>13, <2>3 DEF ReleaseWrite, NotCommitted
    <3>2. Others(h) /\ pc'[h] = "save" /\ job'[h] = job[h]
      BY <1>1, <3>1 DEF Goto, Others, TypeInv, TypeOK
    <3>3. pc'[h] # "idle" /\ Pending(pc'[h]) <= Pending(pc[h])
      BY <2>1, <3>2 DEF Pending
    <3>. QED
      BY <1>5, <2>1, <3>1, <3>2, <3>3
  <2>. QED
    BY <2>2, <2>3
<1>14. CASE Publish(h)
  <2>1. pc[h] = "publish" /\ pc[h] \in AfterSave /\ UNCHANGED debits /\ Leave(h)
        /\ faults' \in {faults, faults + 1}
    BY <1>14 DEF Publish, Return, Raise, Fault, AfterSave, history
  <2>. QED
    BY <1>6, <2>1
<1>. QED
  BY <1>8, <1>9, <1>10, <1>11, <1>12, <1>13, <1>14

\* Every step keeps the account.
LEMMA AccountNext == AccountInv /\ [Next]_vars => AccountInv'
<1>. SUFFICES ASSUME AccountInv, [Next]_vars PROVE AccountInv'
  OBVIOUS
<1>1. TypeInv'
  BY TypeNext DEF AccountInv
<1>2. CASE UNCHANGED vars \/ \E h \in Handlers : ReadIndex(h)
  <2>1. UNCHANGED <<payments, debits, gaveUp, crashes, pc, job, faults, overlaps>>
    BY <1>2 DEF ReadIndex, vars, store, local, history, env
  <2>. QED
    BY <1>1, <2>1, IdleAccounted
<1>3. ASSUME NEW d \in Configured, EnsureSeeded(d) PROVE AccountInv'
  <2>1. /\ UNCHANGED <<payments, debits, gaveUp, crashes, pc, job, overlaps>>
        /\ faults' \in {faults, faults + 1}
    BY <1>3 DEF EnsureSeeded, Fault, local, history, env
  <2>. QED
    BY <1>1, <2>1, IdleAccounted
<1>4. ASSUME NEW h \in Handlers, NEW e \in Events, Ignore(h, e) PROVE AccountInv'
  <2>1. /\ UNCHANGED <<payments, debits, gaveUp, crashes, pc, job, faults>>
        /\ overlaps' \in {overlaps, overlaps + 1}
    BY <1>4 DEF Ignore, Receive, store, local, history
  <2>. QED
    BY <1>1, <2>1, IdleAccounted
<1>5. ASSUME NEW h \in Handlers, HandlerStep(h) \/ CallFails(h), ~ReadIndex(h) PROVE AccountInv'
  BY <1>1, <1>5, SaveAccounted, HandlerAccounted DEF HandlerStep
<1>. QED
  BY <1>1, <1>2, <1>3, <1>4, <1>5, StartAccounted, CrashAccounted DEF Next

\* However often calls fail, the process dies and deliveries overlap, and in whatever
\* order, each of them makes reserve() take a payment's amount at most once too often,
\* as long as no save() has run out of attempts.
THEOREM ReservesAlwaysAccounted == Spec => []ReservesAreAccounted
<1>1. AccountInv => ReservesAreAccounted
  <2>. SUFFICES ASSUME AccountInv, ~gaveUp, NEW t \in TrackingIds
                PROVE  debits[t] <= 1 + faults + crashes + overlaps
    BY DEF ReservesAreAccounted
  <2> DEFINE n == Cardinality(Reserving(t))
             u == Unclaimed(t)
  <2>1. /\ n \in Nat /\ u \in {0, 1}
        /\ debits[t] \in Nat /\ faults \in Nat /\ crashes \in Nat /\ overlaps \in Nat
        /\ debits[t] + n + u <= 1 + faults + crashes + overlaps
    BY Counts, FS_CardinalityType DEF AccountInv, Covered
  <2> HIDE DEF n, u
  <2>. QED
    BY <2>1
<1>. QED
  BY <1>1, AccountInit, AccountNext, PTL DEF Spec
=============================================================================
