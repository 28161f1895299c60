---------------------------- MODULE SearchProofs ----------------------------
(***************************************************************************)
(* What the mechanism of dispatch achieves as long as nothing fails, proved *)
(* for any orders, drivers, processes and bounds: the accept lock admits    *)
(* one acceptance of an order at a time, and no search is dropped by the    *)
(* last process that carries it.                                            *)
(***************************************************************************)
EXTENDS DispatchProofs, FiniteSetTheorems

-----------------------------------------------------------------------------
(* How a job changes, field by field.                                       *)

Others(p) == \A q \in Proc \ {p} : job'[q] = job[q]

\* The job of p is the only one written.
LEMMA Written ==
    ASSUME TypeInv, NEW p \in Proc, NEW j, job' = [job EXCEPT ![p] = j]
    PROVE  Others(p) /\ job'[p] = j
  BY DEF TypeInv, TypeOK, Others

\* A process that starts a job.
LEMMA StartAt ==
    ASSUME TypeInv, NEW p \in Proc, NEW pc, NEW o, NEW d, NEW t, NEW S,
           Start(p, pc, o, d, t, S)
    PROVE  /\ Others(p) /\ job'[p].pc = pc /\ job'[p].order = o
           /\ job'[p].task = t /\ job'[p].driver = d
  <1>1. job' = [job EXCEPT ![p] = NewJob(pc, o, d, t, S)]
    BY DEF Start
  <1>2. Others(p) /\ job'[p] = NewJob(pc, o, d, t, S)
    BY <1>1, Written
  <1>. QED  BY <1>2 DEF NewJob

\* One that moves on.
LEMMA GotoAt ==
    ASSUME TypeInv, NEW p \in Proc, NEW pc, Goto(p, pc)
    PROVE  /\ Others(p) /\ job'[p].pc = pc /\ job'[p].order = job[p].order
           /\ job'[p].task = job[p].task
  <1>1. job[p] \in Job
    BY DEF TypeInv, TypeOK
  <1>2. job' = [job EXCEPT ![p] = [job[p] EXCEPT !.pc = pc]]
    BY DEF Goto
  <1>3. Others(p) /\ job'[p] = [job[p] EXCEPT !.pc = pc]
    BY <1>2, Written
  <1>. QED  BY <1>1, <1>3 DEF Job

\* One that returns.
LEMMA DoneAt ==
    ASSUME TypeInv, NEW p \in Proc, Done(p)
    PROVE  Others(p) /\ job'[p].pc = "idle"
  <1>1. job' = [job EXCEPT ![p] = Rest]
    BY DEF Done
  <1>2. Others(p) /\ job'[p] = Rest
    BY <1>1, Written
  <1>. QED  BY <1>2 DEF Rest, NewJob

\* One that fails.
LEMMA ErrorAt ==
    ASSUME TypeInv, NEW p \in Proc, Error(p)
    PROVE  Others(p) /\ job'[p].pc \in {"idle", "stopped"}
  <1>1. job' = [job EXCEPT ![p] = AfterError(p)]
    BY DEF Error
  <1>2. AfterError(p).pc \in {"idle", "stopped"}
    BY DEF AfterError, Rest, NewJob
  <1>. QED  BY <1>1, <1>2, Written

\* One that saves an offer.
LEMMA SaveOfferAt ==
    ASSUME TypeInv, NEW p \in Proc, NEW d, SaveOffer(p, d)
    PROVE  /\ Others(p) /\ job'[p].pc \in {"offer", "schedule"}
           /\ job'[p].order = job[p].order /\ job'[p].task = job[p].task
  <1>. DEFINE rest == job[p].todo \ {d}
              j == [job[p] EXCEPT !.todo = rest,
                                  !.pc = IF rest = {} THEN "schedule" ELSE "offer"]
  <1>1. job \in [Proc -> Job] /\ job[p] \in Job
    BY DEF TypeInv, TypeOK
  <1>2. job' = [job EXCEPT ![p] = j]
    BY <1>1 DEF SaveOffer
  <1>3. Others(p) /\ job'[p] = j
    BY <1>2, Written
  <1>. QED  BY <1>1, <1>3 DEF Job

-----------------------------------------------------------------------------
(* The accept lock.                                                         *)

\* Inside the section it protects.
Inside == {"assign", "arm", "busy"}

\* Whoever is inside holds the lock of the order.
Guarded == faults = 0 => \A p \in Handlers :
               job[p].pc \in Inside => lock[job[p].order] = p

LockInv == TypeInv /\ Guarded

\* A process that is not inside afterwards may release its own locks.
LEMMA LeavesGuarded ==
    ASSUME LockInv, NEW p \in Proc, Others(p), job'[p].pc \notin Inside,
           lock' \in {lock, Unlocked({p})}, UNCHANGED faults
    PROVE  Guarded'
  <1>. SUFFICES ASSUME faults = 0, NEW q \in Handlers, job'[q].pc \in Inside
                PROVE  lock'[job'[q].order] = q
    BY DEF Guarded
  <1>1. q # p /\ q \in Proc
    BY DEF Proc
  <1>2. job'[q] = job[q]
    BY <1>1 DEF Others
  <1>3. lock[job[q].order] = q
    BY <1>2 DEF LockInv, Guarded
  <1>4. job[q].order \in Order
    BY <1>1, <1>2, JobReady DEF LockInv, Inside, Idle, At
  <1>. QED  BY <1>1, <1>2, <1>3, <1>4 DEF Unlocked

\* The steps of an acceptance.
LEMMA AcceptGuarded ==
    ASSUME LockInv, NEW p \in Proc,
           \/ \E o \in Order : \E d \in Driver : AcceptOffer(p, o, d)
           \/ Assign(p) \/ ArmConfirmation(p) \/ MarkDriverBusy(p)
    PROVE  Guarded'
  <1>1. TypeInv
    BY DEF LockInv
  <1>2. ASSUME NEW o \in Order, NEW d \in Driver, AcceptOffer(p, o, d)
        PROVE  Guarded'
    <2>1. Others(p) /\ job'[p].order = o
      BY <1>1, <1>2, StartAt DEF AcceptOffer
    <2>2. lock[o] = NoProc /\ lock' = [lock EXCEPT ![o] = p] /\ lock \in [Order -> Proc \union {NoProc}]
      BY <1>1, <1>2 DEF AcceptOffer, Acquirable, TypeInv, TypeOK
    <2>. SUFFICES ASSUME faults = 0, NEW q \in Handlers, job'[q].pc \in Inside
                  PROVE  lock'[job'[q].order] = q
      BY <1>2 DEF Guarded, AcceptOffer
    <2>3. CASE q = p
      BY <2>1, <2>2, <2>3
    <2>4. CASE q # p
      <3>1. q \in Proc /\ job'[q] = job[q]
        BY <2>1, <2>4 DEF Others, Proc
      <3>2. job[q].order \in Order /\ lock[job[q].order] = q
        BY <1>1, <3>1, JobReady DEF LockInv, Guarded, Inside, Idle, At
      <3>3. job[q].order # o
        BY <2>2, <3>1, <3>2, ProcAssumption
      <3>. QED  BY <2>2, <3>1, <3>2, <3>3
    <2>. QED  BY <2>3, <2>4
  <1>3. ASSUME job[p].pc \in Inside, Others(p), job'[p].order = job[p].order,
               UNCHANGED <<lock, faults>>
        PROVE  Guarded'
    <2>. SUFFICES ASSUME faults = 0, NEW q \in Handlers, job'[q].pc \in Inside
                  PROVE  lock[job'[q].order] = q
      BY <1>3 DEF Guarded
    <2>. QED  BY <1>3 DEF LockInv, Guarded, Others, Proc
  <1>4. CASE Assign(p)
    <2>1. CASE UNCHANGED lock
      <3>1. \E d, t : \/ Start(p, "busy", job[p].order, d, t, {})
                      \/ Start(p, "arm", job[p].order, d, t, {})
                      \/ Error(p)
        BY <1>4 DEF Assign
      <3>2. CASE Error(p)
        BY <1>1, <1>4, <2>1, <3>2, ErrorAt, LeavesGuarded DEF Assign, Inside
      <3>3. ASSUME NEW d, NEW t, \/ Start(p, "busy", job[p].order, d, t, {})
                                 \/ Start(p, "arm", job[p].order, d, t, {})
            PROVE  Guarded'
        <4>1. Others(p) /\ job'[p].order = job[p].order
          BY <1>1, <3>3, StartAt
        <4>. QED  BY <1>3, <1>4, <2>1, <4>1 DEF Assign, At, Inside
      <3>. QED  BY <3>1, <3>2, <3>3
    <2>2. CASE lock' = Unlocked({p}) /\ Error(p)
      BY <1>1, <1>4, <2>2, ErrorAt, LeavesGuarded DEF Assign, Inside
    <2>. QED  BY <1>4, <2>1, <2>2 DEF Assign
  <1>5. CASE ArmConfirmation(p)
    <2>1. Others(p) /\ job'[p].order = job[p].order
      BY <1>1, <1>5, StartAt DEF ArmConfirmation
    <2>. QED  BY <1>3, <1>5, <2>1 DEF ArmConfirmation, At, Inside
  <1>6. CASE MarkDriverBusy(p)
    <2>1. /\ Others(p) /\ job'[p].pc \notin Inside
          /\ lock' \in {lock, Unlocked({p})} /\ UNCHANGED faults
      <3>1. \/ Start(p, "clear", job[p].order, NoDriver, NoTask, {}) /\ UNCHANGED lock
            \/ Error(p) /\ lock' = Unlocked({p})
        BY <1>6 DEF MarkDriverBusy
      <3>. QED  BY <1>1, <1>6, <3>1, StartAt, ErrorAt DEF MarkDriverBusy, Inside
    <2>. QED  BY <2>1, LeavesGuarded
  <1>. QED  BY <1>2, <1>4, <1>5, <1>6

\* The other steps of a process do not lead inside.
LEMMA OtherGuarded ==
    ASSUME LockInv, NEW p \in Proc,
           \/ /\ Step(p)
              /\ ~ Assign(p) /\ ~ ArmConfirmation(p) /\ ~ MarkDriverBusy(p)
           \/ Consume(p) \/ TakeTimeout(p) \/ Recover(p)
           \/ \E o \in Order : Submit(p, o) \/ DeclineOrderPrice(p, o) \/ CancelByPark(p, o)
    PROVE  Guarded'
  <1>1. TypeInv
    BY DEF LockInv
  <1>2. lock' \in {lock, Unlocked({p})} /\ UNCHANGED faults
    BY DEF Step, BeginDispatch, MarkSearching, Publish, Search, SaveOffer, Schedule,
           FailNoDriversFound, FinishDispatch, Sweep, ClearOffers, Release,
           RebeginDispatch, Republish, Consume, TakeTimeout, TakeOfferTimeout,
           TakeConfirmationTimeout, Recover, RecoverSearch, RecoverExpired, Submit,
           DeclineOrderPrice, CancelByPark, redis
  <1>3. \/ UNCHANGED <<job, lock>>
        \/ Others(p) /\ job'[p].pc \notin Inside
    <2>1. CASE \/ BeginDispatch(p) \/ MarkSearching(p) \/ Publish(p) \/ Search(p)
      BY <1>1, <2>1, StartAt, GotoAt, DoneAt, ErrorAt
         DEF BeginDispatch, MarkSearching, Publish, Search, Inside
    <2>2. ASSUME NEW d \in Driver, SaveOffer(p, d)
          PROVE  Others(p) /\ job'[p].pc \notin Inside
      BY <1>1, <2>2 DEF SaveOffer, Inside, Others, TypeInv, TypeOK, Job
    <2>3. CASE Schedule(p) \/ FailNoDriversFound(p) \/ FinishDispatch(p) \/ Sweep(p)
      BY <1>1, <2>3, StartAt, GotoAt, DoneAt, ErrorAt
         DEF Schedule, FailNoDriversFound, FinishDispatch, Sweep, Inside
    <2>4. CASE ClearOffers(p) \/ Release(p) \/ RebeginDispatch(p) \/ Republish(p)
      BY <1>1, <2>4, StartAt, GotoAt, DoneAt, ErrorAt
         DEF ClearOffers, Release, RebeginDispatch, Republish, Inside
    <2>5. CASE Consume(p) \/ TakeTimeout(p) \/ Recover(p)
      BY <1>1, <2>5, StartAt, DoneAt
         DEF Consume, TakeTimeout, TakeOfferTimeout, TakeConfirmationTimeout, Recover,
             RecoverSearch, RecoverExpired, Inside
    <2>6. CASE \E o \in Order : Submit(p, o) \/ DeclineOrderPrice(p, o) \/ CancelByPark(p, o)
      BY <1>1, <2>6, StartAt DEF Submit, DeclineOrderPrice, CancelByPark, Inside
    <2>. QED  BY <2>1, <2>2, <2>3, <2>4, <2>5, <2>6 DEF Step
  <1>4. CASE UNCHANGED <<job, lock>>
    BY <1>2, <1>4 DEF LockInv, Guarded
  <1>. QED  BY <1>2, <1>3, <1>4, LeavesGuarded

\* Nor do the requests, drivers, TTLs and faults that no process waits for; a lock
\* that runs out under its holder is a fault.
LEMMA EnvironmentGuarded ==
    ASSUME LockInv,
           \/ \E o \in Order : ShortRequest(o) \/ Expiry(o)
           \/ \E d \in Driver : Presence(d)
           \/ \E p \in Proc : IOError(p)
           \/ \E P \in Instances : Crash(P)
    PROVE  Guarded'
  <1>1. CASE UNCHANGED <<job, lock, faults>>
    BY <1>1 DEF LockInv, Guarded
  <1>2. ASSUME NEW kind, Fault(kind)
        PROVE  Guarded'
    BY <1>2 DEF Fault, Guarded, LockInv, TypeInv, TypeOK
  <1>3. ASSUME NEW o \in Order, ExpireDispatching(o)
        PROVE  Guarded'
    BY <1>1, <1>2, <1>3 DEF ExpireDispatching
  <1>4. ASSUME NEW o \in Order, ExpireLock(o), UNCHANGED faults, job[lock[o]].order # o
        PROVE  Guarded'
    <2>. SUFFICES ASSUME faults = 0, NEW q \in Handlers, job[q].pc \in Inside
                  PROVE  lock'[job[q].order] = q
      BY <1>4 DEF Guarded, ExpireLock
    <2>1. lock[job[q].order] = q
      BY DEF LockInv, Guarded
    <2>. QED  BY <1>4, <2>1 DEF ExpireLock, LockInv, TypeInv, TypeOK
  <1>5. ASSUME NEW o \in Order, ExpireLock(o)
        PROVE  Guarded'
    BY <1>2, <1>4, <1>5 DEF ExpireLock
  <1>6. ASSUME NEW o \in Order, ShortRequest(o) \/ Expiry(o)
        PROVE  Guarded'
    BY <1>1, <1>3, <1>5, <1>6
       DEF ShortRequest, Expiry, ConfirmOrderPrice, CancelByPassenger, RejectOffer,
           MoveByDriver, Lapse, ExpireIndex, ExpireOffer, redis
  <1>7. ASSUME NEW d \in Driver, Presence(d)
        PROVE  Guarded'
    BY <1>1, <1>7 DEF Presence, GoOnline, GoOffline, GoStale, redis
  <1>8. ASSUME \/ \E p \in Proc : IOError(p)
               \/ \E P \in Instances : Crash(P)
        PROVE  Guarded'
    BY <1>2, <1>8 DEF IOError, Crash
  <1>. QED  BY <1>6, <1>7, <1>8

\* LockInv is inductive.
LEMMA LockStep == LockInv /\ [Next]_vars => LockInv'
  <1>. SUFFICES ASSUME LockInv, [Next]_vars PROVE LockInv'
    OBVIOUS
  <1>1. TypeInv'
    BY TypeStep DEF LockInv
  <1>2. CASE UNCHANGED vars
    BY <1>1, <1>2 DEF vars, LockInv, Guarded
  <1>3. ASSUME NEW p \in Proc, Step(p) \/ Request(p) \/ Consume(p) \/ TakeTimeout(p) \/ Recover(p)
        PROVE  Guarded'
    BY <1>3, AcceptGuarded, OtherGuarded DEF Request
  <1>. QED  BY <1>1, <1>2, <1>3, EnvironmentGuarded DEF Next, LockInv

\* Acceptances of an order are serialised by its lock: a process inside holds it,
\* so two processes inside are one, unless the lock has run out under its holder
\* or an instance has died.
THEOREM LocksSerialise == Spec => []AcceptancesSerialised
  <1>1. Init => LockInv
    BY TypeInit DEF Init, LockInv, Guarded, Rest, NewJob, Inside, Proc
  <1>2. LockInv => AcceptancesSerialised
    <2>. SUFFICES ASSUME LockInv, faults = 0, NEW o \in Order
                  PROVE  Cardinality(Accepting(o)) <= 1
      BY DEF AcceptancesSerialised
    <2>1. Accepting(o) \in SUBSET {lock[o]}
      BY DEF Accepting, LockInv, Guarded, Inside
    <2>2. IsFiniteSet({lock[o]}) /\ Cardinality({lock[o]}) = 1
      BY FS_Singleton
    <2>. QED  BY <2>1, <2>2, FS_Subset
  <1>. QED  BY LockStep, <1>1, <1>2, PTL DEF Spec

-----------------------------------------------------------------------------
(* The tasks.  What carries a search of an order carries a task of that     *)
(* order with an attempt from 0; the tasks of a reservation are its timer.  *)

Straight(j) ==
    /\ j.pc \in {"publish", "search", "offer", "schedule", "sweep"} =>
           j.task.order = j.order /\ j.task.attempt \in Nat
    /\ j.pc = "arm" => Confirmation(j.task)
    /\ j.pc \in {"release", "rebegin", "republish"} =>
           j.task = NoTask \/ Confirmation(j.task)

JobsStraight == \A p \in Proc : Straight(job[p])

QueueStraight == \A i \in DOMAIN queue : queue[i].attempt \in Nat

TimersStraight == \A t \in timeouts : t.attempt \in Nat \/ Confirmation(t)

TaskInv == TypeInv /\ JobsStraight /\ QueueStraight /\ TimersStraight

\* One job is written, and straight.
LEMMA StraightStep ==
    ASSUME TaskInv, NEW p \in Proc, Others(p), Straight(job'[p])
    PROVE  JobsStraight'
  BY DEF TaskInv, JobsStraight, Others, Straight, Confirmation

\* A process that returns is straight.
LEMMA IdleStraight ==
    ASSUME TaskInv, NEW p \in Proc, Others(p),
           job'[p].pc \in {"idle", "stopped", "begin", "mark", "fail", "finish",
                           "assign", "busy", "clear"}
    PROVE  JobsStraight'
  BY StraightStep DEF Straight

\* The steps that begin a dispatch.
LEMMA BeginStraight ==
    ASSUME TaskInv, NEW p \in Proc,
           \/ \E o \in Order : Submit(p, o) \/ RecoverSearch(p, o)
           \/ BeginDispatch(p) \/ MarkSearching(p) \/ Publish(p)
    PROVE  JobsStraight' /\ QueueStraight' /\ TimersStraight'
  <1>1. TypeInv /\ queue \in Seq(Task)
    BY DEF TaskInv, TypeInv, TypeOK
  <1>2. ASSUME NEW o \in Order, Submit(p, o) \/ RecoverSearch(p, o)
        PROVE  JobsStraight' /\ UNCHANGED <<queue, timeouts>>
    <2>1. Others(p) /\ job'[p].pc = "begin"
      BY <1>1, <1>2, StartAt DEF Submit, RecoverSearch
    <2>. QED  BY <1>2, <2>1, IdleStraight DEF Submit, RecoverSearch, redis
  <1>3. CASE BeginDispatch(p)
    <2>1. Others(p) /\ job'[p].pc \in {"idle", "mark"}
      BY <1>1, <1>3, GotoAt, DoneAt DEF BeginDispatch
    <2>2. JobsStraight' /\ UNCHANGED <<queue, timeouts>>
      BY <1>3, <2>1, IdleStraight DEF BeginDispatch
    <2>. QED  BY <2>2 DEF TaskInv, QueueStraight, TimersStraight
  <1>4. CASE MarkSearching(p)
    <2>. DEFINE o == job[p].order
                t == NewTask(o, chains[o] + 1, 0, {})
    <2>1. Error(p) => JobsStraight'
      BY <1>1, ErrorAt, IdleStraight
    <2>2. ASSUME Start(p, "publish", o, NoDriver, t, {})
          PROVE  JobsStraight'
      <3>1. Others(p) /\ job'[p].pc = "publish" /\ job'[p].order = o /\ job'[p].task = t
        BY <1>1, <2>2, StartAt
      <3>2. t.order = o /\ t.attempt = 0
        BY DEF NewTask
      <3>. HIDE DEF t
      <3>3. Straight(job'[p])
        BY <3>1, <3>2 DEF Straight
      <3>. QED  BY <3>1, <3>3, StraightStep
    <2>3. JobsStraight' /\ UNCHANGED <<queue, timeouts>>
      BY <1>4, <2>1, <2>2 DEF MarkSearching, redis
    <2>. QED  BY <2>3 DEF TaskInv, QueueStraight, TimersStraight
  <1>5. CASE Publish(p)
    <2>1. Others(p) /\ job'[p].pc = "idle"
      BY <1>1, <1>5, DoneAt DEF Publish
    <2>2. job[p].task \in Task /\ job[p].task.attempt \in Nat
      BY <1>1, <1>5, JobReady DEF Publish, At, NeedsTask, TaskInv, JobsStraight, Straight
    <2>3. QueueStraight'
      BY <1>1, <1>5, <2>2 DEF Publish, TaskInv, QueueStraight
    <2>. QED  BY <1>5, <2>1, <2>3, IdleStraight DEF Publish, TaskInv, TimersStraight
  <1>. QED  BY <1>2, <1>3, <1>4, <1>5 DEF TaskInv, QueueStraight, TimersStraight

\* Processing a task.
LEMMA ProcessStraight ==
    ASSUME TaskInv, NEW p \in Proc,
           \/ Consume(p) \/ Search(p) \/ Schedule(p)
           \/ \E d \in Driver : SaveOffer(p, d)
    PROVE  JobsStraight' /\ QueueStraight' /\ TimersStraight'
  <1>1. TypeInv /\ queue \in Seq(Task)
    BY DEF TaskInv, TypeInv, TypeOK
  <1>2. CASE Consume(p)
    <2>. DEFINE t == Head(queue)
                read == [t EXCEPT !.exclude = @ \union DeclinedDrivers(ord[t.order])]
    <2>1. queue # << >> /\ queue' = Tail(queue) /\ UNCHANGED timeouts
      BY <1>2 DEF Consume
    <2>2. t \in Task /\ t.attempt \in Nat
      BY <1>1, <2>1 DEF TaskInv, QueueStraight
    <2>3. QueueStraight'
      <3>1. \A i \in DOMAIN Tail(queue) : i + 1 \in DOMAIN queue /\ Tail(queue)[i] = queue[i + 1]
        BY <1>1, <2>1
      <3>. QED  BY <2>1, <3>1 DEF TaskInv, QueueStraight
    <2>4. read.order = t.order /\ read.attempt = t.attempt
      BY <2>2 DEF Task
    <2>5. JobsStraight'
      <3>1. Start(p, "search", t.order, NoDriver, read, {}) \/ Done(p)
        BY <1>2 DEF Consume
      <3>2. CASE Done(p)
        BY <1>1, <3>2, DoneAt, IdleStraight
      <3>3. CASE Start(p, "search", t.order, NoDriver, read, {})
        <4>1. /\ Others(p) /\ job'[p].pc = "search"
              /\ job'[p].order = t.order /\ job'[p].task = read
          BY <1>1, <3>3, StartAt
        <4>. HIDE DEF t, read
        <4>2. Straight(job'[p])
          BY <2>2, <2>4, <4>1 DEF Straight
        <4>. QED  BY <4>1, <4>2, StraightStep
      <3>. QED  BY <3>1, <3>2, <3>3
    <2>. QED  BY <2>1, <2>3, <2>5 DEF TaskInv, TimersStraight
  <1>3. CASE Search(p)
    <2>1. /\ job[p].task.order = job[p].order /\ job[p].task.attempt \in Nat
      BY <1>3 DEF Search, At, TaskInv, JobsStraight, Straight
    <2>2. \/ \E found : Start(p, "offer", job[p].task.order, NoDriver, job[p].task, found)
          \/ Goto(p, "schedule") \/ Goto(p, "fail")
      BY <1>3 DEF Search
    <2>3. ASSUME NEW found,
                 Start(p, "offer", job[p].task.order, NoDriver, job[p].task, found)
          PROVE  Others(p) /\ Straight(job'[p])
      <3>1. /\ Others(p) /\ job'[p].pc = "offer"
            /\ job'[p].order = job[p].task.order /\ job'[p].task = job[p].task
        BY <1>1, <2>3, StartAt
      <3>. QED  BY <2>1, <3>1 DEF Straight
    <2>4. ASSUME Goto(p, "schedule") \/ Goto(p, "fail")
          PROVE  Others(p) /\ Straight(job'[p])
      BY <1>1, <2>1, <2>4, GotoAt DEF Straight
    <2>5. JobsStraight' /\ UNCHANGED <<queue, timeouts>>
      BY <1>3, <2>2, <2>3, <2>4, StraightStep DEF Search, redis
    <2>. QED  BY <2>5 DEF TaskInv, QueueStraight, TimersStraight
  <1>4. ASSUME NEW d \in Driver, SaveOffer(p, d)
        PROVE  JobsStraight' /\ UNCHANGED <<queue, timeouts>>
    <2>1. /\ Others(p) /\ job'[p].pc \in {"offer", "schedule"}
          /\ job'[p].order = job[p].order /\ job'[p].task = job[p].task
      BY <1>1, <1>4, SaveOfferAt
    <2>2. job[p].task.order = job[p].order /\ job[p].task.attempt \in Nat
      BY <1>4 DEF SaveOffer, At, TaskInv, JobsStraight, Straight
    <2>3. Straight(job'[p])
      BY <2>1, <2>2 DEF Straight
    <2>. QED  BY <1>4, <2>1, <2>3, StraightStep DEF SaveOffer
  <1>5. CASE Schedule(p)
    <2>1. Others(p) /\ job'[p].pc = "idle"
      BY <1>1, <1>5, DoneAt DEF Schedule
    <2>2. job[p].task.attempt \in Nat
      BY <1>5 DEF Schedule, At, TaskInv, JobsStraight, Straight
    <2>3. TimersStraight'
      BY <1>5, <2>2 DEF Schedule, TaskInv, TimersStraight
    <2>. QED  BY <1>5, <2>1, <2>3, IdleStraight DEF Schedule, TaskInv, QueueStraight
  <1>. QED  BY <1>2, <1>3, <1>4, <1>5 DEF TaskInv, QueueStraight, TimersStraight

\* The end of a search.
LEMMA EndStraight ==
    ASSUME TaskInv, NEW p \in Proc,
           \/ FailNoDriversFound(p) \/ FinishDispatch(p) \/ Sweep(p) \/ ClearOffers(p)
           \/ \E t \in timeouts : TakeOfferTimeout(p, t)
           \/ \E o \in Order : CancelByPark(p, o)
    PROVE  JobsStraight' /\ QueueStraight' /\ TimersStraight'
  <1>1. TypeInv /\ queue \in Seq(Task)
    BY DEF TaskInv, TypeInv, TypeOK
  <1>2. CASE FailNoDriversFound(p) \/ FinishDispatch(p) \/ ClearOffers(p)
    <2>1. Others(p) /\ job'[p].pc \in {"idle", "stopped", "finish"}
      BY <1>1, <1>2, GotoAt, DoneAt, ErrorAt
         DEF FailNoDriversFound, FinishDispatch, ClearOffers
    <2>2. JobsStraight' /\ UNCHANGED <<queue, timeouts>>
      BY <1>2, <2>1, IdleStraight
         DEF FailNoDriversFound, FinishDispatch, ClearOffers, redis
    <2>. QED  BY <2>2 DEF TaskInv, QueueStraight, TimersStraight
  <1>3. ASSUME NEW o \in Order, CancelByPark(p, o)
        PROVE  JobsStraight' /\ UNCHANGED <<queue, timeouts>>
    <2>1. Others(p) /\ job'[p].pc = "clear"
      BY <1>1, <1>3, StartAt DEF CancelByPark
    <2>. QED  BY <1>3, <2>1, IdleStraight DEF CancelByPark, redis
  <1>4. CASE Sweep(p)
    <2>. DEFINE t == job[p].task
                next == NextTask(t, job[p].todo)
    <2>1. t \in Task /\ t.attempt \in Nat
      BY <1>1, <1>4, JobReady DEF Sweep, At, NeedsTask, TaskInv, JobsStraight, Straight
    <2>2. next.order = t.order /\ next.attempt \in Nat
      BY <2>1 DEF NextTask, Task
    <2>3. JobsStraight'
      <3>1. Goto(p, "fail") \/ Start(p, "publish", t.order, NoDriver, next, {})
        BY <1>4 DEF Sweep
      <3>2. CASE Goto(p, "fail")
        BY <1>1, <3>2, GotoAt, IdleStraight
      <3>3. CASE Start(p, "publish", t.order, NoDriver, next, {})
        <4>1. /\ Others(p) /\ job'[p].pc = "publish"
              /\ job'[p].order = t.order /\ job'[p].task = next
          BY <1>1, <3>3, StartAt
        <4>. HIDE DEF next
        <4>2. Straight(job'[p])
          BY <2>2, <4>1 DEF Straight
        <4>. QED  BY <4>1, <4>2, StraightStep
      <3>. QED  BY <3>1, <3>2, <3>3
    <2>. QED  BY <1>4, <2>3 DEF Sweep, TaskInv, QueueStraight, TimersStraight
  <1>5. ASSUME NEW t \in timeouts, TakeOfferTimeout(p, t)
        PROVE  JobsStraight' /\ UNCHANGED queue /\ TimersStraight'
    <2>1. t.attempt \in Nat
      BY <1>5 DEF TakeOfferTimeout, TaskInv, TimersStraight
    <2>2. JobsStraight'
      <3>1. CASE Start(p, "sweep", t.order, NoDriver, t, index[t.order])
        <4>1. /\ Others(p) /\ job'[p].pc = "sweep"
              /\ job'[p].order = t.order /\ job'[p].task = t
          BY <1>1, <3>1, StartAt
        <4>2. Straight(job'[p])
          BY <2>1, <4>1 DEF Straight
        <4>. QED  BY <4>1, <4>2, StraightStep
      <3>2. CASE UNCHANGED job
        BY <3>2 DEF TaskInv, JobsStraight, Straight
      <3>. QED  BY <1>5, <3>1, <3>2 DEF TakeOfferTimeout
    <2>. QED  BY <1>5, <2>2 DEF TakeOfferTimeout, TaskInv, TimersStraight
  <1>. QED  BY <1>2, <1>3, <1>4, <1>5 DEF TaskInv, QueueStraight, TimersStraight

\* An acceptance.
LEMMA AcceptStraight ==
    ASSUME TaskInv, NEW p \in Proc,
           \/ \E o \in Order : \E d \in Driver : AcceptOffer(p, o, d)
           \/ Assign(p) \/ ArmConfirmation(p) \/ MarkDriverBusy(p)
    PROVE  JobsStraight' /\ QueueStraight' /\ TimersStraight'
  <1>1. TypeInv
    BY DEF TaskInv
  <1>2. ASSUME NEW o \in Order, NEW d \in Driver, AcceptOffer(p, o, d)
        PROVE  JobsStraight' /\ UNCHANGED <<queue, timeouts>>
    <2>1. Others(p) /\ job'[p].pc = "assign"
      BY <1>1, <1>2, StartAt DEF AcceptOffer
    <2>. QED  BY <1>2, <2>1, IdleStraight DEF AcceptOffer
  <1>3. ASSUME Assign(p)
        PROVE  JobsStraight' /\ UNCHANGED <<queue, timeouts>>
    <2>. DEFINE o == job[p].order
                t == NewTask(o, Len(ord[o].declined), -1, {job[p].driver})
    <2>1. \/ Start(p, "busy", o, job[p].driver, NoTask, {})
          \/ Start(p, "arm", o, job[p].driver, t, {})
          \/ Error(p)
      BY <1>3 DEF Assign
    <2>2. Start(p, "busy", o, job[p].driver, NoTask, {}) => JobsStraight'
      BY <1>1, StartAt, IdleStraight
    <2>3. ASSUME Start(p, "arm", o, job[p].driver, t, {})
          PROVE  JobsStraight'
      <3>1. Others(p) /\ job'[p].pc = "arm" /\ job'[p].task = t
        BY <1>1, <2>3, StartAt
      <3>2. Confirmation(t)
        BY DEF NewTask, Confirmation
      <3>. HIDE DEF t
      <3>3. Straight(job'[p])
        BY <3>1, <3>2 DEF Straight
      <3>. QED  BY <3>1, <3>3, StraightStep
    <2>4. Error(p) => JobsStraight'
      BY <1>1, ErrorAt, IdleStraight
    <2>. QED  BY <1>3, <2>1, <2>2, <2>3, <2>4 DEF Assign
  <1>4. CASE ArmConfirmation(p)
    <2>1. Others(p) /\ job'[p].pc = "busy"
      BY <1>1, <1>4, StartAt DEF ArmConfirmation
    <2>2. Confirmation(job[p].task)
      BY <1>4 DEF ArmConfirmation, At, TaskInv, JobsStraight, Straight
    <2>. QED
      BY <1>4, <2>1, <2>2, IdleStraight
         DEF ArmConfirmation, TaskInv, QueueStraight, TimersStraight
  <1>5. ASSUME MarkDriverBusy(p)
        PROVE  JobsStraight' /\ UNCHANGED <<queue, timeouts>>
    <2>1. Others(p) /\ job'[p].pc \in {"idle", "stopped", "clear"}
      BY <1>1, <1>5, StartAt, ErrorAt DEF MarkDriverBusy
    <2>. QED  BY <1>5, <2>1, IdleStraight DEF MarkDriverBusy
  <1>. QED  BY <1>2, <1>3, <1>4, <1>5 DEF TaskInv, QueueStraight, TimersStraight

\* A reservation that is given back.
LEMMA PriceStraight ==
    ASSUME TaskInv, NEW p \in Proc,
           \/ \E o \in Order : DeclineOrderPrice(p, o) \/ RecoverExpired(p, o)
           \/ \E t \in timeouts : TakeConfirmationTimeout(p, t)
           \/ Release(p) \/ RebeginDispatch(p) \/ Republish(p)
    PROVE  JobsStraight' /\ QueueStraight' /\ TimersStraight'
  <1>1. TypeInv /\ queue \in Seq(Task)
    BY DEF TaskInv, TypeInv, TypeOK
  <1>2. ASSUME NEW o, NEW d, NEW t, Start(p, "release", o, d, t, {}),
               t = NoTask \/ Confirmation(t)
        PROVE  JobsStraight'
    <2>1. Others(p) /\ job'[p].pc = "release" /\ job'[p].task = t
      BY <1>1, <1>2, StartAt
    <2>2. Straight(job'[p])
      BY <1>2, <2>1 DEF Straight
    <2>. QED  BY <2>1, <2>2, StraightStep
  <1>3. ASSUME NEW o \in Order, DeclineOrderPrice(p, o) \/ RecoverExpired(p, o)
        PROVE  JobsStraight' /\ UNCHANGED <<queue, timeouts>>
    BY <1>2, <1>3 DEF DeclineOrderPrice, RecoverExpired, redis
  <1>4. ASSUME NEW t \in timeouts, TakeConfirmationTimeout(p, t)
        PROVE  JobsStraight' /\ UNCHANGED queue /\ timeouts' \subseteq timeouts
    <2>1. CASE UNCHANGED job
      BY <1>4, <2>1 DEF TakeConfirmationTimeout, TaskInv, JobsStraight, Straight
    <2>2. CASE Start(p, "release", t.order, ord[t.order].driver, t, {})
      BY <1>2, <1>4, <2>2 DEF TakeConfirmationTimeout
    <2>. QED  BY <1>4, <2>1, <2>2 DEF TakeConfirmationTimeout
  <1>5. ASSUME Release(p) \/ RebeginDispatch(p)
        PROVE  JobsStraight' /\ UNCHANGED <<queue, timeouts>>
    <2>1. job[p].task = NoTask \/ Confirmation(job[p].task)
      BY <1>5 DEF Release, RebeginDispatch, At, TaskInv, JobsStraight, Straight
    <2>2. Error(p) => JobsStraight'
      BY <1>1, ErrorAt, IdleStraight
    <2>3. ASSUME Goto(p, "rebegin") \/ Goto(p, "republish")
          PROVE  JobsStraight'
      <3>1. /\ Others(p) /\ job'[p].pc \in {"rebegin", "republish"}
            /\ job'[p].task = job[p].task
        BY <1>1, <2>3, GotoAt
      <3>2. Straight(job'[p])
        BY <2>1, <3>1 DEF Straight
      <3>. QED  BY <3>1, <3>2, StraightStep
    <2>. QED  BY <1>5, <2>2, <2>3 DEF Release, RebeginDispatch, redis
  <1>6. CASE Republish(p)
    <2>. DEFINE o == job[p].order
                t == NewTask(o, chains[o] + 1, 0, {job[p].driver})
    <2>1. Others(p) /\ job'[p].pc = "idle"
      BY <1>1, <1>6, DoneAt DEF Republish
    <2>2. queue' = Append(queue, t) /\ timeouts' \subseteq timeouts
      BY <1>6 DEF Republish
    <2>3. t.attempt = 0
      BY DEF NewTask
    <2>. HIDE DEF t
    <2>4. QueueStraight'
      BY <1>1, <2>2, <2>3 DEF TaskInv, QueueStraight
    <2>. QED  BY <2>1, <2>2, <2>4, IdleStraight DEF TaskInv, TimersStraight
  <1>. QED  BY <1>3, <1>4, <1>5, <1>6 DEF TaskInv, QueueStraight, TimersStraight

\* Whatever else happens writes no task, and no job but to end it.
LEMMA EnvironmentStraight ==
    ASSUME TaskInv,
           \/ \E o \in Order : ShortRequest(o) \/ Expiry(o)
           \/ \E d \in Driver : Presence(d)
           \/ \E p \in Proc : IOError(p)
           \/ \E P \in Instances : Crash(P)
    PROVE  JobsStraight' /\ QueueStraight' /\ TimersStraight'
  <1>1. TypeInv
    BY DEF TaskInv
  <1>2. ASSUME UNCHANGED <<job, queue, timeouts>>
        PROVE  JobsStraight' /\ QueueStraight' /\ TimersStraight'
    BY <1>2 DEF TaskInv, JobsStraight, Straight, QueueStraight, TimersStraight
  <1>3. ASSUME NEW o \in Order, ShortRequest(o) \/ Expiry(o)
        PROVE  UNCHANGED <<job, queue, timeouts>>
    BY <1>3
       DEF ShortRequest, Expiry, ConfirmOrderPrice, CancelByPassenger, RejectOffer,
           MoveByDriver, Lapse, ExpireIndex, ExpireOffer, ExpireDispatching, ExpireLock,
           redis
  <1>4. ASSUME NEW d \in Driver, Presence(d)
        PROVE  UNCHANGED <<job, queue, timeouts>>
    BY <1>4 DEF Presence, GoOnline, GoOffline, GoStale, redis
  <1>5. ASSUME NEW p \in Proc, IOError(p)
        PROVE  JobsStraight' /\ UNCHANGED <<queue, timeouts>>
    <2>1. Others(p) /\ job'[p].pc \in {"idle", "stopped"}
      BY <1>1, <1>5, GotoAt, ErrorAt DEF IOError
    <2>. QED  BY <1>5, <2>1, IdleStraight DEF IOError
  <1>6. ASSUME NEW P \in Instances, Crash(P)
        PROVE  JobsStraight' /\ UNCHANGED <<queue, timeouts>>
    <2>1. \A q \in Proc : job'[q] = Rest \/ job'[q] = job[q]
      BY <1>6 DEF Crash
    <2>2. Straight(Rest)
      BY DEF Straight, Rest, NewJob
    <2>3. ASSUME NEW q \in Proc
          PROVE  Straight(job'[q])
      BY <2>1, <2>2 DEF TaskInv, JobsStraight
    <2>. QED  BY <1>6, <2>3 DEF Crash, JobsStraight, Straight, Confirmation, redis
  <1>. QED
    BY <1>2, <1>3, <1>4, <1>5, <1>6 DEF TaskInv, QueueStraight, TimersStraight

\* TaskInv is inductive.
LEMMA TaskStep == TaskInv /\ [Next]_vars => TaskInv'
  <1>. SUFFICES ASSUME TaskInv, [Next]_vars PROVE TaskInv'
    OBVIOUS
  <1>1. TypeInv'
    BY TypeStep DEF TaskInv
  <1>2. CASE UNCHANGED vars
    BY <1>1, <1>2
       DEF vars, TaskInv, JobsStraight, Straight, QueueStraight, TimersStraight
  <1>3. ASSUME NEW p \in Proc, Step(p)
        PROVE  JobsStraight' /\ QueueStraight' /\ TimersStraight'
    BY <1>3, BeginStraight, ProcessStraight, EndStraight, AcceptStraight, PriceStraight
       DEF Step
  <1>4. ASSUME NEW p \in Proc, Request(p) \/ Consume(p) \/ TakeTimeout(p) \/ Recover(p)
        PROVE  JobsStraight' /\ QueueStraight' /\ TimersStraight'
    BY <1>4, BeginStraight, ProcessStraight, EndStraight, AcceptStraight, PriceStraight
       DEF Request, TakeTimeout, Recover
  <1>. QED  BY <1>1, <1>2, <1>3, <1>4, EnvironmentStraight DEF Next, TaskInv

-----------------------------------------------------------------------------
(* An order that is not there yet has no dispatch, so that the process that *)
(* inserts it finds no dispatching key and carries its search.              *)

Unstarted(o) ==
    /\ o \notin dispatching
    /\ \A p \in Proc : job[p].order = o => job[p].pc \notin {"begin", "rebegin"}

Fresh == \A o \in Order : ord[o].status = "absent" => Unstarted(o)

FreshInv == RowInv /\ Fresh

\* No statement takes an order away.
LEMMA AbsentBefore ==
    ASSUME TypeInv, [Next]_vars, NEW o \in Order, ord'[o].status = "absent"
    PROVE  ord[o].status = "absent"
  <1>1. ord \in [Order -> Row]
    BY DEF TypeInv, TypeOK
  <1>2. CASE OrderStep
    <2>1. PICK q \in Order, new \in Row :
              RowStep(q, new) /\ ord' = [ord EXCEPT ![q] = new]
      BY <1>2 DEF OrderStep
    <2>2. CASE q # o
      BY <1>1, <2>1, <2>2
    <2>3. CASE q = o
      <3>1. ord[o] \in Row /\ new.status = "absent"
        BY <1>1, <2>1, <2>3
      <3>2. \/ new = [ord[o] EXCEPT !.lapsed = TRUE]
            \/ new = ConfirmDriverPrice(ord[o])
        <4>1. \A to \in Asked \union {"cancelled"} : new # MoveOrder(ord[o], to)
          BY <3>1 DEF MoveOrder, Row, Asked, Underway
        <4>2. new # NewRow("searching") /\ new # MarkOrderSearching(ord[o])
          BY <3>1 DEF NewRow, MarkOrderSearching, Row
        <4>3. new # FailOrder(ord[o]) /\ new # ReleaseDriverReservation(ord[o])
          BY <3>1 DEF FailOrder, ReleaseDriverReservation, Row
        <4>4. \A d \in Driver : \A b \in BOOLEAN : new # AssignDriver(ord[o], d, b)
          BY <3>1 DEF AssignDriver, Row
        <4>. QED  BY <2>1, <2>3, <4>1, <4>2, <4>3, <4>4 DEF RowStep
      <3>. QED  BY <3>1, <3>2 DEF ConfirmDriverPrice, Row
    <2>. QED  BY <2>2, <2>3
  <1>. QED  BY <1>2, OrderSteps

\* A step that sets no dispatching key and does not lead p to where it would.
LEMMA StaysFresh ==
    ASSUME FreshInv, [Next]_vars, NEW p \in Proc, Others(p),
           job'[p].pc \notin {"begin", "rebegin"}, dispatching' \subseteq dispatching
    PROVE  Fresh'
  <1>. SUFFICES ASSUME NEW o \in Order, ord'[o].status = "absent"
                PROVE  Unstarted(o)'
    BY DEF Fresh
  <1>1. Unstarted(o)
    BY AbsentBefore DEF FreshInv, RowInv, Fresh
  <1>. QED  BY <1>1 DEF Unstarted, Others

\* A step that begins, or begins again, the dispatch of an order that is there.
LEMMA StartsFresh ==
    ASSUME FreshInv, [Next]_vars, NEW p \in Proc, Others(p), NEW o \in Order,
           ord'[o].status # "absent", job'[p].order = o,
           dispatching' \subseteq dispatching \union {o}
    PROVE  Fresh'
  <1>. SUFFICES ASSUME NEW q \in Order, ord'[q].status = "absent"
                PROVE  Unstarted(q)'
    BY DEF Fresh
  <1>1. Unstarted(q) /\ q # o
    BY AbsentBefore DEF FreshInv, RowInv, Fresh
  <1>. QED  BY <1>1 DEF Unstarted, Others

\* Nothing of the dispatch moves.
LEMMA RestsFresh ==
    ASSUME FreshInv, [Next]_vars, UNCHANGED job, dispatching' \subseteq dispatching
    PROVE  Fresh'
  <1>. SUFFICES ASSUME NEW o \in Order, ord'[o].status = "absent"
                PROVE  Unstarted(o)'
    BY DEF Fresh
  <1>1. Unstarted(o)
    BY AbsentBefore DEF FreshInv, RowInv, Fresh
  <1>. QED  BY <1>1 DEF Unstarted

\* The steps of a process.
LEMMA ProcessFresh ==
    ASSUME FreshInv, [Next]_vars, NEW p \in Proc, Step(p)
    PROVE  Fresh'
  <1>1. TypeInv /\ ord \in [Order -> Row]
    BY DEF FreshInv, RowInv, TypeInv, TypeOK
  <1>2. ASSUME Others(p) /\ job'[p].pc \notin {"begin", "rebegin"} /\ UNCHANGED dispatching
        PROVE  Fresh'
    BY <1>2, StaysFresh
  <1>3. CASE BeginDispatch(p)
    <2>. DEFINE o == job[p].order
    <2>1. o \in Order /\ ord[o].status # "absent" /\ UNCHANGED ord
      BY <1>1, <1>3, JobReady
         DEF BeginDispatch, Idle, At, FreshInv, Fresh, Unstarted, db
    <2>2. CASE Done(p) /\ UNCHANGED dispatching
      BY <1>1, <1>2, <2>2, DoneAt
    <2>3. CASE Goto(p, "mark") /\ dispatching' = dispatching \union {o}
      <3>1. Others(p) /\ job'[p].order = o
        BY <1>1, <2>3, GotoAt
      <3>. QED  BY <2>1, <2>3, <3>1, StartsFresh
    <2>. QED  BY <1>3, <2>2, <2>3 DEF BeginDispatch
  <1>4. CASE RebeginDispatch(p)
    <2>. DEFINE o == job[p].order
    <2>1. o \in Order /\ ord[o].status # "absent" /\ UNCHANGED ord
      BY <1>1, <1>4, JobReady
         DEF RebeginDispatch, Idle, At, FreshInv, Fresh, Unstarted, db
    <2>2. Others(p) /\ job'[p].order = o
      BY <1>1, <1>4, GotoAt DEF RebeginDispatch
    <2>. QED  BY <1>4, <2>1, <2>2, StartsFresh DEF RebeginDispatch
  <1>5. CASE Release(p)
    <2>. DEFINE o == job[p].order
    <2>1. o \in Order /\ UNCHANGED dispatching
      BY <1>1, <1>5, JobReady DEF Release, Idle, At, redis
    <2>2. CASE Error(p)
      BY <1>1, <1>2, <2>1, <2>2, ErrorAt
    <2>3. CASE Goto(p, "rebegin") /\ ord' = [ord EXCEPT ![o] = ReleaseDriverReservation(ord[o])]
      <3>1. Others(p) /\ job'[p].order = o
        BY <1>1, <2>3, GotoAt
      <3>2. ord'[o].status = "searching"
        BY <1>1, <2>1, <2>3 DEF ReleaseDriverReservation, Row
      <3>. QED  BY <2>1, <3>1, <3>2, StartsFresh
    <2>. QED  BY <1>5, <2>2, <2>3 DEF Release
  <1>6. CASE FinishDispatch(p)
    <2>1. Others(p) /\ job'[p].pc = "idle" /\ dispatching' \subseteq dispatching
      BY <1>1, <1>6, DoneAt DEF FinishDispatch
    <2>. QED  BY <2>1, StaysFresh
  <1>7. CASE MarkSearching(p) \/ Publish(p) \/ Search(p) \/ Schedule(p)
    BY <1>1, <1>2, <1>7, StartAt, GotoAt, DoneAt, ErrorAt
       DEF MarkSearching, Publish, Search, Schedule, redis
  <1>8. CASE FailNoDriversFound(p) \/ Sweep(p) \/ ClearOffers(p) \/ Republish(p)
    BY <1>1, <1>2, <1>8, StartAt, GotoAt, DoneAt, ErrorAt
       DEF FailNoDriversFound, Sweep, ClearOffers, Republish, redis
  <1>9. CASE Assign(p) \/ ArmConfirmation(p) \/ MarkDriverBusy(p)
    BY <1>1, <1>2, <1>9, StartAt, ErrorAt DEF Assign, ArmConfirmation, MarkDriverBusy
  <1>10. ASSUME NEW d \in Driver, SaveOffer(p, d)
         PROVE  Fresh'
    BY <1>1, <1>2, <1>10, SaveOfferAt DEF SaveOffer
  <1>. QED  BY <1>3, <1>4, <1>5, <1>6, <1>7, <1>8, <1>9, <1>10 DEF Step

\* What a process begins with.
LEMMA RequestFresh ==
    ASSUME FreshInv, [Next]_vars, NEW p \in Proc,
           Request(p) \/ Consume(p) \/ TakeTimeout(p) \/ Recover(p) \/ IOError(p)
    PROVE  Fresh'
  <1>1. TypeInv /\ ord \in [Order -> Row]
    BY DEF FreshInv, RowInv, TypeInv, TypeOK
  <1>2. UNCHANGED dispatching
    BY DEF Request, Submit, DeclineOrderPrice, CancelByPark, AcceptOffer, Consume, TakeTimeout,
           TakeOfferTimeout, TakeConfirmationTimeout, Recover, RecoverSearch,
           RecoverExpired, IOError, redis
  <1>3. ASSUME NEW o \in Order, Submit(p, o) \/ RecoverSearch(p, o)
        PROVE  Fresh'
    <2>1. Others(p) /\ job'[p].order = o
      BY <1>1, <1>3, StartAt DEF Submit, RecoverSearch
    <2>2. ord'[o].status = "searching"
      BY <1>1, <1>3 DEF Submit, NewRow, RecoverSearch, ListedSearching, db
    <2>. QED  BY <1>2, <2>1, <2>2, StartsFresh
  <1>4. ASSUME Others(p) /\ job'[p].pc \notin {"begin", "rebegin"}
        PROVE  Fresh'
    BY <1>2, <1>4, StaysFresh
  <1>5. CASE UNCHANGED job
    BY <1>2, <1>5, RestsFresh
  <1>6. ASSUME NEW o \in Order,
               \/ DeclineOrderPrice(p, o) \/ CancelByPark(p, o) \/ RecoverExpired(p, o)
               \/ \E d \in Driver : AcceptOffer(p, o, d)
        PROVE  Fresh'
    BY <1>1, <1>4, <1>6, StartAt
       DEF DeclineOrderPrice, CancelByPark, RecoverExpired, AcceptOffer
  <1>7. CASE Consume(p)
    BY <1>1, <1>4, <1>7, StartAt, DoneAt DEF Consume
  <1>8. CASE TakeTimeout(p)
    BY <1>1, <1>4, <1>5, <1>8, StartAt
       DEF TakeTimeout, TakeOfferTimeout, TakeConfirmationTimeout
  <1>9. CASE IOError(p)
    BY <1>1, <1>4, <1>9, GotoAt, ErrorAt DEF IOError
  <1>. QED  BY <1>3, <1>6, <1>7, <1>8, <1>9 DEF Request, Recover

\* FreshInv is inductive.
LEMMA FreshStep == FreshInv /\ [Next]_vars => FreshInv'
  <1>. SUFFICES ASSUME FreshInv, [Next]_vars PROVE FreshInv'
    OBVIOUS
  <1>1. RowInv'
    BY RowStepInv DEF FreshInv
  <1>2. ASSUME UNCHANGED vars
        PROVE  Fresh'
    BY <1>2, RestsFresh DEF vars
  <1>3. ASSUME \/ \E o \in Order : ShortRequest(o) \/ Expiry(o)
               \/ \E d \in Driver : Presence(d)
        PROVE  UNCHANGED job /\ dispatching' \subseteq dispatching
    BY <1>3
       DEF ShortRequest, Expiry, ConfirmOrderPrice, CancelByPassenger, RejectOffer,
           MoveByDriver, Lapse, ExpireIndex, ExpireOffer, ExpireDispatching, ExpireLock,
           Presence, GoOnline, GoOffline, GoStale, redis
  <1>4. ASSUME NEW P \in Instances, Crash(P)
        PROVE  Fresh'
    <2>1. UNCHANGED dispatching
      BY <1>4 DEF Crash, redis
    <2>2. \A q \in Proc : job'[q] = job[q] \/ job'[q].pc = "idle"
      BY <1>4 DEF Crash, Rest, NewJob
    <2>. SUFFICES ASSUME NEW o \in Order, ord'[o].status = "absent"
                  PROVE  Unstarted(o)'
      BY DEF Fresh
    <2>3. Unstarted(o)
      BY AbsentBefore DEF FreshInv, RowInv, Fresh
    <2>. QED  BY <2>1, <2>2, <2>3 DEF Unstarted
  <1>. QED
    BY <1>1, <1>2, <1>3, <1>4, RestsFresh, ProcessFresh, RequestFresh DEF Next, FreshInv

-----------------------------------------------------------------------------
(* No search is lost.                                                       *)

Queued(o) == \E i \in DOMAIN queue : queue[i].order = o

Timed(o) == \E t \in timeouts : t.order = o /\ ~ Confirmation(t)

Carrying == {"mark", "publish", "search", "offer", "schedule", "sweep", "fail",
             "rebegin", "republish"}

Carries(p, o) ==
    /\ job[p].order = o
    /\ job[p].pc \in Carrying \/ (job[p].pc = "begin" /\ o \notin dispatching)

\* The search of o is carried by a task, a timer or p.
Kept(p, o) == Queued(o) \/ Timed(o) \/ Carries(p, o)

SearchInv == TaskInv /\ FreshInv /\ NoLostSearch

\* Carried, by its parts.
LEMMA CarriedParts ==
    ASSUME NEW o
    PROVE  /\ Carried(o) <=> Queued(o) \/ Timed(o) \/ \E p \in Proc : Carries(p, o)
           /\ Carried(o)' <=> Queued(o)' \/ Timed(o)' \/ \E p \in Proc : Carries(p, o)'
  <1>1. Carried(o) <=> Queued(o) \/ Timed(o) \/ \E p \in Proc : Carries(p, o)
    BY DEF Carried, Queued, Timed, Carries, Carrying
  <1>2. Carried(o)' <=> Queued(o)' \/ Timed(o)' \/ \E p \in Proc : Carries(p, o)'
    BY DEF Carried, Queued, Timed, Carries, Carrying
  <1>. QED  BY <1>1, <1>2

\* What the other processes carry, they still do after a step of p.
LEMMA KeepsCarried ==
    ASSUME NEW p \in Proc, Others(p), NEW o, Carried(o),
           o \in dispatching' => o \in dispatching,
           Kept(p, o) => Kept(p, o)'
    PROVE  Carried(o)'
  <1>1. CASE Kept(p, o)
    BY <1>1, CarriedParts DEF Kept
  <1>2. ASSUME NEW q \in Proc \ {p}, Carries(q, o)
        PROVE  Carried(o)'
    <2>1. Carries(q, o)'
      BY <1>2 DEF Carries, Others
    <2>. QED  BY <2>1, CarriedParts
  <1>. QED  BY <1>1, <1>2, CarriedParts DEF Kept

\* What p carries is carried.
LEMMA KeptCarried ==
    ASSUME NEW p \in Proc, NEW o, Kept(p, o)'
    PROVE  Carried(o)'
  BY CarriedParts DEF Kept

\* No task, timer or process of the dispatch moves.
LEMMA RestCarried ==
    ASSUME NEW o, Carried(o), UNCHANGED <<queue, timeouts, job>>,
           dispatching' \subseteq dispatching
    PROVE  Carried(o)'
  BY DEF Carried

\* The search of an order that searched before is carried, if nothing failed.
LEMMA CarriedBefore ==
    ASSUME SearchInv, NEW o \in Order, faults = 0, ord[o].status = "searching"
    PROVE  Carried(o) /\ ord[o].driver = NoDriver
  BY DEF SearchInv, NoLostSearch, FreshInv, RowInv, RowConsistent

\* After a step p is idle or at a place where it carries nothing, and before it
\* carried nothing that still searches.
LEMMA PassesBy ==
    ASSUME SearchInv, NEW p \in Proc, Others(p), NEW o \in Order, faults = 0,
           ord[o].status = "searching", ~ Carries(p, o),
           Queued(o) => Kept(p, o)', Timed(o) => Kept(p, o)',
           dispatching' \subseteq dispatching
    PROVE  Carried(o)'
  BY CarriedBefore, KeepsCarried DEF Kept

\* Other rows than that of b are left alone.
LEMMA OtherRows ==
    ASSUME TypeInv, NEW b \in Order, NEW row, ord' = [ord EXCEPT ![b] = row]
    PROVE  /\ ord'[b] = row
           /\ \A o \in Order \ {b} : ord'[o] = ord[o]
  BY DEF TypeInv, TypeOK

\* A dispatch that begins.
LEMMA BeginCarried ==
    ASSUME SearchInv, NEW p \in Proc,
           \/ \E b \in Order : Submit(p, b) \/ RecoverSearch(p, b)
           \/ BeginDispatch(p) \/ MarkSearching(p) \/ Publish(p)
    PROVE  NoLostSearch'
  <1>. SUFFICES ASSUME faults' = 0, NEW o \in Order, ord'[o].status = "searching"
                PROVE  Carried(o)'
    BY DEF NoLostSearch
  <1>1. TypeInv /\ queue \in Seq(Task)
    BY DEF SearchInv, TaskInv, TypeInv, TypeOK
  <1>2. ASSUME NEW b \in Order, Submit(p, b)
        PROVE  Carried(o)'
    <2>1. Others(p) /\ job'[p].pc = "begin" /\ job'[p].order = b
      BY <1>1, <1>2, StartAt DEF Submit
    <2>2. faults = 0 /\ UNCHANGED <<queue, timeouts, dispatching>> /\ job[p].pc = "idle"
      BY <1>2 DEF Submit, redis, Idle
    <2>3. CASE o = b
      <3>1. o \notin dispatching
        BY <1>2, <2>3 DEF Submit, SearchInv, FreshInv, Fresh, Unstarted
      <3>2. Kept(p, o)'
        BY <2>1, <2>2, <2>3, <3>1 DEF Kept, Carries
      <3>. QED  BY <3>2, KeptCarried
    <2>4. CASE o # b
      <3>1. ord[o].status = "searching"
        BY <1>1, <1>2, <2>4, OtherRows DEF Submit
      <3>2. ~ Carries(p, o)
        BY <2>2 DEF Carries, Carrying
      <3>3. (Queued(o) => Kept(p, o)') /\ (Timed(o) => Kept(p, o)')
        BY <2>2 DEF Queued, Timed, Kept
      <3>. QED  BY <2>1, <2>2, <3>1, <3>2, <3>3, PassesBy
    <2>. QED  BY <2>3, <2>4
  <1>3. ASSUME NEW b \in Order, RecoverSearch(p, b)
        PROVE  Carried(o)'
    <2>1. Others(p)
      BY <1>1, <1>3, StartAt DEF RecoverSearch
    <2>2. /\ faults = 0 /\ UNCHANGED <<queue, timeouts, dispatching, ord>>
          /\ job[p].pc = "idle"
      BY <1>3 DEF RecoverSearch, redis, db, Idle
    <2>3. ~ Carries(p, o)
      BY <2>2 DEF Carries, Carrying
    <2>4. (Queued(o) => Kept(p, o)') /\ (Timed(o) => Kept(p, o)')
      BY <2>2 DEF Queued, Timed, Kept
    <2>. QED  BY <2>1, <2>2, <2>3, <2>4, PassesBy
  <1>4. CASE BeginDispatch(p)
    <2>. DEFINE b == job[p].order
    <2>1. /\ faults = 0 /\ UNCHANGED <<queue, timeouts, ord>> /\ job[p].pc = "begin"
      BY <1>4 DEF BeginDispatch, db, At
    <2>2. (Queued(o) => Kept(p, o)') /\ (Timed(o) => Kept(p, o)')
      BY <2>1 DEF Queued, Timed, Kept
    <2>3. CASE b \in dispatching /\ Done(p) /\ UNCHANGED dispatching
      <3>1. ~ Carries(p, o)
        BY <2>1, <2>3 DEF Carries, Carrying
      <3>. QED  BY <1>1, <2>1, <2>2, <2>3, <3>1, DoneAt, PassesBy
    <2>4. CASE dispatching' = dispatching \union {b} /\ Goto(p, "mark")
      <3>1. Others(p) /\ job'[p].pc = "mark" /\ job'[p].order = b
        BY <1>1, <2>4, GotoAt
      <3>2. CASE o = b
        <4>1. Kept(p, o)'
          BY <3>1, <3>2 DEF Kept, Carries, Carrying
        <4>. QED  BY <4>1, KeptCarried
      <3>3. CASE o # b
        <4>1. ~ Carries(p, o)
          BY <3>3 DEF Carries
        <4>2. Kept(p, o) => Kept(p, o)'
          BY <2>2, <4>1 DEF Kept
        <4>3. o \in dispatching' => o \in dispatching
          BY <2>4, <3>3
        <4>4. Carried(o)
          BY <2>1, CarriedBefore
        <4>. QED  BY <3>1, <4>2, <4>3, <4>4, KeepsCarried
      <3>. QED  BY <3>2, <3>3
    <2>. QED  BY <1>4, <2>3, <2>4 DEF BeginDispatch
  <1>5. CASE MarkSearching(p)
    <2>. DEFINE b == job[p].order
                t == NewTask(b, chains[b] + 1, 0, {})
    <2>1. /\ faults = 0 /\ UNCHANGED <<queue, timeouts, dispatching>>
          /\ job[p].pc = "mark" /\ b \in Order
      BY <1>1, <1>5, JobReady DEF MarkSearching, redis, Idle, At
    <2>2. (Queued(o) => Kept(p, o)') /\ (Timed(o) => Kept(p, o)')
      BY <2>1 DEF Queued, Timed, Kept
    <2>3. CASE /\ Start(p, "publish", b, NoDriver, t, {})
               /\ ord' = [ord EXCEPT ![b] = MarkOrderSearching(ord[b])]
      <3>1. Others(p) /\ job'[p].pc = "publish" /\ job'[p].order = b
        <4>. HIDE DEF t
        <4>. QED  BY <1>1, <2>3, StartAt
      <3>2. CASE o = b
        <4>1. Kept(p, o)'
          BY <3>1, <3>2 DEF Kept, Carries, Carrying
        <4>. QED  BY <4>1, KeptCarried
      <3>3. CASE o # b
        <4>1. ord[o].status = "searching"
          BY <1>1, <2>1, <2>3, <3>3, OtherRows
        <4>2. ~ Carries(p, o)
          BY <3>3 DEF Carries
        <4>. QED  BY <2>1, <2>2, <3>1, <4>1, <4>2, PassesBy
      <3>. QED  BY <3>2, <3>3
    <2>4. CASE ~ CanMarkOrderSearching(ord[b]) /\ Error(p) /\ UNCHANGED ord
      <3>1. o # b
        BY <2>1, <2>4, CarriedBefore DEF CanMarkOrderSearching
      <3>2. ~ Carries(p, o)
        BY <3>1 DEF Carries
      <3>. QED  BY <1>1, <2>1, <2>2, <2>4, <3>2, ErrorAt, PassesBy
    <2>. QED  BY <1>5, <2>3, <2>4 DEF MarkSearching
  <1>6. CASE Publish(p)
    <2>. DEFINE t == job[p].task
    <2>1. /\ faults = 0 /\ UNCHANGED <<timeouts, ord, dispatching>>
          /\ queue' = Append(queue, t) /\ Others(p)
      BY <1>1, <1>6, DoneAt DEF Publish, db
    <2>2. t \in Task /\ t.order = job[p].order
      BY <1>1, <1>6, JobReady
         DEF Publish, At, NeedsTask, SearchInv, TaskInv, JobsStraight, Straight
    <2>3. Queued(o) => Queued(o)'
      BY <1>1, <2>1, <2>2 DEF Queued
    <2>4. Carries(p, o) => Queued(o)'
      <3>1. Len(queue) + 1 \in DOMAIN queue' /\ queue'[Len(queue) + 1] = t
        BY <1>1, <2>1, <2>2
      <3>. QED  BY <2>2, <3>1 DEF Carries, Queued
    <2>5. Timed(o) => Timed(o)'
      BY <2>1 DEF Timed
    <2>6. Carried(o)
      BY <2>1, CarriedBefore
    <2>. QED  BY <2>1, <2>3, <2>4, <2>5, <2>6, KeepsCarried DEF Kept
  <1>. QED  BY <1>2, <1>3, <1>4, <1>5, <1>6

\* Processing a task.
LEMMA ProcessCarried ==
    ASSUME SearchInv, NEW p \in Proc,
           \/ Consume(p) \/ Search(p) \/ Schedule(p)
           \/ \E d \in Driver : SaveOffer(p, d)
    PROVE  NoLostSearch'
  <1>. SUFFICES ASSUME faults' = 0, NEW o \in Order, ord'[o].status = "searching"
                PROVE  Carried(o)'
    BY DEF NoLostSearch
  <1>1. TypeInv /\ queue \in Seq(Task)
    BY DEF SearchInv, TaskInv, TypeInv, TypeOK
  <1>2. faults = 0 /\ UNCHANGED <<ord, dispatching>> /\ Carried(o)
    <2>1. UNCHANGED <<faults, ord, dispatching>>
      BY DEF Consume, Search, Schedule, SaveOffer, db, redis
    <2>. QED  BY <2>1, CarriedBefore
  <1>3. CASE Consume(p)
    <2>. DEFINE t == Head(queue)
                read == [t EXCEPT !.exclude = @ \union DeclinedDrivers(ord[t.order])]
    <2>1. /\ queue # << >> /\ queue' = Tail(queue) /\ UNCHANGED timeouts
          /\ job[p].pc = "idle"
      BY <1>3 DEF Consume, Idle
    <2>2. ~ Carries(p, o)
      BY <2>1 DEF Carries, Carrying
    <2>3. Timed(o) => Timed(o)'
      BY <2>1 DEF Timed
    <2>4. CASE t.order = o
      <3>1. Start(p, "search", o, NoDriver, read, {})
        BY <1>2, <1>3, <2>4 DEF Consume
      <3>2. job'[p].pc = "search" /\ job'[p].order = o
        <4>. HIDE DEF read
        <4>. QED  BY <1>1, <3>1, StartAt
      <3>3. Kept(p, o)'
        BY <3>2 DEF Kept, Carries, Carrying
      <3>. QED  BY <3>3, KeptCarried
    <2>5. CASE t.order # o
      <3>1. Others(p)
        <4>1. Start(p, "search", t.order, NoDriver, read, {}) \/ Done(p)
          BY <1>3 DEF Consume
        <4>. HIDE DEF t, read
        <4>. QED  BY <1>1, <4>1, StartAt, DoneAt
      <3>2. ASSUME NEW i \in DOMAIN queue, queue[i].order = o
            PROVE  Queued(o)'
        <4>1. i - 1 \in DOMAIN queue' /\ queue'[i - 1] = queue[i]
          BY <1>1, <2>1, <2>5, <3>2
        <4>. QED  BY <3>2, <4>1 DEF Queued
      <3>3. Queued(o) => Queued(o)'
        BY <3>2 DEF Queued
      <3>. QED  BY <1>2, <2>2, <2>3, <3>1, <3>3, KeepsCarried DEF Kept
    <2>. QED  BY <2>4, <2>5
  <1>4. CASE Search(p)
    <2>1. /\ job[p].pc = "search" /\ UNCHANGED <<queue, timeouts>>
          /\ job[p].task.order = job[p].order
      BY <1>4 DEF Search, At, redis, SearchInv, TaskInv, JobsStraight, Straight
    <2>2. /\ Others(p) /\ job'[p].order = job[p].order
          /\ job'[p].pc \in {"offer", "schedule", "fail"}
      <3>1. \/ \E found : Start(p, "offer", job[p].task.order, NoDriver, job[p].task, found)
            \/ Goto(p, "schedule") \/ Goto(p, "fail")
        BY <1>4 DEF Search
      <3>. QED  BY <1>1, <2>1, <3>1, StartAt, GotoAt
    <2>3. Kept(p, o) => Kept(p, o)'
      BY <2>1, <2>2 DEF Kept, Queued, Timed, Carries, Carrying
    <2>. QED  BY <1>2, <2>2, <2>3, KeepsCarried
  <1>5. ASSUME NEW d \in Driver, SaveOffer(p, d)
        PROVE  Carried(o)'
    <2>1. job[p].pc = "offer" /\ UNCHANGED <<queue, timeouts>>
      BY <1>5 DEF SaveOffer, At
    <2>2. /\ Others(p) /\ job'[p].order = job[p].order
          /\ job'[p].pc \in {"offer", "schedule"}
      BY <1>1, <1>5, SaveOfferAt
    <2>3. Kept(p, o) => Kept(p, o)'
      BY <2>1, <2>2 DEF Kept, Queued, Timed, Carries, Carrying
    <2>. QED  BY <1>2, <2>2, <2>3, KeepsCarried
  <1>6. CASE Schedule(p)
    <2>. DEFINE t == job[p].task
    <2>1. timeouts' = timeouts \union {t} /\ UNCHANGED queue /\ Others(p)
      BY <1>1, <1>6, DoneAt DEF Schedule
    <2>2. t.order = job[p].order /\ ~ Confirmation(t)
      BY <1>6 DEF Schedule, At, SearchInv, TaskInv, JobsStraight, Straight, Confirmation
    <2>3. Carries(p, o) => Timed(o)'
      BY <2>1, <2>2 DEF Carries, Timed
    <2>4. (Timed(o) => Timed(o)') /\ (Queued(o) => Queued(o)')
      BY <2>1 DEF Timed, Queued
    <2>. QED  BY <1>2, <2>1, <2>3, <2>4, KeepsCarried DEF Kept
  <1>. QED  BY <1>3, <1>4, <1>5, <1>6

\* The end of a search.
LEMMA EndCarried ==
    ASSUME SearchInv, NEW p \in Proc,
           \/ FailNoDriversFound(p) \/ FinishDispatch(p) \/ Sweep(p) \/ ClearOffers(p)
           \/ \E t \in timeouts : TakeOfferTimeout(p, t)
           \/ \E b \in Order : CancelByPark(p, b)
    PROVE  NoLostSearch'
  <1>. SUFFICES ASSUME faults' = 0, NEW o \in Order, ord'[o].status = "searching"
                PROVE  Carried(o)'
    BY DEF NoLostSearch
  <1>1. TypeInv /\ ord \in [Order -> Row]
    BY DEF SearchInv, TaskInv, TypeInv, TypeOK
  <1>2. CASE FailNoDriversFound(p)
    <2>. DEFINE b == job[p].order
    <2>1. /\ faults = 0 /\ UNCHANGED <<queue, timeouts, dispatching>> /\ b \in Order
      BY <1>1, <1>2, JobReady DEF FailNoDriversFound, redis, Idle, At
    <2>2. (Queued(o) => Kept(p, o)') /\ (Timed(o) => Kept(p, o)')
      BY <2>1 DEF Queued, Timed, Kept
    <2>3. Others(p)
      BY <1>1, <1>2, GotoAt, ErrorAt DEF FailNoDriversFound
    <2>4. o # b /\ ord[o].status = "searching"
      <3>1. CASE ord' = [ord EXCEPT ![b] = FailOrder(ord[b])]
        <4>1. FailOrder(ord[b]).status = "failed"
          BY <1>1, <2>1 DEF FailOrder, Row
        <4>. QED  BY <1>1, <2>1, <3>1, <4>1, OtherRows
      <3>2. CASE UNCHANGED ord /\ ~ CanFailOrder(ord[b])
        BY <2>1, <3>2, CarriedBefore DEF CanFailOrder
      <3>. QED  BY <1>2, <3>1, <3>2 DEF FailNoDriversFound
    <2>5. ~ Carries(p, o)
      BY <2>4 DEF Carries
    <2>. QED  BY <2>1, <2>2, <2>3, <2>4, <2>5, PassesBy
  <1>3. CASE FinishDispatch(p) \/ ClearOffers(p)
    <2>1. /\ faults = 0 /\ UNCHANGED <<queue, timeouts, ord>>
          /\ dispatching' \subseteq dispatching /\ job[p].pc \in {"finish", "clear"}
      BY <1>3 DEF FinishDispatch, ClearOffers, db, At
    <2>2. (Queued(o) => Kept(p, o)') /\ (Timed(o) => Kept(p, o)')
      BY <2>1 DEF Queued, Timed, Kept
    <2>3. Others(p)
      BY <1>1, <1>3, GotoAt, DoneAt DEF FinishDispatch, ClearOffers
    <2>4. ~ Carries(p, o)
      BY <2>1 DEF Carries, Carrying
    <2>. QED  BY <2>1, <2>2, <2>3, <2>4, PassesBy
  <1>4. ASSUME NEW b \in Order, CancelByPark(p, b)
        PROVE  Carried(o)'
    <2>1. /\ faults = 0 /\ UNCHANGED <<queue, timeouts, dispatching>>
          /\ job[p].pc = "idle"
      BY <1>4 DEF CancelByPark, redis, Idle
    <2>2. (Queued(o) => Kept(p, o)') /\ (Timed(o) => Kept(p, o)')
      BY <2>1 DEF Queued, Timed, Kept
    <2>3. Others(p)
      BY <1>1, <1>4, StartAt DEF CancelByPark
    <2>4. ~ Carries(p, o)
      BY <2>1 DEF Carries, Carrying
    <2>5. ord[o].status = "searching"
      <3>1. ord' = [ord EXCEPT ![b] = MoveOrder(ord[b], "cancelled")]
        BY <1>4 DEF CancelByPark
      <3>2. MoveOrder(ord[b], "cancelled").status = "cancelled"
        BY <1>1 DEF MoveOrder, Row
      <3>. QED  BY <1>1, <3>1, <3>2, OtherRows
    <2>. QED  BY <2>1, <2>2, <2>3, <2>4, <2>5, PassesBy
  <1>5. ASSUME NEW t \in timeouts, TakeOfferTimeout(p, t)
        PROVE  Carried(o)'
    <2>1. /\ faults = 0 /\ UNCHANGED <<queue, ord, dispatching>>
          /\ job[p].pc = "idle"
      BY <1>5 DEF TakeOfferTimeout, db, Idle
    <2>2. ~ Carries(p, o)
      BY <2>1 DEF Carries, Carrying
    <2>3. CASE Start(p, "sweep", t.order, NoDriver, t, index[t.order]) /\ UNCHANGED timeouts
      <3>1. Others(p)
        BY <1>1, <2>3, StartAt
      <3>2. (Queued(o) => Kept(p, o)') /\ (Timed(o) => Kept(p, o)')
        BY <2>1, <2>3 DEF Queued, Timed, Kept
      <3>. QED  BY <2>1, <2>2, <3>1, <3>2, PassesBy
    <2>4. CASE /\ ord[t.order].status # "searching"
               /\ timeouts' = timeouts \ {t} /\ UNCHANGED job
      <3>1. t.order # o
        BY <2>1, <2>4
      <3>2. (Queued(o) => Kept(p, o)') /\ (Timed(o) => Kept(p, o)')
        BY <2>1, <2>4, <3>1 DEF Queued, Timed, Kept
      <3>3. Others(p)
        BY <2>4 DEF Others
      <3>. QED  BY <2>1, <2>2, <3>2, <3>3, PassesBy
    <2>. QED  BY <1>5, <2>3, <2>4 DEF TakeOfferTimeout
  <1>6. CASE Sweep(p)
    <2>. DEFINE t == job[p].task
                next == NextTask(t, job[p].todo)
    <2>1. /\ faults = 0 /\ UNCHANGED <<queue, ord, dispatching>>
          /\ timeouts' = timeouts \ {t} /\ job[p].pc = "sweep"
      BY <1>6 DEF Sweep, db, At
    <2>2. t.order = job[p].order
      BY <2>1 DEF SearchInv, TaskInv, JobsStraight, Straight
    <2>3. /\ Others(p) /\ job'[p].order = t.order
          /\ job'[p].pc \in {"fail", "publish"}
      <3>1. Goto(p, "fail") \/ Start(p, "publish", t.order, NoDriver, next, {})
        BY <1>6 DEF Sweep
      <3>. HIDE DEF next
      <3>. QED  BY <1>1, <2>2, <3>1, GotoAt, StartAt
    <2>4. CASE t.order = o
      <3>1. Kept(p, o)'
        BY <2>3, <2>4 DEF Kept, Carries, Carrying
      <3>. QED  BY <3>1, KeptCarried
    <2>5. CASE t.order # o
      <3>1. ~ Carries(p, o)
        BY <2>2, <2>5 DEF Carries
      <3>2. (Queued(o) => Kept(p, o)') /\ (Timed(o) => Kept(p, o)')
        BY <2>1, <2>5 DEF Queued, Timed, Kept
      <3>. QED  BY <2>1, <2>3, <3>1, <3>2, PassesBy
    <2>. QED  BY <2>4, <2>5
  <1>. QED  BY <1>2, <1>3, <1>4, <1>5, <1>6

\* An acceptance takes nothing of the search but the order itself.
LEMMA AcceptCarried ==
    ASSUME SearchInv, NEW p \in Proc,
           \/ \E b \in Order : \E d \in Driver : AcceptOffer(p, b, d)
           \/ Assign(p) \/ ArmConfirmation(p) \/ MarkDriverBusy(p)
    PROVE  NoLostSearch'
  <1>. SUFFICES ASSUME faults' = 0, NEW o \in Order, ord'[o].status = "searching"
                PROVE  Carried(o)'
    BY DEF NoLostSearch
  <1>1. TypeInv /\ ord \in [Order -> Row]
    BY DEF SearchInv, TaskInv, TypeInv, TypeOK
  <1>2. /\ faults = 0 /\ UNCHANGED <<queue, dispatching>> /\ timeouts \subseteq timeouts'
        /\ job[p].pc \in {"idle", "assign", "arm", "busy"}
    BY DEF AcceptOffer, Assign, ArmConfirmation, MarkDriverBusy, Idle, At
  <1>3. (Queued(o) => Kept(p, o)') /\ (Timed(o) => Kept(p, o)')
    BY <1>2 DEF Queued, Timed, Kept
  <1>4. ~ Carries(p, o)
    BY <1>2 DEF Carries, Carrying
  <1>5. Others(p)
    BY <1>1, StartAt, ErrorAt DEF AcceptOffer, Assign, ArmConfirmation, MarkDriverBusy
  <1>6. ord[o].status = "searching"
    <2>. DEFINE b == job[p].order
                row == AssignDriver(ord[b], job[p].driver, b \notin ParkOrder)
    <2>1. CASE UNCHANGED ord
      BY <2>1
    <2>2. CASE Assign(p) /\ ord' = [ord EXCEPT ![b] = row]
      <3>1. b \in Order
        BY <1>1, <2>2, JobReady DEF Assign, Idle, At
      <3>2. row.status = "driver_assigned"
        BY <1>1, <3>1 DEF AssignDriver, Row
      <3>. HIDE DEF row
      <3>. QED  BY <1>1, <2>2, <3>1, <3>2, OtherRows
    <2>. QED
      BY <2>1, <2>2 DEF AcceptOffer, Assign, ArmConfirmation, MarkDriverBusy, db
  <1>. QED  BY <1>2, <1>3, <1>4, <1>5, <1>6, PassesBy

\* A reservation that is given back: whoever releases it carries the new search.
LEMMA PriceCarried ==
    ASSUME SearchInv, NEW p \in Proc,
           \/ \E b \in Order : DeclineOrderPrice(p, b) \/ RecoverExpired(p, b)
           \/ \E t \in timeouts : TakeConfirmationTimeout(p, t)
           \/ Release(p) \/ RebeginDispatch(p) \/ Republish(p)
    PROVE  NoLostSearch'
  <1>. SUFFICES ASSUME faults' = 0, NEW o \in Order, ord'[o].status = "searching"
                PROVE  Carried(o)'
    BY DEF NoLostSearch
  <1>1. TypeInv /\ ord \in [Order -> Row] /\ queue \in Seq(Task) /\ timeouts \subseteq Task
    BY DEF SearchInv, TaskInv, TypeInv, TypeOK
  <1>2. ASSUME NEW b \in Order, DeclineOrderPrice(p, b) \/ RecoverExpired(p, b)
        PROVE  Carried(o)'
    <2>1. /\ faults = 0 /\ UNCHANGED <<queue, timeouts, dispatching, ord>>
          /\ job[p].pc = "idle"
      BY <1>2 DEF DeclineOrderPrice, RecoverExpired, redis, db, Idle
    <2>2. Others(p)
      BY <1>1, <1>2, StartAt DEF DeclineOrderPrice, RecoverExpired
    <2>3. ~ Carries(p, o)
      BY <2>1 DEF Carries, Carrying
    <2>4. (Queued(o) => Kept(p, o)') /\ (Timed(o) => Kept(p, o)')
      BY <2>1 DEF Queued, Timed, Kept
    <2>. QED  BY <2>1, <2>2, <2>3, <2>4, PassesBy
  <1>3. ASSUME NEW t \in timeouts, TakeConfirmationTimeout(p, t)
        PROVE  Carried(o)'
    <2>1. /\ faults = 0 /\ UNCHANGED <<queue, dispatching, ord>>
          /\ timeouts' \in {timeouts, timeouts \ {t}} /\ Confirmation(t)
          /\ job[p].pc = "idle"
      BY <1>3 DEF TakeConfirmationTimeout, db, Idle
    <2>2. Others(p)
      <3>1. UNCHANGED job \/ Start(p, "release", t.order, ord[t.order].driver, t, {})
        BY <1>3 DEF TakeConfirmationTimeout
      <3>2. UNCHANGED job => Others(p)
        BY DEF Others
      <3>. QED  BY <1>1, <3>1, <3>2, StartAt
    <2>3. ~ Carries(p, o)
      BY <2>1 DEF Carries, Carrying
    <2>4. (Queued(o) => Kept(p, o)') /\ (Timed(o) => Kept(p, o)')
      BY <2>1 DEF Queued, Timed, Kept
    <2>. QED  BY <2>1, <2>2, <2>3, <2>4, PassesBy
  <1>4. CASE Release(p)
    <2>. DEFINE b == job[p].order
    <2>1. /\ faults = 0 /\ UNCHANGED <<queue, timeouts, dispatching>>
          /\ job[p].pc = "release" /\ b \in Order
      BY <1>1, <1>4, JobReady DEF Release, redis, Idle, At
    <2>2. (Queued(o) => Kept(p, o)') /\ (Timed(o) => Kept(p, o)')
      BY <2>1 DEF Queued, Timed, Kept
    <2>3. ~ Carries(p, o)
      BY <2>1 DEF Carries, Carrying
    <2>4. CASE UNCHANGED ord /\ Error(p)
      BY <1>1, <2>1, <2>2, <2>3, <2>4, ErrorAt, PassesBy
    <2>5. CASE /\ ord' = [ord EXCEPT ![b] = ReleaseDriverReservation(ord[b])]
               /\ Goto(p, "rebegin")
      <3>1. Others(p) /\ job'[p].pc = "rebegin" /\ job'[p].order = b
        BY <1>1, <2>5, GotoAt
      <3>2. CASE o = b
        <4>1. Kept(p, o)'
          BY <3>1, <3>2 DEF Kept, Carries, Carrying
        <4>. QED  BY <4>1, KeptCarried
      <3>3. CASE o # b
        <4>1. ord[o].status = "searching"
          BY <1>1, <2>1, <2>5, <3>3, OtherRows
        <4>. QED  BY <2>1, <2>2, <2>3, <3>1, <4>1, PassesBy
      <3>. QED  BY <3>2, <3>3
    <2>. QED  BY <1>4, <2>4, <2>5 DEF Release, db
  <1>5. CASE RebeginDispatch(p)
    <2>. DEFINE b == job[p].order
    <2>1. /\ faults = 0 /\ UNCHANGED <<queue, timeouts, ord>>
          /\ dispatching' = dispatching \union {b} /\ job[p].pc = "rebegin"
      BY <1>5 DEF RebeginDispatch, db, At
    <2>2. Others(p) /\ job'[p].pc = "republish" /\ job'[p].order = b
      BY <1>1, <1>5, GotoAt DEF RebeginDispatch
    <2>3. CASE o = b
      <3>1. Kept(p, o)'
        BY <2>2, <2>3 DEF Kept, Carries, Carrying
      <3>. QED  BY <3>1, KeptCarried
    <2>4. CASE o # b
      <3>1. Kept(p, o) => Kept(p, o)'
        BY <2>1, <2>4 DEF Kept, Queued, Timed, Carries
      <3>2. (o \in dispatching' => o \in dispatching) /\ Carried(o)
        BY <2>1, <2>4, CarriedBefore
      <3>. QED  BY <2>2, <3>1, <3>2, KeepsCarried
    <2>. QED  BY <2>3, <2>4
  <1>6. CASE Republish(p)
    <2>. DEFINE b == job[p].order
                t == NewTask(b, chains[b] + 1, 0, {job[p].driver})
    <2>1. /\ faults = 0 /\ UNCHANGED <<dispatching, ord>>
          /\ queue' = Append(queue, t) /\ timeouts' = timeouts \ {job[p].task}
          /\ job[p].pc = "republish" /\ Others(p)
      BY <1>1, <1>6, DoneAt DEF Republish, db, At
    <2>2. job[p].task \notin timeouts \/ Confirmation(job[p].task)
      BY <1>1, <2>1, TaskAssumption DEF SearchInv, TaskInv, JobsStraight, Straight
    <2>3. Timed(o) => Timed(o)'
      BY <2>1, <2>2 DEF Timed
    <2>4. t.order = b
      BY DEF NewTask
    <2>. HIDE DEF t
    <2>5. /\ \A i \in DOMAIN queue : i \in DOMAIN queue' /\ queue'[i] = queue[i]
          /\ Len(queue) + 1 \in DOMAIN queue' /\ queue'[Len(queue) + 1] = t
      BY <1>1, <2>1
    <2>6. (Queued(o) => Queued(o)') /\ (Carries(p, o) => Queued(o)')
      BY <2>4, <2>5 DEF Queued, Carries
    <2>7. Carried(o)
      BY <2>1, CarriedBefore
    <2>. QED  BY <2>1, <2>3, <2>6, <2>7, KeepsCarried DEF Kept
  <1>. QED  BY <1>2, <1>3, <1>4, <1>5, <1>6

\* Requests that are one statement start no search; drivers and TTLs do not touch
\* one; an error or a crash is a fault.
LEMMA EnvironmentCarried ==
    ASSUME SearchInv,
           \/ \E b \in Order : ShortRequest(b) \/ Expiry(b)
           \/ \E d \in Driver : Presence(d)
           \/ \E p \in Proc : IOError(p)
           \/ \E P \in Instances : Crash(P)
    PROVE  NoLostSearch'
  <1>. SUFFICES ASSUME faults' = 0, NEW o \in Order, ord'[o].status = "searching"
                PROVE  Carried(o)'
    BY DEF NoLostSearch
  <1>1. TypeInv /\ ord \in [Order -> Row] /\ faults \in Nat
    BY DEF SearchInv, TaskInv, TypeInv, TypeOK
  <1>2. \A kind : ~ Fault(kind)
    BY <1>1 DEF Fault
  <1>3. faults = 0 /\ UNCHANGED <<queue, timeouts, job>> /\ dispatching' \subseteq dispatching
    <2>1. ASSUME NEW b \in Order, ShortRequest(b) \/ Expiry(b)
          PROVE  UNCHANGED <<queue, timeouts, job, faults>> /\ dispatching' \subseteq dispatching
      BY <1>2, <2>1
         DEF ShortRequest, Expiry, ConfirmOrderPrice, CancelByPassenger, RejectOffer,
             MoveByDriver, Lapse, ExpireIndex, ExpireOffer, ExpireDispatching, ExpireLock,
             redis
    <2>2. ASSUME NEW d \in Driver, Presence(d)
          PROVE  UNCHANGED <<queue, timeouts, job, faults, dispatching>>
      BY <2>2 DEF Presence, GoOnline, GoOffline, GoStale, redis
    <2>. QED  BY <1>2, <2>1, <2>2 DEF IOError, Crash
  <1>4. ord[o].status = "searching"
    <2>1. CASE UNCHANGED ord
      BY <2>1
    <2>2. ASSUME NEW b \in Order, ConfirmOrderPrice(b)
          PROVE  ord'[o].status = ord[o].status
      <3>1. ConfirmDriverPrice(ord[b]).status = ord[b].status
        BY <1>1 DEF ConfirmDriverPrice, Row
      <3>. QED  BY <1>1, <2>2, <3>1, OtherRows DEF ConfirmOrderPrice
    <2>3. ASSUME NEW b \in Order, Lapse(b)
          PROVE  ord'[o].status = ord[o].status
      <3>. DEFINE row == [ord[b] EXCEPT !.lapsed = TRUE]
      <3>1. row.status = ord[b].status /\ ord' = [ord EXCEPT ![b] = row]
        BY <1>1, <2>3 DEF Lapse, Row
      <3>. HIDE DEF row
      <3>. QED  BY <1>1, <3>1, OtherRows
    <2>4. ASSUME NEW b \in Order, NEW to, to # "searching",
                 ord' = [ord EXCEPT ![b] = MoveOrder(ord[b], to)]
          PROVE  o # b /\ ord'[o] = ord[o]
      <3>1. MoveOrder(ord[b], to).status = to
        BY <1>1 DEF MoveOrder, Row
      <3>. QED  BY <1>1, <2>4, <3>1, OtherRows
    <2>5. ASSUME NEW b \in Order, CancelByPassenger(b)
          PROVE  ord'[o] = ord[o]
      BY <2>4, <2>5 DEF CancelByPassenger
    <2>6. ASSUME NEW b \in Order, NEW to \in Moves, MoveByDriver(b, to)
          PROVE  ord'[o] = ord[o]
      <3>1. to # "searching"
        BY MovesAssumption DEF Underway
      <3>. QED  BY <2>4, <2>6, <3>1 DEF MoveByDriver
    <2>7. ASSUME NEW b \in Order, ShortRequest(b) \/ Expiry(b)
          PROVE  ord'[o].status = ord[o].status
      BY <2>2, <2>3, <2>5, <2>6, <2>7
         DEF ShortRequest, Expiry, RejectOffer, ExpireIndex, ExpireOffer,
             ExpireDispatching, ExpireLock, db
    <2>8. ASSUME NEW d \in Driver, Presence(d)
          PROVE  UNCHANGED ord
      BY <2>8 DEF Presence, GoOnline, GoOffline, GoStale
    <2>. QED  BY <1>2, <2>1, <2>7, <2>8 DEF IOError, Crash
  <1>. QED  BY <1>3, <1>4, CarriedBefore, RestCarried

\* SearchInv is inductive.
LEMMA SearchStep == SearchInv /\ [Next]_vars => SearchInv'
  <1>. SUFFICES ASSUME SearchInv, [Next]_vars PROVE SearchInv'
    OBVIOUS
  <1>1. TaskInv' /\ FreshInv'
    BY TaskStep, FreshStep DEF SearchInv
  <1>2. ASSUME UNCHANGED vars
        PROVE  NoLostSearch'
    BY <1>2 DEF vars, SearchInv, NoLostSearch, Carried
  <1>3. ASSUME NEW p \in Proc, Step(p)
        PROVE  NoLostSearch'
    BY <1>3, BeginCarried, ProcessCarried, EndCarried, AcceptCarried, PriceCarried
       DEF Step
  <1>4. ASSUME NEW p \in Proc, Request(p) \/ Consume(p) \/ TakeTimeout(p) \/ Recover(p)
        PROVE  NoLostSearch'
    BY <1>4, BeginCarried, ProcessCarried, EndCarried, AcceptCarried, PriceCarried
       DEF Request, TakeTimeout, Recover
  <1>. QED  BY <1>1, <1>2, <1>3, <1>4, EnvironmentCarried DEF Next, SearchInv

\* As long as nothing fails, whoever drops a task, a timer or a search leaves the
\* order to somebody who carries it on, or finds it no longer searching.
THEOREM SearchesCarried == Spec => []NoLostSearch
  <1>1. Init => SearchInv
    <2>. SUFFICES ASSUME Init PROVE SearchInv
      OBVIOUS
    <2>1. TypeInv /\ RowInv
      BY TypeInit, RowInit
    <2>2. /\ \A o \in Order : ord[o].status = "absent"
          /\ \A p \in Proc : job[p].pc = "idle"
          /\ dispatching = {} /\ queue = << >> /\ timeouts = {}
      BY DEF Init, NewRow, Rest, NewJob
    <2>3. TaskInv
      BY <2>1, <2>2
         DEF TaskInv, JobsStraight, Straight, QueueStraight, TimersStraight
    <2>4. FreshInv
      BY <2>1, <2>2 DEF FreshInv, Fresh, Unstarted
    <2>5. NoLostSearch
      BY <2>2 DEF NoLostSearch
    <2>. QED  BY <2>3, <2>4, <2>5 DEF SearchInv
  <1>2. SearchInv => NoLostSearch
    BY DEF SearchInv
  <1>. QED  BY SearchStep, <1>1, <1>2, PTL DEF Spec
=============================================================================
