--------------------------- MODULE DispatchProofs ---------------------------
(***************************************************************************)
(* Proofs about dispatch, for any orders, drivers, processes, instances,   *)
(* bounds and faults.                                                      *)
(***************************************************************************)
EXTENDS DispatchRefinement, TLAPS

-----------------------------------------------------------------------------
(* Type correctness.  TypeOK alone is not inductive: Publish appends the    *)
(* task of a process to the queue, and Assign writes its driver, so a       *)
(* process must have got both before.                                       *)

NeedsDriver == {"assign", "arm", "busy", "release", "rebegin", "republish"}

NeedsTask == {"publish", "search", "offer", "schedule", "sweep", "arm"}

\* A job carries what its remaining steps use.
Prepared(j) ==
    /\ j.pc \notin {"idle", "stopped"} => j.order \in Order
    /\ j.pc \in NeedsDriver => j.driver \in Driver
    /\ j.pc \in NeedsTask => j.task \in Task

JobsPrepared == \A p \in Proc : Prepared(job[p])

TypeInv == TypeOK /\ JobsPrepared

\* A process that moves on keeps all jobs well-formed if its own job is.
LEMMA JobMoves ==
    ASSUME TypeInv, NEW p \in Proc, NEW j \in Job, Prepared(j),
           job' = [job EXCEPT ![p] = j]
    PROVE  job' \in [Proc -> Job] /\ JobsPrepared'
  <1>1. job \in [Proc -> Job]
    BY DEF TypeInv, TypeOK
  <1>2. job' \in [Proc -> Job]
    BY <1>1
  <1>3. \A q \in Proc : job'[q] = IF q = p THEN j ELSE job[q]
    BY <1>1
  <1>4. JobsPrepared'
    <2>. SUFFICES ASSUME NEW q \in Proc PROVE Prepared(job'[q])
      BY DEF JobsPrepared, Prepared
    <2>. QED
      BY <1>3 DEF TypeInv, JobsPrepared
  <1>. QED  BY <1>2, <1>4

\* A process that starts a job gets an order, and the driver and task its first
\* step uses.
LEMMA StartTyped ==
    ASSUME TypeInv, NEW p \in Proc, NEW pc \in PC, NEW o \in Order,
           NEW d \in Driver \union {NoDriver}, NEW t \in Task \union {NoTask},
           NEW S \in SUBSET Driver,
           pc \in NeedsDriver => d \in Driver,
           pc \in NeedsTask => t \in Task,
           Start(p, pc, o, d, t, S)
    PROVE  job' \in [Proc -> Job] /\ JobsPrepared'
  <1>. DEFINE j == NewJob(pc, o, d, t, S)
  <1>1. j \in Job /\ Prepared(j)
    BY DEF NewJob, Job, Prepared
  <1>2. job' = [job EXCEPT ![p] = j]
    BY DEF Start
  <1>. QED  BY <1>1, <1>2, JobMoves

\* The same for a step that uses a task and no driver.
LEMMA StartTaskTyped ==
    ASSUME TypeInv, NEW p \in Proc, NEW pc \in PC \ NeedsDriver,
           \E o \in Order, t \in Task, S \in SUBSET Driver :
               Start(p, pc, o, NoDriver, t, S)
    PROVE  job' \in [Proc -> Job] /\ JobsPrepared'
  BY StartTyped

\* The same for a step that uses a driver and no task.
LEMMA StartDriverTyped ==
    ASSUME TypeInv, NEW p \in Proc, NEW pc \in PC \ NeedsTask,
           \E o \in Order, d \in Driver, t \in Task \union {NoTask} :
               Start(p, pc, o, d, t, {})
    PROVE  job' \in [Proc -> Job] /\ JobsPrepared'
  BY StartTyped

\* The same for a step that uses neither.
LEMMA StartPlainTyped ==
    ASSUME TypeInv, NEW p \in Proc, NEW pc \in PC \ (NeedsTask \union NeedsDriver),
           \E o \in Order : Start(p, pc, o, NoDriver, NoTask, {})
    PROVE  job' \in [Proc -> Job] /\ JobsPrepared'
  BY StartTyped

\* A handler that returns leaves its process at rest.
LEMMA DoneTyped ==
    ASSUME TypeInv, NEW p \in Proc, Done(p)
    PROVE  job' \in [Proc -> Job] /\ JobsPrepared'
  <1>1. Rest \in Job /\ Prepared(Rest)
    BY DEF Rest, NewJob, Job, PC, Prepared, NeedsDriver, NeedsTask
  <1>2. job' = [job EXCEPT ![p] = Rest]
    BY DEF Done
  <1>. QED  BY <1>1, <1>2, JobMoves

\* So does one that fails, unless it stops its loop.
LEMMA ErrorTyped ==
    ASSUME TypeInv, NEW p \in Proc, Error(p)
    PROVE  job' \in [Proc -> Job] /\ JobsPrepared'
  <1>1. AfterError(p) \in Job /\ Prepared(AfterError(p))
    BY DEF AfterError, Rest, NewJob, Job, PC, Prepared, NeedsDriver, NeedsTask
  <1>2. job' = [job EXCEPT ![p] = AfterError(p)]
    BY DEF Error
  <1>. QED  BY <1>1, <1>2, JobMoves

\* Moving to a step that needs no more than the present job has.
LEMMA GotoTyped ==
    ASSUME TypeInv, NEW p \in Proc, NEW pc \in PC, ~ Idle(p), ~ At(p, "stopped"),
           pc \in NeedsDriver => job[p].driver \in Driver,
           pc \in NeedsTask => job[p].task \in Task,
           Goto(p, pc)
    PROVE  job' \in [Proc -> Job] /\ JobsPrepared'
  <1>. DEFINE j == [job[p] EXCEPT !.pc = pc]
  <1>1. job[p] \in Job /\ Prepared(job[p])
    BY DEF TypeInv, TypeOK, JobsPrepared
  <1>2. j \in Job /\ Prepared(j)
    BY <1>1 DEF Job, Prepared, Idle, At
  <1>3. job' = [job EXCEPT ![p] = j]
    BY DEF Goto
  <1>. QED  BY <1>2, <1>3, JobMoves

\* A task made for an order and a set of drivers to exclude is a task.
LEMMA NewTaskTyped ==
    ASSUME NEW o \in Order, NEW s \in Nat, NEW a \in Int, NEW E \in SUBSET Driver
    PROVE  NewTask(o, s, a, E) \in Task
  BY DEF NewTask, Task

\* So is the next one after a timeout.
LEMMA NextTaskTyped ==
    ASSUME NEW t \in Task, NEW E \in SUBSET Driver
    PROVE  NextTask(t, E) \in Task
  <1>1. t.attempt + 1 \in Int /\ t.exclude \union E \in SUBSET Driver
    BY DEF Task
  <1>. QED  BY <1>1 DEF NextTask, Task

\* declined_driver_ids holds drivers.
LEMMA DeclinedTyped ==
    ASSUME NEW row \in Row
    PROVE  DeclinedDrivers(row) \subseteq Driver
  BY DEF Row, DeclinedDrivers

\* At start no process does anything and no order exists.
LEMMA TypeInit == Init => TypeInv
  BY NoDriverAssumption
     DEF Init, TypeInv, TypeOK, JobsPrepared, Prepared, Rest, NewJob, Job, PC,
         NeedsDriver, NeedsTask, NewRow, Row, OrderStatus, PriceState,
         DriverStatus, Task

\* The parts of TypeOK, so that a step proves the parts it writes.
JobsTyped   == job \in [Proc -> Job] /\ JobsPrepared
DbTyped     == ord \in [Order -> Row] /\ drv \in [Driver -> DriverStatus]
OffersTyped == offer \in [Order -> SUBSET Driver] /\ index \in [Order -> SUBSET Driver]
KeysTyped   == dispatching \in SUBSET Order /\ lock \in [Order -> Proc \union {NoProc}]
TasksTyped  == queue \in Seq(Task) /\ timeouts \in SUBSET Task
CountsTyped == chains \in [Order -> Nat] /\ faults \in Nat

\* TypeInv is the conjunction of its parts.
LEMMA TypeParts ==
    TypeInv <=> JobsTyped /\ DbTyped /\ OffersTyped /\ KeysTyped /\ TasksTyped
                          /\ CountsTyped
  BY DEF TypeInv, TypeOK, JobsTyped, DbTyped, OffersTyped, KeysTyped, TasksTyped,
         CountsTyped

\* So it is after a step.
LEMMA TypePartsNext ==
    TypeInv' <=> JobsTyped' /\ DbTyped' /\ OffersTyped' /\ KeysTyped' /\ TasksTyped'
                            /\ CountsTyped'
  BY DEF TypeInv, TypeOK, JobsTyped, DbTyped, OffersTyped, KeysTyped, TasksTyped,
         CountsTyped

\* What a step leaves alone stays typed.
LEMMA TypeFrame ==
    /\ JobsTyped   /\ UNCHANGED job      => JobsTyped'
    /\ DbTyped     /\ UNCHANGED db       => DbTyped'
    /\ OffersTyped /\ UNCHANGED offers   => OffersTyped'
    /\ KeysTyped   /\ UNCHANGED <<dispatching, lock>> => KeysTyped'
    /\ TasksTyped  /\ UNCHANGED <<queue, timeouts>>   => TasksTyped'
    /\ CountsTyped /\ UNCHANGED <<chains, faults>>    => CountsTyped'
  BY DEF JobsTyped, JobsPrepared, DbTyped, OffersTyped, KeysTyped, TasksTyped,
         CountsTyped, db, offers

\* Releasing the accept locks of some processes leaves holders or nobody.
LEMMA UnlockedTyped ==
    ASSUME KeysTyped, NEW P \in SUBSET Proc
    PROVE  Unlocked(P) \in [Order -> Proc \union {NoProc}]
  BY DEF KeysTyped, Unlocked

\* RemoveOffers leaves sets of drivers.
LEMMA RemoveOffersTyped ==
    ASSUME OffersTyped, NEW o \in Order, RemoveOffers(o)
    PROVE  OffersTyped'
  BY DEF OffersTyped, RemoveOffers

\* The statements of module Orders map rows to rows.
LEMMA RowsTyped ==
    ASSUME NEW row \in Row
    PROVE  /\ MarkOrderSearching(row) \in Row
           /\ FailOrder(row) \in Row
           /\ ConfirmDriverPrice(row) \in Row
           /\ \A d \in Driver : \A b : AssignDriver(row, d, b) \in Row
           /\ row.driver \in Driver => ReleaseDriverReservation(row) \in Row
           /\ \A to \in OrderStatus : MoveOrder(row, to) \in Row
           /\ [row EXCEPT !.lapsed = TRUE] \in Row
  <1>1. MarkOrderSearching(row) \in Row /\ FailOrder(row) \in Row
    BY DEF Row, MarkOrderSearching, FailOrder, OrderStatus
  <1>2. ConfirmDriverPrice(row) \in Row /\ [row EXCEPT !.lapsed = TRUE] \in Row
    BY DEF Row, ConfirmDriverPrice, PriceState
  <1>3. ASSUME NEW d \in Driver, NEW b PROVE AssignDriver(row, d, b) \in Row
    BY DEF Row, AssignDriver, OrderStatus, PriceState
  <1>4. ASSUME row.driver \in Driver PROVE ReleaseDriverReservation(row) \in Row
    <2>1. Append(row.declined, row.driver) \in Seq(Driver)
      BY <1>4 DEF Row
    <2>. QED
      BY <2>1 DEF Row, ReleaseDriverReservation, OrderStatus, PriceState
  <1>5. ASSUME NEW to \in OrderStatus PROVE MoveOrder(row, to) \in Row
    BY DEF Row, MoveOrder
  <1>. QED  BY <1>1, <1>2, <1>3, <1>4, <1>5

\* INSERT INTO orders writes a row.
LEMMA NewRowTyped == NewRow("searching") \in Row
  BY DEF NewRow, Row, OrderStatus, PriceState

\* Setting a busy driver online leaves statuses of drivers.
LEMMA FreeDriverTyped ==
    ASSUME NEW drivers \in [Driver -> DriverStatus], NEW d
    PROVE  FreeDriver(drivers, d) \in [Driver -> DriverStatus]
  BY DEF FreeDriver, DriverStatus

\* A statement that writes one row, and perhaps a driver, keeps the tables typed.
LEMMA WriteOrder ==
    ASSUME DbTyped, NEW o \in Order, NEW row \in Row,
           ord' = [ord EXCEPT ![o] = row], drv' \in [Driver -> DriverStatus]
    PROVE  DbTyped'
  BY DEF DbTyped

\* A process inside a handler has the order, driver and task of its step.
LEMMA JobReady ==
    ASSUME TypeInv, NEW p \in Proc
    PROVE  /\ job[p] \in Job
           /\ ~ Idle(p) /\ ~ At(p, "stopped") => job[p].order \in Order
           /\ job[p].pc \in NeedsDriver => job[p].driver \in Driver
           /\ job[p].pc \in NeedsTask => job[p].task \in Task
  BY DEF TypeInv, TypeOK, JobsPrepared, Prepared, Idle, At

-----------------------------------------------------------------------------
(* Each action keeps the types.  In each lemma, the parts the action writes *)
(* come first; TypeFrame has the others.                                    *)

\* The steps that begin a dispatch.
LEMMA BeginSteps ==
    ASSUME TypeInv, NEW p \in Proc,
           BeginDispatch(p) \/ MarkSearching(p) \/ Publish(p)
    PROVE  TypeInv'
  <1>1. /\ JobsTyped /\ DbTyped /\ OffersTyped /\ KeysTyped /\ TasksTyped
        /\ CountsTyped
    BY TypeParts
  <1>2. ~ Idle(p) /\ ~ At(p, "stopped")
    BY DEF BeginDispatch, MarkSearching, Publish, Idle, At
  <1>3. job[p] \in Job /\ job[p].order \in Order
    BY <1>2, JobReady
  <1>4. CASE BeginDispatch(p)
    <2>1. JobsTyped'
      <3>1. Done(p) \/ Goto(p, "mark")
        BY <1>4 DEF BeginDispatch
      <3>. QED
        BY <3>1, <1>2, DoneTyped, GotoTyped
           DEF JobsTyped, PC, NeedsDriver, NeedsTask
    <2>2. KeysTyped'
      BY <1>1, <1>3, <1>4 DEF BeginDispatch, KeysTyped
    <2>. QED
      BY <1>1, <1>4, <2>1, <2>2, TypeFrame, TypePartsNext DEF BeginDispatch
  <1>5. CASE MarkSearching(p)
    <2>. DEFINE o == job[p].order
    <2>1. chains[o] + 1 \in Nat /\ NewTask(o, chains[o] + 1, 0, {}) \in Task
      BY <1>1, <1>3, NewTaskTyped DEF CountsTyped
    <2>2. JobsTyped'
      <3>1. (\E t \in Task : Start(p, "publish", o, NoDriver, t, {})) \/ Error(p)
        BY <1>5, <2>1 DEF MarkSearching
      <3>2. CASE Error(p)
        BY <3>2, ErrorTyped DEF JobsTyped
      <3>3. ASSUME NEW t \in Task, Start(p, "publish", o, NoDriver, t, {})
            PROVE  JobsTyped'
        BY <3>3, <1>3, StartTyped DEF JobsTyped, PC, NeedsDriver, NeedsTask
      <3>. QED  BY <3>1, <3>2, <3>3
    <2>3. DbTyped'
      <3>1. CASE UNCHANGED ord
        BY <3>1, <1>1, <1>5 DEF MarkSearching, DbTyped
      <3>2. CASE ord' = [ord EXCEPT ![o] = MarkOrderSearching(ord[o])]
        <4>1. MarkOrderSearching(ord[o]) \in Row
          BY <1>1, <1>3, RowsTyped DEF DbTyped
        <4>2. drv' \in [Driver -> DriverStatus]
          BY <1>1, <1>5 DEF MarkSearching, DbTyped
        <4>. QED  BY <1>1, <1>3, <3>2, <4>1, <4>2, WriteOrder
      <3>. QED  BY <1>5, <3>1, <3>2 DEF MarkSearching
    <2>4. CountsTyped'
      BY <1>1, <1>3, <1>5 DEF MarkSearching, CountsTyped
    <2>. QED
      BY <1>1, <1>5, <2>2, <2>3, <2>4, TypeFrame, TypePartsNext
         DEF MarkSearching, redis, offers
  <1>6. CASE Publish(p)
    <2>1. JobsTyped'
      BY <1>6, DoneTyped DEF Publish, JobsTyped
    <2>2. job[p].task \in Task
      BY <1>6, JobReady DEF Publish, At, NeedsTask
    <2>3. TasksTyped'
      BY <1>1, <1>6, <2>2 DEF Publish, TasksTyped
    <2>. QED
      BY <1>1, <1>6, <2>1, <2>3, TypeFrame, TypePartsNext DEF Publish
  <1>. QED  BY <1>4, <1>5, <1>6
\* Processing a task.
LEMMA ProcessSteps ==
    ASSUME TypeInv, NEW p \in Proc,
           \/ Consume(p) \/ Search(p) \/ Schedule(p)
           \/ \E d \in Driver : SaveOffer(p, d)
    PROVE  TypeInv'
  <1>1. /\ JobsTyped /\ DbTyped /\ OffersTyped /\ KeysTyped /\ TasksTyped
        /\ CountsTyped
    BY TypeParts
  <1>2. CASE Consume(p)
    <2>. DEFINE t == Head(queue)
                read == [t EXCEPT !.exclude = @ \union DeclinedDrivers(ord[t.order])]
    <2>1. t \in Task /\ Tail(queue) \in Seq(Task)
      BY <1>1, <1>2 DEF Consume, TasksTyped
    <2>2. t.order \in Order /\ read \in Task
      <3>1. ord[t.order] \in Row
        BY <1>1, <2>1 DEF Task, DbTyped
      <3>. QED  BY <2>1, <3>1, DeclinedTyped DEF Task
    <2>3. JobsTyped'
      <3>1. Start(p, "search", t.order, NoDriver, read, {}) \/ Done(p)
        BY <1>2 DEF Consume
      <3>2. CASE Done(p)
        BY <3>2, DoneTyped DEF JobsTyped
      <3>3. CASE Start(p, "search", t.order, NoDriver, read, {})
        <4>1. \E o \in Order, u \in Task, S \in SUBSET Driver :
                  Start(p, "search", o, NoDriver, u, S)
          BY <3>3, <2>2
        <4>. QED  BY <4>1, StartTaskTyped DEF JobsTyped, PC, NeedsDriver
      <3>. QED  BY <3>1, <3>2, <3>3
    <2>4. TasksTyped'
      BY <1>1, <1>2, <2>1 DEF Consume, TasksTyped
    <2>. QED
      BY <1>1, <1>2, <2>3, <2>4, TypeFrame, TypePartsNext DEF Consume
  <1>3. CASE Search(p)
    <2>1. job[p].task \in Task /\ job[p].task.order \in Order
      BY <1>3, JobReady DEF Search, At, NeedsTask, Task
    <2>2. ~ Idle(p) /\ ~ At(p, "stopped")
      BY <1>3 DEF Search, Idle, At
    <2>3. JobsTyped'
      <3>1. \/ \E found \in SUBSET Driver :
                  Start(p, "offer", job[p].task.order, NoDriver, job[p].task, found)
            \/ Goto(p, "schedule") \/ Goto(p, "fail")
        BY <1>3 DEF Search, Candidates
      <3>2. ASSUME NEW found \in SUBSET Driver,
                   Start(p, "offer", job[p].task.order, NoDriver, job[p].task, found)
            PROVE  JobsTyped'
        BY <3>2, <2>1, StartTyped DEF JobsTyped, PC, NeedsDriver, NeedsTask
      <3>3. ASSUME NEW pc \in {"schedule", "fail"}, Goto(p, pc)
            PROVE  JobsTyped'
        BY <3>3, <2>1, <2>2, GotoTyped DEF JobsTyped, PC, NeedsDriver, NeedsTask
      <3>. QED  BY <3>1, <3>2, <3>3
    <2>. QED
      BY <1>1, <1>3, <2>3, TypeFrame, TypePartsNext DEF Search, redis, offers
  <1>4. CASE Schedule(p)
    <2>1. job[p].task \in Task
      BY <1>4, JobReady DEF Schedule, At, NeedsTask
    <2>2. JobsTyped' /\ TasksTyped'
      BY <1>1, <1>4, <2>1, DoneTyped DEF Schedule, JobsTyped, TasksTyped
    <2>. QED
      BY <1>1, <1>4, <2>2, TypeFrame, TypePartsNext DEF Schedule
  <1>5. ASSUME NEW d \in Driver, SaveOffer(p, d) PROVE TypeInv'
    <2>1. /\ job[p] \in Job /\ Prepared(job[p])
          /\ job[p].order \in Order /\ job[p].task \in Task
      BY <1>5, JobReady
         DEF TypeInv, JobsPrepared, SaveOffer, At, Idle, NeedsTask
    <2>2. JobsTyped'
      <3>. DEFINE rest == job[p].todo \ {d}
                  j == [job[p] EXCEPT !.todo = rest,
                                      !.pc = IF rest = {} THEN "schedule" ELSE "offer"]
      <3>1. job' = [job EXCEPT ![p] = j]
        BY <1>5 DEF SaveOffer
      <3>2. j \in Job
        BY <2>1 DEF Job, PC
      <3>3. Prepared(j)
        BY <2>1 DEF Prepared, Job, NeedsDriver
      <3>. QED  BY <3>1, <3>2, <3>3, JobMoves DEF JobsTyped
    <2>3. OffersTyped'
      BY <1>1, <1>5, <2>1 DEF SaveOffer, OffersTyped, offers
    <2>. QED
      BY <1>1, <1>5, <2>2, <2>3, TypeFrame, TypePartsNext DEF SaveOffer
  <1>. QED  BY <1>2, <1>3, <1>4, <1>5

\* The ends of a dispatch.
LEMMA EndSteps ==
    ASSUME TypeInv, NEW p \in Proc,
           \/ FailNoDriversFound(p) \/ FinishDispatch(p) \/ ClearOffers(p)
           \/ \E t \in timeouts : TakeOfferTimeout(p, t)
           \/ Sweep(p)
    PROVE  TypeInv'
  <1>1. /\ JobsTyped /\ DbTyped /\ OffersTyped /\ KeysTyped /\ TasksTyped
        /\ CountsTyped
    BY TypeParts
  <1>2. CASE FailNoDriversFound(p)
    <2>. DEFINE o == job[p].order
    <2>1. ~ Idle(p) /\ ~ At(p, "stopped") /\ o \in Order
      BY <1>2, JobReady DEF FailNoDriversFound, Idle, At
    <2>2. JobsTyped'
      <3>1. Goto(p, "finish") \/ Error(p)
        BY <1>2 DEF FailNoDriversFound
      <3>. QED
        BY <3>1, <2>1, GotoTyped, ErrorTyped
           DEF JobsTyped, PC, NeedsDriver, NeedsTask
    <2>3. DbTyped'
      <3>1. FailOrder(ord[o]) \in Row
        BY <1>1, <2>1, RowsTyped DEF DbTyped
      <3>2. drv' \in [Driver -> DriverStatus]
        BY <1>1, <1>2 DEF FailNoDriversFound, DbTyped
      <3>3. UNCHANGED ord \/ ord' = [ord EXCEPT ![o] = FailOrder(ord[o])]
        BY <1>2 DEF FailNoDriversFound
      <3>. QED  BY <1>1, <2>1, <3>1, <3>2, <3>3, WriteOrder DEF DbTyped
    <2>. QED
      BY <1>1, <1>2, <2>2, <2>3, TypeFrame, TypePartsNext
         DEF FailNoDriversFound, redis, offers
  <1>3. CASE FinishDispatch(p)
    <2>1. JobsTyped'
      BY <1>3, DoneTyped DEF FinishDispatch, JobsTyped
    <2>2. KeysTyped'
      <3>1. Unlocked({p}) \in [Order -> Proc \union {NoProc}]
        BY <1>1, UnlockedTyped
      <3>. QED  BY <1>1, <1>3, <3>1 DEF FinishDispatch, KeysTyped
    <2>. QED
      BY <1>1, <1>3, <2>1, <2>2, TypeFrame, TypePartsNext DEF FinishDispatch
  <1>4. CASE ClearOffers(p)
    <2>1. ~ Idle(p) /\ ~ At(p, "stopped") /\ job[p].order \in Order
      BY <1>4, JobReady DEF ClearOffers, Idle, At
    <2>2. JobsTyped'
      BY <1>4, <2>1, GotoTyped DEF ClearOffers, JobsTyped, PC, NeedsDriver, NeedsTask
    <2>3. OffersTyped'
      BY <1>1, <1>4, <2>1, RemoveOffersTyped DEF ClearOffers
    <2>. QED
      BY <1>1, <1>4, <2>2, <2>3, TypeFrame, TypePartsNext DEF ClearOffers
  <1>5. ASSUME NEW t \in timeouts, TakeOfferTimeout(p, t) PROVE TypeInv'
    <2>1. t \in Task /\ t.order \in Order
      BY <1>1 DEF TasksTyped, Task
    <2>2. JobsTyped'
      <3>1. index[t.order] \in SUBSET Driver
        BY <1>1, <2>1 DEF OffersTyped
      <3>2. \/ Start(p, "sweep", t.order, NoDriver, t, index[t.order])
            \/ UNCHANGED job
        BY <1>5 DEF TakeOfferTimeout
      <3>3. CASE UNCHANGED job
        BY <1>1, <3>3, TypeFrame
      <3>4. CASE Start(p, "sweep", t.order, NoDriver, t, index[t.order])
        BY <3>4, <3>1, <2>1, StartTyped DEF JobsTyped, PC, NeedsDriver, NeedsTask
      <3>. QED  BY <3>2, <3>3, <3>4
    <2>3. TasksTyped'
      BY <1>1, <1>5 DEF TakeOfferTimeout, TasksTyped
    <2>. QED
      BY <1>1, <1>5, <2>2, <2>3, TypeFrame, TypePartsNext DEF TakeOfferTimeout
  <1>6. CASE Sweep(p)
    <2>. DEFINE t == job[p].task
                next == NextTask(t, job[p].todo)
    <2>1. ~ Idle(p) /\ ~ At(p, "stopped")
      BY <1>6 DEF Sweep, Idle, At
    <2>2. t \in Task /\ t.order \in Order /\ job[p].todo \in SUBSET Driver
      BY <1>6, JobReady DEF Sweep, At, NeedsTask, Task, Job
    <2>3. next \in Task
      BY <2>2, NextTaskTyped
    <2>4. JobsTyped'
      <3>1. \/ Goto(p, "fail")
            \/ \E o \in Order, u \in Task, S \in SUBSET Driver :
                  Start(p, "publish", o, NoDriver, u, S)
        BY <1>6, <2>2, <2>3 DEF Sweep
      <3>2. CASE Goto(p, "fail")
        BY <3>2, <2>1, GotoTyped DEF JobsTyped, PC, NeedsDriver, NeedsTask
      <3>3. ASSUME \E o \in Order, u \in Task, S \in SUBSET Driver :
                       Start(p, "publish", o, NoDriver, u, S)
            PROVE  JobsTyped'
        BY <3>3, StartTaskTyped DEF JobsTyped, PC, NeedsDriver
      <3>. QED  BY <3>1, <3>2, <3>3
    <2>5. OffersTyped'
      BY <1>1, <1>6, <2>2, RemoveOffersTyped DEF Sweep
    <2>6. TasksTyped'
      BY <1>1, <1>6 DEF Sweep, TasksTyped
    <2>. QED
      BY <1>1, <1>6, <2>4, <2>5, <2>6, TypeFrame, TypePartsNext DEF Sweep
  <1>. QED  BY <1>2, <1>3, <1>4, <1>5, <1>6
\* An acceptance.
LEMMA AcceptSteps ==
    ASSUME TypeInv, NEW p \in Proc,
           \/ \E o \in Order : \E d \in Driver : AcceptOffer(p, o, d)
           \/ Assign(p) \/ ArmConfirmation(p) \/ MarkDriverBusy(p)
    PROVE  TypeInv'
  <1>1. /\ JobsTyped /\ DbTyped /\ OffersTyped /\ KeysTyped /\ TasksTyped
        /\ CountsTyped
    BY TypeParts
  <1>2. Unlocked({p}) \in [Order -> Proc \union {NoProc}]
    BY <1>1, UnlockedTyped
  <1>3. ASSUME NEW o \in Order, NEW d \in Driver, AcceptOffer(p, o, d)
        PROVE  TypeInv'
    <2>1. JobsTyped'
      BY <1>3, StartTyped DEF AcceptOffer, JobsTyped, PC, NeedsDriver, NeedsTask
    <2>2. KeysTyped'
      BY <1>1, <1>3 DEF AcceptOffer, KeysTyped
    <2>. QED
      BY <1>1, <1>3, <2>1, <2>2, TypeFrame, TypePartsNext DEF AcceptOffer
  <1>4. CASE Assign(p)
    <2>. DEFINE o == job[p].order
                d == job[p].driver
                c == NewTask(o, Len(ord[o].declined), -1, {d})
    <2>1. o \in Order /\ d \in Driver
      BY <1>4, JobReady DEF Assign, Idle, At, NeedsDriver
    <2>2. c \in Task
      <3>1. Len(ord[o].declined) \in Nat
        BY <1>1, <2>1 DEF DbTyped, Row
      <3>. QED  BY <2>1, <3>1, NewTaskTyped
    <2>3. JobsTyped'
      <3>1. \/ Error(p)
            \/ \E pc \in {"arm", "busy"} : \E t \in Task \union {NoTask} :
                  (pc = "arm" => t \in Task) /\ Start(p, pc, o, d, t, {})
        BY <1>4, <2>2 DEF Assign
      <3>2. CASE Error(p)
        BY <3>2, ErrorTyped DEF JobsTyped
      <3>3. ASSUME NEW pc \in {"arm", "busy"}, NEW t \in Task \union {NoTask},
                   pc = "arm" => t \in Task, Start(p, pc, o, d, t, {})
            PROVE  JobsTyped'
        <4>1. pc \in PC /\ (pc \in NeedsTask => t \in Task)
          BY <3>3 DEF PC, NeedsTask
        <4>. QED  BY <3>3, <4>1, <2>1, StartTyped DEF JobsTyped
      <3>. QED  BY <3>1, <3>2, <3>3
    <2>4. DbTyped'
      <3>1. UNCHANGED ord
            \/ \E b : ord' = [ord EXCEPT ![o] = AssignDriver(ord[o], d, b)]
        BY <1>4 DEF Assign
      <3>2. \A b : AssignDriver(ord[o], d, b) \in Row
        BY <1>1, <2>1, RowsTyped DEF DbTyped
      <3>3. drv' \in [Driver -> DriverStatus]
        BY <1>1, <1>4 DEF Assign, DbTyped
      <3>. QED  BY <1>1, <2>1, <3>1, <3>2, <3>3, WriteOrder DEF DbTyped
    <2>5. KeysTyped'
      BY <1>1, <1>2, <1>4 DEF Assign, KeysTyped
    <2>. QED
      BY <1>1, <1>4, <2>3, <2>4, <2>5, TypeFrame, TypePartsNext DEF Assign
  <1>5. CASE ArmConfirmation(p)
    <2>1. job[p].order \in Order /\ job[p].driver \in Driver /\ job[p].task \in Task
      BY <1>5, JobReady DEF ArmConfirmation, Idle, At, NeedsDriver, NeedsTask
    <2>2. JobsTyped'
      <3>1. \E o \in Order, d \in Driver, t \in Task \union {NoTask} :
                Start(p, "busy", o, d, t, {})
        BY <1>5, <2>1 DEF ArmConfirmation
      <3>. QED  BY <3>1, StartDriverTyped DEF JobsTyped, PC, NeedsTask
    <2>3. TasksTyped'
      BY <1>1, <1>5, <2>1 DEF ArmConfirmation, TasksTyped
    <2>. QED
      BY <1>1, <1>5, <2>2, <2>3, TypeFrame, TypePartsNext DEF ArmConfirmation
  <1>6. CASE MarkDriverBusy(p)
    <2>1. job[p].order \in Order /\ job[p].driver \in Driver
      BY <1>6, JobReady DEF MarkDriverBusy, Idle, At, NeedsDriver
    <2>2. JobsTyped'
      <3>1. \/ Error(p)
            \/ \E o \in Order : Start(p, "clear", o, NoDriver, NoTask, {})
        BY <1>6, <2>1 DEF MarkDriverBusy
      <3>. QED
        BY <3>1, ErrorTyped, StartPlainTyped
           DEF JobsTyped, PC, NeedsDriver, NeedsTask
    <2>3. DbTyped'
      BY <1>1, <1>6, <2>1 DEF MarkDriverBusy, DbTyped, DriverStatus
    <2>4. KeysTyped'
      BY <1>1, <1>2, <1>6 DEF MarkDriverBusy, KeysTyped
    <2>. QED
      BY <1>1, <1>6, <2>2, <2>3, <2>4, TypeFrame, TypePartsNext DEF MarkDriverBusy
  <1>. QED  BY <1>3, <1>4, <1>5, <1>6

\* Answers that are one operation: to the price, to an offer, or none in time.
LEMMA AnswerSteps ==
    ASSUME TypeInv, NEW o \in Order,
           \/ ConfirmOrderPrice(o) \/ Lapse(o)
           \/ \E d \in Driver : RejectOffer(o, d)
    PROVE  TypeInv'
  <1>1. /\ JobsTyped /\ DbTyped /\ OffersTyped /\ KeysTyped /\ TasksTyped
        /\ CountsTyped
    BY TypeParts
  <1>2. CASE ConfirmOrderPrice(o) \/ Lapse(o)
    <2>1. DbTyped'
      <3>1. /\ ConfirmDriverPrice(ord[o]) \in Row
            /\ [ord[o] EXCEPT !.lapsed = TRUE] \in Row
        BY <1>1, RowsTyped DEF DbTyped
      <3>2. \/ ord' = [ord EXCEPT ![o] = ConfirmDriverPrice(ord[o])]
            \/ ord' = [ord EXCEPT ![o] = [ord[o] EXCEPT !.lapsed = TRUE]]
        BY <1>2 DEF ConfirmOrderPrice, Lapse
      <3>3. drv' \in [Driver -> DriverStatus]
        BY <1>1, <1>2 DEF ConfirmOrderPrice, Lapse, DbTyped
      <3>. QED  BY <1>1, <3>1, <3>2, <3>3, WriteOrder
    <2>. QED
      BY <1>1, <1>2, <2>1, TypeFrame, TypePartsNext
         DEF ConfirmOrderPrice, Lapse, redis, offers
  <1>3. ASSUME NEW d \in Driver, RejectOffer(o, d)
        PROVE  TypeInv'
    <2>1. OffersTyped'
      BY <1>1, <1>3 DEF RejectOffer, OffersTyped
    <2>. QED
      BY <1>1, <1>3, <2>1, TypeFrame, TypePartsNext DEF RejectOffer
  <1>. QED  BY <1>2, <1>3

\* A reservation that is given back.
LEMMA PriceSteps ==
    ASSUME TypeInv, NEW p \in Proc,
           \/ \E o \in Order : DeclineOrderPrice(p, o) \/ RecoverExpired(p, o)
           \/ \E t \in timeouts : TakeConfirmationTimeout(p, t)
           \/ Release(p) \/ RebeginDispatch(p) \/ Republish(p)
    PROVE  TypeInv'
  <1>1. /\ JobsTyped /\ DbTyped /\ OffersTyped /\ KeysTyped /\ TasksTyped
        /\ CountsTyped
    BY TypeParts
  <1>3. ASSUME NEW o \in Order, DeclineOrderPrice(p, o) \/ RecoverExpired(p, o)
        PROVE  TypeInv'
    <2>1. ord[o].driver \in Driver
      BY <1>1, <1>3
         DEF DeclineOrderPrice, RecoverExpired, ListedExpired, Expired, DbTyped, Row
    <2>2. JobsTyped'
      <3>1. \E q \in Order, d \in Driver, t \in Task \union {NoTask} :
                Start(p, "release", q, d, t, {})
        BY <1>3, <2>1 DEF DeclineOrderPrice, RecoverExpired
      <3>. QED  BY <3>1, StartDriverTyped DEF JobsTyped, PC, NeedsTask
    <2>. QED
      BY <1>1, <1>3, <2>2, TypeFrame, TypePartsNext
         DEF DeclineOrderPrice, RecoverExpired, redis, offers
  <1>4. ASSUME NEW t \in timeouts, TakeConfirmationTimeout(p, t) PROVE TypeInv'
    <2>1. t \in Task /\ t.order \in Order
      BY <1>1 DEF TasksTyped, Task
    <2>2. JobsTyped'
      <3>1. \/ UNCHANGED job
            \/ /\ Start(p, "release", t.order, ord[t.order].driver, t, {})
               /\ ord[t.order].driver \in Driver
        BY <1>1, <1>4, <2>1 DEF TakeConfirmationTimeout, Expired, DbTyped, Row
      <3>2. CASE UNCHANGED job
        BY <1>1, <3>2, TypeFrame
      <3>3. CASE /\ Start(p, "release", t.order, ord[t.order].driver, t, {})
                 /\ ord[t.order].driver \in Driver
        BY <3>3, <2>1, StartTyped DEF JobsTyped, PC, NeedsDriver, NeedsTask
      <3>. QED  BY <3>1, <3>2, <3>3
    <2>3. TasksTyped'
      BY <1>1, <1>4 DEF TakeConfirmationTimeout, TasksTyped
    <2>. QED
      BY <1>1, <1>4, <2>2, <2>3, TypeFrame, TypePartsNext DEF TakeConfirmationTimeout
  <1>5. CASE Release(p)
    <2>. DEFINE o == job[p].order
    <2>1. /\ ~ Idle(p) /\ ~ At(p, "stopped")
          /\ o \in Order /\ job[p].driver \in Driver
      BY <1>5, JobReady DEF Release, Idle, At, NeedsDriver
    <2>2. JobsTyped'
      <3>1. Goto(p, "rebegin") \/ Error(p)
        BY <1>5 DEF Release
      <3>. QED
        BY <3>1, <2>1, GotoTyped, ErrorTyped
           DEF JobsTyped, PC, NeedsDriver, NeedsTask
    <2>3. DbTyped'
      <3>1. CASE UNCHANGED db
        BY <1>1, <3>1, TypeFrame
      <3>2. CASE /\ CanReleaseDriverReservation(ord[o], job[p].driver)
                 /\ ord' = [ord EXCEPT ![o] = ReleaseDriverReservation(ord[o])]
                 /\ drv' = FreeDriver(drv, job[p].driver)
        <4>1. ReleaseDriverReservation(ord[o]) \in Row
          BY <1>1, <2>1, <3>2, RowsTyped DEF CanReleaseDriverReservation, DbTyped
        <4>2. drv' \in [Driver -> DriverStatus]
          BY <1>1, <3>2, FreeDriverTyped DEF DbTyped
        <4>. QED  BY <1>1, <2>1, <3>2, <4>1, <4>2, WriteOrder
      <3>. QED  BY <1>5, <3>1, <3>2 DEF Release
    <2>. QED
      BY <1>1, <1>5, <2>2, <2>3, TypeFrame, TypePartsNext DEF Release, redis, offers
  <1>6. CASE RebeginDispatch(p)
    <2>1. /\ ~ Idle(p) /\ ~ At(p, "stopped")
          /\ job[p].order \in Order /\ job[p].driver \in Driver
      BY <1>6, JobReady DEF RebeginDispatch, Idle, At, NeedsDriver
    <2>2. JobsTyped'
      BY <1>6, <2>1, GotoTyped
         DEF RebeginDispatch, JobsTyped, PC, NeedsDriver, NeedsTask
    <2>3. KeysTyped'
      BY <1>1, <1>6, <2>1 DEF RebeginDispatch, KeysTyped
    <2>. QED
      BY <1>1, <1>6, <2>2, <2>3, TypeFrame, TypePartsNext DEF RebeginDispatch
  <1>7. CASE Republish(p)
    <2>. DEFINE o == job[p].order
    <2>1. o \in Order /\ job[p].driver \in Driver
      BY <1>7, JobReady DEF Republish, Idle, At, NeedsDriver
    <2>2. chains[o] + 1 \in Nat /\ {job[p].driver} \in SUBSET Driver
      BY <1>1, <2>1 DEF CountsTyped
    <2>3. NewTask(o, chains[o] + 1, 0, {job[p].driver}) \in Task
      <3>. HIDE DEF o
      <3>. QED  BY <2>1, <2>2 DEF NewTask, Task
    <2>4. JobsTyped'
      BY <1>7, DoneTyped DEF Republish, JobsTyped
    <2>5. TasksTyped'
      BY <1>1, <1>7, <2>3 DEF Republish, TasksTyped
    <2>6. CountsTyped'
      BY <1>1, <1>7, <2>1, <2>2 DEF Republish, CountsTyped
    <2>. QED
      BY <1>1, <1>7, <2>4, <2>5, <2>6, TypeFrame, TypePartsNext DEF Republish
  <1>. QED  BY <1>3, <1>4, <1>5, <1>6, <1>7

\* Orders that are created, recovered, moved on and cancelled.
LEMMA RequestSteps ==
    ASSUME TypeInv, NEW o \in Order,
           \/ \E p \in Proc : Submit(p, o) \/ RecoverSearch(p, o) \/ CancelByPark(p, o)
           \/ CancelByPassenger(o)
           \/ \E to \in Moves : MoveByDriver(o, to)
    PROVE  TypeInv'
  <1>1. /\ JobsTyped /\ DbTyped /\ OffersTyped /\ KeysTyped /\ TasksTyped
        /\ CountsTyped
    BY TypeParts
  <1>2. drv \in [Driver -> DriverStatus] /\ ord[o] \in Row
    BY <1>1 DEF DbTyped
  <1>3. \A d : FreeDriver(drv, d) \in [Driver -> DriverStatus]
    BY <1>2, FreeDriverTyped
  <1>4. Moves \subseteq OrderStatus /\ "cancelled" \in OrderStatus
    BY MovesAssumption DEF Underway, OrderStatus
  <1>5. ASSUME NEW p \in Proc, Submit(p, o) PROVE TypeInv'
    <2>1. JobsTyped'
      BY <1>5, StartPlainTyped DEF Submit, JobsTyped, PC, NeedsDriver, NeedsTask
    <2>2. DbTyped'
      BY <1>1, <1>2, <1>5, NewRowTyped, WriteOrder DEF Submit
    <2>. QED
      BY <1>1, <1>5, <2>1, <2>2, TypeFrame, TypePartsNext DEF Submit, redis, offers
  <1>6. ASSUME NEW p \in Proc, RecoverSearch(p, o) PROVE TypeInv'
    <2>1. JobsTyped'
      BY <1>6, StartPlainTyped DEF RecoverSearch, JobsTyped, PC, NeedsDriver, NeedsTask
    <2>. QED
      BY <1>1, <1>6, <2>1, TypeFrame, TypePartsNext DEF RecoverSearch, redis, offers
  <1>7. ASSUME NEW p \in Proc, CancelByPark(p, o) PROVE TypeInv'
    <2>1. JobsTyped'
      BY <1>7, StartPlainTyped DEF CancelByPark, JobsTyped, PC, NeedsDriver, NeedsTask
    <2>2. DbTyped'
      <3>1. MoveOrder(ord[o], "cancelled") \in Row
        BY <1>2, <1>4, RowsTyped
      <3>. QED  BY <1>1, <1>3, <1>7, <3>1, WriteOrder DEF CancelByPark
    <2>. QED
      BY <1>1, <1>7, <2>1, <2>2, TypeFrame, TypePartsNext
         DEF CancelByPark, redis, offers
  <1>8. CASE CancelByPassenger(o)
    <2>1. DbTyped'
      <3>1. MoveOrder(ord[o], "cancelled") \in Row
        BY <1>2, <1>4, RowsTyped
      <3>. QED  BY <1>1, <1>3, <1>8, <3>1, WriteOrder DEF CancelByPassenger
    <2>. QED
      BY <1>1, <1>8, <2>1, TypeFrame, TypePartsNext
         DEF CancelByPassenger, redis, offers
  <1>9. ASSUME NEW to \in Moves, MoveByDriver(o, to) PROVE TypeInv'
    <2>1. DbTyped'
      <3>1. MoveOrder(ord[o], to) \in Row
        BY <1>2, <1>4, RowsTyped
      <3>2. drv' \in [Driver -> DriverStatus]
        BY <1>2, <1>3, <1>9 DEF MoveByDriver
      <3>. QED  BY <1>1, <1>9, <3>1, <3>2, WriteOrder DEF MoveByDriver
    <2>. QED
      BY <1>1, <1>9, <2>1, TypeFrame, TypePartsNext DEF MoveByDriver, redis, offers
  <1>. QED  BY <1>5, <1>6, <1>7, <1>8, <1>9

\* Drivers that come and go, TTLs that run out, and faults.
LEMMA EnvironmentSteps ==
    ASSUME TypeInv,
           \/ \E d \in Driver : Presence(d)
           \/ \E o \in Order : \/ ExpireIndex(o) \/ ExpireDispatching(o) \/ ExpireLock(o)
                               \/ \E d \in Driver : ExpireOffer(o, d)
           \/ \E p \in Proc : IOError(p)
           \/ \E P \in Instances : Crash(P)
    PROVE  TypeInv'
  <1>1. /\ JobsTyped /\ DbTyped /\ OffersTyped /\ KeysTyped /\ TasksTyped
        /\ CountsTyped
    BY TypeParts
  <1>2. ASSUME NEW d \in Driver, Presence(d) PROVE TypeInv'
    <2>1. DbTyped'
      BY <1>1, <1>2 DEF Presence, GoOnline, GoOffline, GoStale, DbTyped, DriverStatus
    <2>. QED
      BY <1>1, <1>2, <2>1, TypeFrame, TypePartsNext
         DEF Presence, GoOnline, GoOffline, GoStale, redis, offers
  <1>3. ASSUME NEW o \in Order, ExpireIndex(o) \/ \E d \in Driver : ExpireOffer(o, d)
        PROVE  TypeInv'
    <2>1. OffersTyped'
      BY <1>1, <1>3 DEF ExpireIndex, ExpireOffer, OffersTyped
    <2>. QED
      BY <1>1, <1>3, <2>1, TypeFrame, TypePartsNext DEF ExpireIndex, ExpireOffer
  <1>4. ASSUME NEW o \in Order, ExpireDispatching(o) \/ ExpireLock(o)
        PROVE  TypeInv'
    <2>1. KeysTyped'
      BY <1>1, <1>4 DEF ExpireDispatching, ExpireLock, KeysTyped
    <2>2. CountsTyped'
      BY <1>1, <1>4 DEF ExpireDispatching, ExpireLock, Fault, CountsTyped
    <2>. QED
      BY <1>1, <1>4, <2>1, <2>2, TypeFrame, TypePartsNext
         DEF ExpireDispatching, ExpireLock
  <1>5. ASSUME NEW p \in Proc, IOError(p) PROVE TypeInv'
    <2>1. Unlocked({p}) \in [Order -> Proc \union {NoProc}]
      BY <1>1, UnlockedTyped
    <2>2. KeysTyped' /\ CountsTyped'
      <3>1. lock' \in {lock, Unlocked({p})} /\ UNCHANGED <<dispatching, chains>>
        BY <1>5 DEF IOError
      <3>2. faults' = faults + 1
        BY <1>5 DEF IOError, Fault
      <3>. QED  BY <1>1, <2>1, <3>1, <3>2 DEF KeysTyped, CountsTyped
    <2>3. JobsTyped'
      <3>1. Error(p) \/ (Idle(p) /\ Goto(p, "stopped"))
        BY <1>5 DEF IOError
      <3>2. CASE Idle(p) /\ Goto(p, "stopped")
        <4>. DEFINE j == [job[p] EXCEPT !.pc = "stopped"]
        <4>1. job[p] \in Job
          BY <1>1 DEF JobsTyped
        <4>2. j \in Job /\ Prepared(j)
          BY <4>1 DEF Job, PC, Prepared, NeedsDriver, NeedsTask
        <4>. QED  BY <3>2, <4>1, <4>2, JobMoves DEF Goto, JobsTyped
      <3>. QED  BY <3>1, <3>2, ErrorTyped DEF JobsTyped
    <2>. QED
      BY <1>1, <1>5, <2>2, <2>3, TypeFrame, TypePartsNext DEF IOError
  <1>6. ASSUME NEW P \in Instances, Crash(P) PROVE TypeInv'
    <2>1. CountsTyped'
      BY <1>1, <1>6 DEF Crash, Fault, CountsTyped
    <2>2. JobsTyped'
      <3>1. Rest \in Job /\ Prepared(Rest)
        BY DEF Rest, NewJob, Job, PC, Prepared, NeedsDriver, NeedsTask
      <3>2. \A q \in Proc : job'[q] \in {Rest, job[q]}
        BY <1>6 DEF Crash
      <3>3. job' \in [Proc -> Job]
        BY <1>1, <1>6, <3>1 DEF Crash, JobsTyped
      <3>4. ASSUME NEW q \in Proc PROVE Prepared(job'[q])
        BY <1>1, <3>1, <3>2 DEF JobsTyped, JobsPrepared
      <3>. QED  BY <3>3, <3>4 DEF JobsTyped, JobsPrepared, Prepared
    <2>. QED
      BY <1>1, <1>6, <2>1, <2>2, TypeFrame, TypePartsNext DEF Crash, redis, offers
  <1>. QED  BY <1>2, <1>3, <1>4, <1>5, <1>6

\* A step of dispatch is one of the groups above, or none.
LEMMA TypeStep == TypeInv /\ [Next]_vars => TypeInv'
  <1>. SUFFICES ASSUME TypeInv, [Next]_vars PROVE TypeInv'
    OBVIOUS
  <1>1. CASE UNCHANGED vars
    BY <1>1, TypeParts, TypePartsNext, TypeFrame DEF vars, db, offers
  <1>2. ASSUME NEW p \in Proc, Step(p) PROVE TypeInv'
    BY <1>2, BeginSteps, ProcessSteps, EndSteps, AcceptSteps, PriceSteps DEF Step
  <1>3. ASSUME NEW p \in Proc, Request(p) PROVE TypeInv'
    BY <1>3, RequestSteps, PriceSteps, AcceptSteps DEF Request
  <1>4. ASSUME NEW p \in Proc, Consume(p) \/ TakeTimeout(p) \/ Recover(p) \/ IOError(p)
        PROVE  TypeInv'
    BY <1>4, ProcessSteps, EndSteps, PriceSteps, RequestSteps, EnvironmentSteps
       DEF TakeTimeout, Recover
  <1>5. ASSUME NEW o \in Order, ShortRequest(o) PROVE TypeInv'
    BY <1>5, AnswerSteps, RequestSteps DEF ShortRequest
  <1>6. ASSUME NEW o \in Order, Expiry(o) PROVE TypeInv'
    BY <1>6, AnswerSteps, EnvironmentSteps DEF Expiry
  <1>7. ASSUME \/ \E d \in Driver : Presence(d)
               \/ \E P \in Instances : Crash(P)
        PROVE  TypeInv'
    BY <1>7, EnvironmentSteps
  <1>. QED  BY <1>1, <1>2, <1>3, <1>4, <1>5, <1>6, <1>7 DEF Next

\* TypeOK holds throughout: whatever order the goroutines interleave in, the
\* rows, keys, tasks and local variables of the code keep their types.
THEOREM TypeCorrect == Spec => []TypeOK
  <1>1. TypeInv => TypeOK
    BY DEF TypeInv
  <1>. QED  BY TypeInit, TypeStep, <1>1, PTL DEF Spec

-----------------------------------------------------------------------------
(* What dispatch promises about the row of an order.  All of it rests on    *)
(* one lemma, OrderSteps: whatever handler or loop takes a step, at most    *)
(* one row changes, and by one of the nine statements of RowStep under its  *)
(* own guard.                                                               *)

\* The statuses drivers and parks ask for.
Asked == Underway \union {"cancelled"}

\* new is what one statement makes of the row of o.
RowStep(o, new) ==
    LET row == ord[o] IN
    \/ row.status = "absent" /\ new = NewRow("searching")
    \/ CanMarkOrderSearching(row) /\ new = MarkOrderSearching(row)
    \/ CanFailOrder(row) /\ new = FailOrder(row)
    \/ \E d \in Driver : \E b \in BOOLEAN :
           CanAssignDriver(ord, drv, o, d) /\ new = AssignDriver(row, d, b)
    \/ CanConfirmDriverPrice(row) /\ new = ConfirmDriverPrice(row)
    \/ row.price = "pending" /\ new = [row EXCEPT !.lapsed = TRUE]
    \/ \E d \in Driver : /\ CanReleaseDriverReservation(row, d)
                         /\ new = ReleaseDriverReservation(row)
    \/ CanCancelPassengerOrder(row) /\ new = MoveOrder(row, "cancelled")
    \/ \E to \in Asked :
           /\ row.status # "absent" /\ CanMoveOrder(row, to)
           /\ row.driver # NoDriver \/ to = "cancelled"
           /\ new = MoveOrder(row, to)

OrderStep == \E o \in Order : \E new \in Row :
                 RowStep(o, new) /\ ord' = [ord EXCEPT ![o] = new]

\* A statement writes a well-formed row, so a step by RowStep is an OrderStep.
LEMMA RowStepTyped ==
    ASSUME TypeInv, NEW o \in Order, NEW new, RowStep(o, new),
           ord' = [ord EXCEPT ![o] = new]
    PROVE  OrderStep
  <1>1. ord[o] \in Row
    BY DEF TypeInv, TypeOK
  <1>2. Asked \subseteq OrderStatus /\ "cancelled" \in OrderStatus
    BY DEF Asked, Underway, OrderStatus
  <1>3. \A d \in Driver : CanReleaseDriverReservation(ord[o], d) => ord[o].driver \in Driver
    BY DEF CanReleaseDriverReservation
  <1>4. new \in Row
    BY <1>1, <1>2, <1>3, RowsTyped, NewRowTyped DEF RowStep
  <1>. QED  BY <1>4 DEF OrderStep

\* Whatever a process is doing, it writes orders only by these statements.
LEMMA ProcessOrderSteps ==
    ASSUME TypeInv, NEW p \in Proc, Step(p)
    PROVE  OrderStep \/ UNCHANGED ord
  <1>. DEFINE o == job[p].order
              d == job[p].driver
  <1>1. CASE MarkSearching(p)
    <2>1. o \in Order
      BY <1>1, JobReady DEF MarkSearching, Idle, At
    <2>2. CASE /\ CanMarkOrderSearching(ord[o])
               /\ ord' = [ord EXCEPT ![o] = MarkOrderSearching(ord[o])]
      <3>1. RowStep(o, MarkOrderSearching(ord[o]))
        BY <2>2 DEF RowStep
      <3>. QED  BY <2>1, <2>2, <3>1, RowStepTyped
    <2>. QED  BY <1>1, <2>2 DEF MarkSearching
  <1>2. CASE FailNoDriversFound(p)
    <2>1. o \in Order
      BY <1>2, JobReady DEF FailNoDriversFound, Idle, At
    <2>2. CASE /\ CanFailOrder(ord[o])
               /\ ord' = [ord EXCEPT ![o] = FailOrder(ord[o])]
      <3>1. RowStep(o, FailOrder(ord[o]))
        BY <2>2 DEF RowStep
      <3>. QED  BY <2>1, <2>2, <3>1, RowStepTyped
    <2>. QED  BY <1>2, <2>2 DEF FailNoDriversFound
  <1>3. CASE Assign(p)
    <2>1. o \in Order /\ d \in Driver
      BY <1>3, JobReady DEF Assign, Idle, At, NeedsDriver
    <2>. DEFINE b == o \notin ParkOrder
    <2>2. CASE /\ CanAssignDriver(ord, drv, o, d)
               /\ ord' = [ord EXCEPT ![o] = AssignDriver(ord[o], d, b)]
      <3>1. RowStep(o, AssignDriver(ord[o], d, b))
        BY <2>1, <2>2 DEF RowStep
      <3>. QED  BY <2>1, <2>2, <3>1, RowStepTyped
    <2>. QED  BY <1>3, <2>2 DEF Assign
  <1>4. CASE Release(p)
    <2>1. o \in Order /\ d \in Driver
      BY <1>4, JobReady DEF Release, Idle, At, NeedsDriver
    <2>2. CASE /\ CanReleaseDriverReservation(ord[o], d)
               /\ ord' = [ord EXCEPT ![o] = ReleaseDriverReservation(ord[o])]
      <3>1. RowStep(o, ReleaseDriverReservation(ord[o]))
        BY <2>1, <2>2 DEF RowStep
      <3>. QED  BY <2>1, <2>2, <3>1, RowStepTyped
    <2>. QED  BY <1>4, <2>2 DEF Release, db
  <1>5. CASE BeginDispatch(p) \/ Publish(p) \/ FinishDispatch(p)
    BY <1>5 DEF BeginDispatch, Publish, FinishDispatch, db
  <1>6. CASE Search(p) \/ Schedule(p) \/ Sweep(p) \/ \E e \in Driver : SaveOffer(p, e)
    BY <1>6 DEF Search, Schedule, Sweep, SaveOffer, db
  <1>7. CASE \/ ArmConfirmation(p) \/ MarkDriverBusy(p) \/ ClearOffers(p)
             \/ RebeginDispatch(p) \/ Republish(p)
    BY <1>7 DEF ArmConfirmation, MarkDriverBusy, ClearOffers, RebeginDispatch,
                Republish, db
  <1>. QED  BY <1>1, <1>2, <1>3, <1>4, <1>5, <1>6, <1>7 DEF Step

\* So do the requests of passengers, drivers and parks, and the deadline.
LEMMA RequestOrderSteps ==
    ASSUME TypeInv, NEW o \in Order,
           \/ \E p \in Proc : Submit(p, o) \/ CancelByPark(p, o)
           \/ ConfirmOrderPrice(o) \/ Lapse(o) \/ CancelByPassenger(o)
           \/ \E to \in Moves : MoveByDriver(o, to)
    PROVE  OrderStep
  <1>1. ASSUME NEW p \in Proc, Submit(p, o) PROVE OrderStep
    <2>1. RowStep(o, NewRow("searching"))
      BY <1>1 DEF Submit, RowStep
    <2>. QED  BY <1>1, <2>1, RowStepTyped DEF Submit
  <1>2. ASSUME NEW p \in Proc, CancelByPark(p, o) PROVE OrderStep
    <2>1. RowStep(o, MoveOrder(ord[o], "cancelled"))
      BY <1>2 DEF CancelByPark, RowStep, Asked
    <2>. QED  BY <1>2, <2>1, RowStepTyped DEF CancelByPark
  <1>3. CASE ConfirmOrderPrice(o)
    <2>1. RowStep(o, ConfirmDriverPrice(ord[o]))
      BY <1>3 DEF ConfirmOrderPrice, RowStep
    <2>. QED  BY <1>3, <2>1, RowStepTyped DEF ConfirmOrderPrice
  <1>4. CASE Lapse(o)
    <2>1. RowStep(o, [ord[o] EXCEPT !.lapsed = TRUE])
      BY <1>4 DEF Lapse, RowStep
    <2>2. ord' = [ord EXCEPT ![o] = [ord[o] EXCEPT !.lapsed = TRUE]]
      BY <1>4 DEF Lapse
    <2>. QED  BY <2>1, <2>2, RowStepTyped
  <1>5. CASE CancelByPassenger(o)
    <2>1. RowStep(o, MoveOrder(ord[o], "cancelled"))
      BY <1>5 DEF CancelByPassenger, RowStep
    <2>. QED  BY <1>5, <2>1, RowStepTyped DEF CancelByPassenger
  <1>6. ASSUME NEW to \in Moves, MoveByDriver(o, to) PROVE OrderStep
    <2>1. to \in Asked
      BY MovesAssumption DEF Asked
    <2>2. RowStep(o, MoveOrder(ord[o], to))
      BY <1>6, <2>1 DEF MoveByDriver, RowStep
    <2>. QED  BY <1>6, <2>2, RowStepTyped DEF MoveByDriver
  <1>. QED  BY <1>1, <1>2, <1>3, <1>4, <1>5, <1>6

\* Every step writes at most one row, by one statement of RowStep.
LEMMA OrderSteps ==
    ASSUME TypeInv, [Next]_vars
    PROVE  OrderStep \/ UNCHANGED ord
  <1>1. CASE UNCHANGED vars
    BY <1>1 DEF vars
  <1>2. ASSUME NEW p \in Proc, Step(p) PROVE OrderStep \/ UNCHANGED ord
    BY <1>2, ProcessOrderSteps
  <1>3. ASSUME NEW p \in Proc, Request(p) PROVE OrderStep \/ UNCHANGED ord
    BY <1>3, RequestOrderSteps DEF Request, DeclineOrderPrice, AcceptOffer, db
  <1>4. ASSUME NEW p \in Proc, Consume(p) \/ TakeTimeout(p) \/ Recover(p) \/ IOError(p)
        PROVE  UNCHANGED ord
    BY <1>4 DEF Consume, TakeTimeout, Recover, IOError, TakeOfferTimeout,
                TakeConfirmationTimeout, RecoverSearch, RecoverExpired, db
  <1>5. ASSUME NEW o \in Order, ShortRequest(o) \/ Expiry(o)
        PROVE  OrderStep \/ UNCHANGED ord
    BY <1>5, RequestOrderSteps
       DEF ShortRequest, Expiry, RejectOffer, ExpireIndex, ExpireDispatching,
           ExpireLock, ExpireOffer, db
  <1>6. ASSUME \/ \E d \in Driver : Presence(d)
               \/ \E P \in Instances : Crash(P)
        PROVE  UNCHANGED ord
    BY <1>6 DEF Presence, GoOnline, GoOffline, GoStale, Crash, db
  <1>. QED  BY <1>1, <1>2, <1>3, <1>4, <1>5, <1>6 DEF Next
-----------------------------------------------------------------------------
(* The columns written together stay together.  ReservationConsistent says  *)
(* nothing of "created", a status dispatch starts from and never writes;    *)
(* the invariant treats it as the other statuses before a reservation.      *)

RowConsistent(row) ==
    /\ row.status \in {"absent", "created", "searching", "failed"} =>
           row.driver = NoDriver /\ row.price = "none"
    /\ row.status = "driver_assigned" =>
           row.driver # NoDriver /\ row.price \in {"pending", "confirmed"}
    /\ row.status \in Underway =>
           row.driver # NoDriver /\ row.price = "confirmed"

RowInv == TypeInv /\ \A o \in Order : RowConsistent(ord[o])

\* Each statement keeps a row consistent.
LEMMA RowStepConsistent ==
    ASSUME RowInv, NEW o \in Order, NEW new, RowStep(o, new)
    PROVE  RowConsistent(new)
  <1>. DEFINE row == ord[o]
  <1>1. row \in Row /\ RowConsistent(row)
    BY DEF RowInv, TypeInv, TypeOK
  <1>2. CASE row.status = "absent" /\ new = NewRow("searching")
    BY <1>2 DEF NewRow, RowConsistent, Underway
  <1>3. CASE CanMarkOrderSearching(row) /\ new = MarkOrderSearching(row)
    BY <1>1, <1>3 DEF CanMarkOrderSearching, MarkOrderSearching, RowConsistent, Underway, Row
  <1>4. CASE CanFailOrder(row) /\ new = FailOrder(row)
    BY <1>1, <1>4 DEF CanFailOrder, FailOrder, RowConsistent, Underway, Row
  <1>5. ASSUME NEW d \in Driver, NEW b \in BOOLEAN, new = AssignDriver(row, d, b)
        PROVE  RowConsistent(new)
    BY <1>1, <1>5, NoDriverAssumption DEF AssignDriver, RowConsistent, Underway, Row
  <1>6. CASE CanConfirmDriverPrice(row) /\ new = ConfirmDriverPrice(row)
    BY <1>1, <1>6 DEF CanConfirmDriverPrice, ConfirmDriverPrice, RowConsistent, Underway, Row
  <1>7. CASE new = [row EXCEPT !.lapsed = TRUE]
    BY <1>1, <1>7 DEF RowConsistent, Row
  <1>8. CASE new = ReleaseDriverReservation(row)
    BY <1>1, <1>8 DEF ReleaseDriverReservation, RowConsistent, Underway, Row
  <1>9. CASE new = MoveOrder(row, "cancelled")
    BY <1>1, <1>9 DEF MoveOrder, RowConsistent, Underway, Row
  <1>10. ASSUME NEW to \in Asked, CanMoveOrder(row, to), row.status # "absent",
                row.driver # NoDriver \/ to = "cancelled", new = MoveOrder(row, to)
         PROVE  RowConsistent(new)
    <2>1. CASE to = "cancelled"
      BY <1>9, <1>10, <2>1
    <2>2. CASE to \in Underway /\ row.driver # NoDriver
      <3>1. row.status \in Underway \/ row.status = "driver_assigned"
        BY <1>1, <1>10, <2>2
           DEF CanMoveOrder, CanTransitionOrderStatus, AllowedTransitions,
               RowConsistent, Underway, Row, OrderStatus
      <3>2. row.price = "confirmed"
        BY <1>1, <1>10, <2>2, <3>1 DEF CanMoveOrder, RowConsistent, Underway
      <3>. QED  BY <1>1, <1>10, <2>2, <3>2 DEF MoveOrder, RowConsistent, Underway, Row
    <2>. QED  BY <1>10, <2>1, <2>2 DEF Asked
  <1>. QED
    BY <1>2, <1>3, <1>4, <1>5, <1>6, <1>7, <1>8, <1>9, <1>10 DEF RowStep

\* No order exists at start, so every row is consistent.
LEMMA RowInit == Init => RowInv
  BY TypeInit DEF Init, RowInv, RowConsistent, NewRow, Underway

\* RowInv is inductive.
LEMMA RowStepInv == RowInv /\ [Next]_vars => RowInv'
  <1>. SUFFICES ASSUME RowInv, [Next]_vars PROVE RowInv'
    OBVIOUS
  <1>1. TypeInv /\ TypeInv'
    BY TypeStep DEF RowInv
  <1>2. ASSUME NEW o \in Order PROVE RowConsistent(ord'[o])
    <2>1. CASE UNCHANGED ord
      BY <2>1 DEF RowInv
    <2>2. CASE OrderStep
      <3>1. PICK q \in Order, new \in Row :
                RowStep(q, new) /\ ord' = [ord EXCEPT ![q] = new]
        BY <2>2 DEF OrderStep
      <3>2. RowConsistent(new)
        BY <3>1, RowStepConsistent
      <3>. QED  BY <1>1, <3>1, <3>2 DEF RowInv, TypeInv, TypeOK
    <2>. QED  BY <1>1, <2>1, <2>2, OrderSteps
  <1>. QED  BY <1>1, <1>2 DEF RowInv, RowConsistent

\* Whatever an acceptance, a release, a failure or a cancellation races with,
\* the driver, the price and the status of an order agree.
THEOREM ReservationsConsistent == Spec => []ReservationConsistent
  <1>1. RowInv => ReservationConsistent
    BY DEF RowInv, RowConsistent, ReservationConsistent
  <1>. QED  BY RowInit, RowStepInv, <1>1, PTL DEF Spec

-----------------------------------------------------------------------------
(* What the passenger has agreed to is final.                               *)

\* No statement takes a confirmed price or its driver away.
LEMMA RowStepFinal ==
    ASSUME RowInv, NEW o \in Order, NEW new, RowStep(o, new), ord[o].price = "confirmed"
    PROVE  new.price = "confirmed" /\ new.driver = ord[o].driver
  <1>. DEFINE row == ord[o]
  <1>1. /\ row \in Row
        /\ row.status \notin {"absent", "created", "searching", "failed"}
    BY DEF RowInv, TypeInv, TypeOK, RowConsistent
  <1>2. \/ new = ConfirmDriverPrice(row)
        \/ \E to \in Asked \union {"cancelled"} : new = MoveOrder(row, to)
    BY <1>1 DEF RowStep, CanMarkOrderSearching, CanFailOrder, CanAssignDriver,
                CanReleaseDriverReservation
  <1>. QED  BY <1>1, <1>2 DEF ConfirmDriverPrice, MoveOrder, Row

\* Neither the expiry, nor a decline, nor the recovery of the reservation that
\* was on its way undoes a confirmation.
THEOREM AgreementsFinal == Spec => AgreementIsFinal
  <1>1. RowInv /\ [Next]_vars =>
            [\A o \in Order :
                ord[o].price = "confirmed" =>
                   ord'[o].price = "confirmed" /\ ord'[o].driver = ord[o].driver]_vars
    <2>. SUFFICES ASSUME RowInv, [Next]_vars, NEW o \in Order,
                         ord[o].price = "confirmed"
                  PROVE  ord'[o].price = "confirmed" /\ ord'[o].driver = ord[o].driver
      OBVIOUS
    <2>1. CASE OrderStep
      <3>1. PICK q \in Order, new \in Row :
                RowStep(q, new) /\ ord' = [ord EXCEPT ![q] = new]
        BY <2>1 DEF OrderStep
      <3>2. q = o => new.price = "confirmed" /\ new.driver = ord[o].driver
        BY <3>1, RowStepFinal
      <3>. QED  BY <3>1, <3>2 DEF RowInv, TypeInv, TypeOK
    <2>. QED  BY <2>1, OrderSteps DEF RowInv
  <1>. QED  BY RowInit, RowStepInv, <1>1, PTL DEF Spec, AgreementIsFinal

-----------------------------------------------------------------------------
(* No driver serves two orders.                                             *)

EngagedOnce == RowInv /\ OneActiveOrderPerDriver

\* Only an assignment makes a driver serve an order, and only one that is free.
LEMMA NewlyServing ==
    ASSUME RowInv, NEW o \in Order, NEW new, RowStep(o, new), NEW d \in Driver,
           new.driver = d, new.status \in Active, ~ Serves(ord, d, o)
    PROVE  FreeOfOrders(ord, d)
  <1>. DEFINE row == ord[o]
  <1>1. row \in Row /\ RowConsistent(row)
    BY DEF RowInv, TypeInv, TypeOK
  <1>2. CASE \E e \in Driver : \E b \in BOOLEAN :
               CanAssignDriver(ord, drv, o, e) /\ new = AssignDriver(row, e, b)
    BY <1>1, <1>2 DEF CanAssignDriver, AssignDriver, Row
  <1>3. new # NewRow("searching") /\ new # MoveOrder(row, "cancelled")
    BY <1>1 DEF NewRow, MoveOrder, Active, Row
  <1>4. CASE new = MarkOrderSearching(row) \/ new = FailOrder(row)
    BY <1>1, <1>4 DEF MarkOrderSearching, FailOrder, Active, Row
  <1>5. CASE new = ConfirmDriverPrice(row) \/ new = [row EXCEPT !.lapsed = TRUE]
    BY <1>1, <1>5 DEF ConfirmDriverPrice, Serves, Row
  <1>6. CASE new = ReleaseDriverReservation(row)
    BY <1>1, <1>6 DEF ReleaseDriverReservation, Active, Row
  <1>7. ASSUME NEW to \in Asked, CanMoveOrder(row, to), row.driver # NoDriver,
               new = MoveOrder(row, to)
        PROVE  row.status \in Active
    BY <1>1, <1>7
       DEF MoveOrder, CanMoveOrder, CanTransitionOrderStatus, AllowedTransitions,
           Active, Asked, Underway, Row, OrderStatus, RowConsistent
  <1>8. ASSUME NEW to \in Asked, new = MoveOrder(row, to)
        PROVE  row.driver = d
    BY <1>1, <1>8 DEF MoveOrder, Row
  <1>. QED
    BY <1>2, <1>3, <1>4, <1>5, <1>6, <1>7, <1>8 DEF RowStep, Serves

\* OneActiveOrderPerDriver is inductive together with RowInv.
LEMMA EngagedStep == EngagedOnce /\ [Next]_vars => EngagedOnce'
  <1>. SUFFICES ASSUME EngagedOnce, [Next]_vars PROVE EngagedOnce'
    OBVIOUS
  <1>1. RowInv /\ RowInv'
    BY RowStepInv DEF EngagedOnce
  <1>2. OneActiveOrderPerDriver'
    <2>1. CASE UNCHANGED ord
      BY <2>1 DEF EngagedOnce, OneActiveOrderPerDriver, Serves
    <2>2. CASE OrderStep
      <3>1. PICK q \in Order, new \in Row :
                RowStep(q, new) /\ ord' = [ord EXCEPT ![q] = new]
        BY <2>2 DEF OrderStep
      <3>2. \A o \in Order : ord'[o] = IF o = q THEN new ELSE ord[o]
        BY <1>1, <3>1 DEF RowInv, TypeInv, TypeOK
      <3>3. ASSUME NEW a \in Order, NEW b \in Order, NEW d \in Driver,
                   Serves(ord', d, a), Serves(ord', d, b)
            PROVE  a = b
        <4>1. \A o \in Order : Serves(ord', d, o) => Serves(ord, d, o) \/ o = q
          BY <3>2 DEF Serves
        <4>2. Serves(ord', d, q) => Serves(ord, d, q) \/ FreeOfOrders(ord, d)
          BY <1>1, <3>1, <3>2, NewlyServing DEF Serves
        <4>. QED
          BY <3>3, <4>1, <4>2 DEF EngagedOnce, OneActiveOrderPerDriver, FreeOfOrders
      <3>. QED  BY <3>3 DEF OneActiveOrderPerDriver
    <2>. QED  BY <1>1, <2>1, <2>2, OrderSteps DEF RowInv
  <1>. QED  BY <1>1, <1>2 DEF EngagedOnce

\* Acceptances of two orders by one driver hold different accept locks; the
\* assignment itself keeps the driver from serving both.
THEOREM DriversServeOneOrder == Spec => []OneActiveOrderPerDriver
  <1>1. Init => EngagedOnce
    BY RowInit DEF EngagedOnce, OneActiveOrderPerDriver, Init, NewRow, Serves, Active
  <1>2. EngagedOnce => OneActiveOrderPerDriver
    BY DEF EngagedOnce
  <1>. QED  BY <1>1, <1>2, EngagedStep, PTL DEF Spec
-----------------------------------------------------------------------------
(* Dispatch implements Reservation.                                         *)

\* A driver is engaged in the abstract reservation when an active order is his.
LEMMA EngagedDrivers ==
    ASSUME RowInv, NEW d \in Driver, FreeOfOrders(ord, d)
    PROVE  ~ R!Engaged(d)
  <1>1. SUFFICES ASSUME NEW o \in Order, PhaseOf(ord[o]) \in R!Engaging,
                        ord[o].driver = d
                 PROVE  FALSE
    BY DEF R!Engaged
  <1>2. ord[o].status \in OrderStatus \union {"absent"}
    BY DEF RowInv, TypeInv, TypeOK, Row
  <1>3. ord[o].status \in Active
    BY <1>1, <1>2 DEF PhaseOf, R!Engaging, Active, OrderStatus
  <1>. QED  BY <1>1, <1>3 DEF FreeOfOrders, Serves

\* A statement on the row of o that changes the phase changes it as an action
\* of Reservation does.
LEMMA StatementImplements ==
    ASSUME RowInv, NEW o \in Order, NEW new \in Row, RowStep(o, new)
    PROVE  LET from == PhaseOf(ord[o])
               to   == PhaseOf(new) IN
           \/ to = from /\ new.driver = ord[o].driver
           \/ /\ new.driver = ord[o].driver
              /\ \/ from = "none" /\ to = "open"
                 \/ from = "held" /\ to = "agreed"
                 \/ from = "agreed" /\ to = "coming"
                 \/ from = "coming" /\ to = "riding"
                 \/ from = "riding" /\ to = "done"
                 \/ from \in {"open", "held", "agreed", "coming"} /\ to = "dropped"
           \/ /\ from = "held" /\ to = "open" /\ new.driver = NoDriver
           \/ \E d \in Driver : /\ from = "open" /\ to \in {"held", "agreed"}
                                /\ new.driver = d /\ ~ R!Engaged(d)
  <1>. DEFINE row  == ord[o]
              from == PhaseOf(row)
              to   == PhaseOf(new)
  <1>1. row \in Row /\ RowConsistent(row)
    BY DEF RowInv, TypeInv, TypeOK
  <1>2. CASE row.status = "absent" /\ new = NewRow("searching")
    <2>1. from = "none" /\ to = "open" /\ new.driver = row.driver
      BY <1>1, <1>2 DEF NewRow, PhaseOf, RowConsistent
    <2>. QED  BY <2>1
  <1>3. CASE CanMarkOrderSearching(row) /\ new = MarkOrderSearching(row)
    <2>1. from = "open" /\ to = "open" /\ new.driver = row.driver
      BY <1>1, <1>3 DEF CanMarkOrderSearching, MarkOrderSearching, PhaseOf, Row
    <2>. QED  BY <2>1
  <1>4. CASE CanFailOrder(row) /\ new = FailOrder(row)
    <2>1. from = "open" /\ to = "dropped" /\ new.driver = row.driver
      BY <1>1, <1>4 DEF CanFailOrder, FailOrder, PhaseOf, Row
    <2>. QED  BY <2>1
  <1>5. ASSUME NEW d \in Driver, NEW b \in BOOLEAN,
               CanAssignDriver(ord, drv, o, d), new = AssignDriver(row, d, b)
        PROVE  from = "open" /\ to \in {"held", "agreed"} /\ new.driver = d
               /\ ~ R!Engaged(d)
    <2>1. from = "open" /\ to \in {"held", "agreed"} /\ new.driver = d
      BY <1>1, <1>5 DEF CanAssignDriver, AssignDriver, PhaseOf, Row
    <2>2. ~ R!Engaged(d)
      BY <1>5, EngagedDrivers DEF CanAssignDriver
    <2>. QED  BY <2>1, <2>2
  <1>6. CASE CanConfirmDriverPrice(row) /\ new = ConfirmDriverPrice(row)
    <2>1. from = "held" /\ to = "agreed" /\ new.driver = row.driver
      BY <1>1, <1>6 DEF CanConfirmDriverPrice, ConfirmDriverPrice, PhaseOf, Row
    <2>. QED  BY <2>1
  <1>7. CASE new = [row EXCEPT !.lapsed = TRUE]
    <2>1. to = from /\ new.driver = row.driver
      BY <1>1, <1>7 DEF PhaseOf, Row
    <2>. QED  BY <2>1
  <1>8. ASSUME NEW d \in Driver, CanReleaseDriverReservation(row, d),
               new = ReleaseDriverReservation(row)
        PROVE  from = "held" /\ to = "open" /\ new.driver = NoDriver
    BY <1>1, <1>8
       DEF CanReleaseDriverReservation, ReleaseDriverReservation, PhaseOf, Row
  <1>9. CASE CanCancelPassengerOrder(row) /\ new = MoveOrder(row, "cancelled")
    <2>1. /\ from \in {"open", "held", "agreed", "coming"}
          /\ to = "dropped" /\ new.driver = row.driver
      BY <1>1, <1>9 DEF CanCancelPassengerOrder, MoveOrder, PhaseOf, Row
    <2>. QED  BY <2>1
  <1>10. ASSUME NEW s \in Asked, CanMoveOrder(row, s), row.status # "absent",
                row.driver # NoDriver \/ s = "cancelled", new = MoveOrder(row, s)
         PROVE  /\ new.driver = row.driver
                /\ \/ to = from
                   \/ from = "agreed" /\ to = "coming"
                   \/ from = "coming" /\ to = "riding"
                   \/ from = "riding" /\ to = "done"
                   \/ from \in {"open", "held", "agreed", "coming"} /\ to = "dropped"
    <2>1. new.driver = row.driver /\ new.status = s /\ new.price = row.price
      BY <1>1, <1>10 DEF MoveOrder, Row
    <2>2. CASE s = row.status
      BY <2>1, <2>2 DEF PhaseOf
    <2>3. CASE s # row.status /\ s = "cancelled"
      <3>1. row.status \in {"searching", "driver_assigned", "driver_arriving",
                            "driver_waiting"}
        BY <1>1, <1>10, <2>3
           DEF CanMoveOrder, CanTransitionOrderStatus, AllowedTransitions, Row, OrderStatus
      <3>. QED  BY <2>1, <2>3, <3>1 DEF PhaseOf
    <2>4. CASE s # row.status /\ s # "cancelled"
      <3>1. \/ row.status = "driver_assigned" /\ s = "driver_arriving"
            \/ row.status = "driver_arriving" /\ s = "driver_waiting"
            \/ row.status = "driver_waiting" /\ s = "in_progress"
            \/ row.status = "in_progress" /\ s = "completed"
        BY <1>1, <1>10, <2>4
           DEF CanMoveOrder, CanTransitionOrderStatus, AllowedTransitions, Row,
               OrderStatus, Asked, Underway
      <3>2. row.status = "driver_assigned" => row.price = "confirmed"
        BY <1>1, <1>10, <2>4 DEF CanMoveOrder, RowConsistent
      <3>. QED  BY <2>1, <3>1, <3>2 DEF PhaseOf
    <2>. QED  BY <2>2, <2>3, <2>4
  <1>. QED
    BY <1>2, <1>3, <1>4, <1>5, <1>6, <1>7, <1>8, <1>9, <1>10 DEF RowStep

\* A step of dispatch is a step of Reservation or leaves what it sees alone.
LEMMA StepImplements ==
    ASSUME RowInv, RowInv', [Next]_vars
    PROVE  [R!Next]_(R!vars)
  <1>. DEFINE phase == [o \in Order |-> PhaseOf(ord[o])]
              holder == [o \in Order |-> ord[o].driver]
  <1>1. CASE UNCHANGED ord
    BY <1>1 DEF R!vars, PhaseOf
  <1>2. CASE OrderStep
    <2>1. PICK q \in Order, new \in Row :
              RowStep(q, new) /\ ord' = [ord EXCEPT ![q] = new]
      BY <1>2 DEF OrderStep
    <2>2. \A o \in Order : ord'[o] = IF o = q THEN new ELSE ord[o]
      BY <2>1 DEF RowInv, TypeInv, TypeOK
    <2>3. phase' = [phase EXCEPT ![q] = PhaseOf(new)]
      BY <2>2
    <2>4. holder' = [holder EXCEPT ![q] = new.driver]
      BY <2>2
    <2>5. phase[q] = PhaseOf(ord[q]) /\ holder[q] = ord[q].driver
      OBVIOUS
    <2>6. CASE PhaseOf(new) = PhaseOf(ord[q]) /\ new.driver = ord[q].driver
      BY <2>3, <2>4, <2>5, <2>6 DEF R!vars
    <2>7. CASE /\ new.driver = ord[q].driver
               /\ \/ phase[q] = "none" /\ PhaseOf(new) = "open"
                  \/ phase[q] = "held" /\ PhaseOf(new) = "agreed"
                  \/ phase[q] = "agreed" /\ PhaseOf(new) = "coming"
                  \/ phase[q] = "coming" /\ PhaseOf(new) = "riding"
                  \/ phase[q] = "riding" /\ PhaseOf(new) = "done"
                  \/ /\ phase[q] \in {"open", "held", "agreed", "coming"}
                     /\ PhaseOf(new) = "dropped"
      <3>1. holder' = holder
        BY <2>4, <2>5, <2>7
      <3>. HIDE DEF phase, holder
      <3>2. \/ R!Open(q) \/ R!Agree(q) \/ R!Come(q) \/ R!Ride(q) \/ R!Complete(q)
            \/ R!Drop(q)
        BY <2>3, <2>7, <3>1
           DEF R!Open, R!Agree, R!Come, R!Ride, R!Complete, R!Drop, R!Proceed,
               phase, holder
      <3>. QED  BY <3>2 DEF R!Next
    <2>8. CASE phase[q] = "held" /\ PhaseOf(new) = "open" /\ new.driver = NoDriver
      <3>1. R!GiveBack(q)
        BY <2>3, <2>4, <2>8 DEF R!GiveBack
      <3>. QED  BY <3>1 DEF R!Next
    <2>9. ASSUME NEW d \in Driver, phase[q] = "open",
                 PhaseOf(new) \in {"held", "agreed"}, new.driver = d, ~ R!Engaged(d)
          PROVE  R!Next
      <3>1. R!Take(q, d)
        BY <2>3, <2>4, <2>9 DEF R!Take
      <3>. QED  BY <3>1 DEF R!Next
    <2>. QED
      BY <2>1, <2>5, <2>6, <2>7, <2>8, <2>9, StatementImplements
  <1>. QED  BY <1>1, <1>2, OrderSteps DEF RowInv

\* Queues, offers, locks, timers, crashes and errors hide behind a reservation
\* that is taken, agreed or given back, and a trip that is carried out.
THEOREM DispatchImplementsReservation == Spec => ImplementsReservation
  <1>1. Init => R!Init
    BY DEF Init, R!Init, NewRow, PhaseOf
  <1>2. RowInv /\ RowInv' /\ [Next]_vars => [R!Next]_(R!vars)
    BY StepImplements
  <1>. QED  BY <1>1, <1>2, RowInit, RowStepInv, PTL DEF Spec, R!Spec, ImplementsReservation
==============================================================================
