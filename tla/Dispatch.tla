------------------------------ MODULE Dispatch ------------------------------
(***************************************************************************)
(* The asynchronous dispatch of orders to drivers: internal/dispatch with  *)
(* its Redis stores and the statements of module Orders.                   *)
(*                                                                         *)
(* A process is one goroutine of one backend instance.  HTTP handlers run  *)
(* the requests of passengers, drivers and parks; the three loops of a     *)
(* dispatch worker consume the task queue, handle due timeouts and recover *)
(* orders that were left searching.  A process performs one remote         *)
(* operation (a SQL transaction or a Redis command) per step, so handlers  *)
(* of all instances interleave between any two of them.  job[p] is the     *)
(* process's program counter with the local variables it still needs.      *)
(*                                                                         *)
(* Time is not measured.  A TTL may run out and a timeout may fall due at  *)
(* any moment, with two exceptions: a confirmation timer and the deadline  *)
(* it watches are the same instant, and the TTLs of the dispatching key    *)
(* and of the accept lock outlive the work they cover unless that work     *)
(* stalls, which is counted as a fault.                                    *)
(***************************************************************************)
EXTENDS Orders, Integers, FiniteSets

CONSTANTS
    ParkOrder,      \* orders created by a park: no price confirmation
    Roaming,        \* drivers that go off and on shift
    Moves,          \* bound: statuses that drivers ask for
    Handlers,       \* goroutines that run HTTP requests
    Dispatchers,    \* goroutines in runDispatchWorker
    Timers,         \* goroutines in runOfferTimeoutWorker
    Recoverers,     \* goroutines in runStaleOrderRecoveryWorker
    Instances,      \* the sets of processes that crash together
    NoProc, NoOrder, NoTask,
    Attempts,       \* len(RadiusAttemptsMeters)
    MaxDrivers,     \* MaxDriversPerOffer
    MaxChains,      \* bound: no reservation ends after so many dispatches
    FaultKinds,     \* bound: the faults that may happen
    MaxFaults       \* bound: how many of them

Proc == Handlers \union Dispatchers \union Timers \union Recoverers

Workers == Dispatchers \union Timers \union Recoverers

ASSUME ParkOrderAssumption == ParkOrder \subseteq Order
ASSUME RoamingAssumption == Roaming \subseteq Driver
ASSUME MovesAssumption == Moves \subseteq Underway \union {"cancelled"}
ASSUME ProcAssumption ==
    /\ NoProc \notin Proc
    /\ Instances \subseteq SUBSET Proc
    /\ Handlers \intersect Workers = {}
    /\ Dispatchers \intersect (Timers \union Recoverers) = {}
    /\ Timers \intersect Recoverers = {}
ASSUME BoundAssumption ==
    /\ Attempts \in Nat \ {0}
    /\ MaxDrivers \in Nat \ {0}
    /\ MaxChains \in Nat
    /\ MaxFaults \in Nat
    /\ FaultKinds \subseteq {"crash", "error", "expiry"}

VARIABLES
    ord,            \* the orders table
    drv,            \* drivers.status
    offer,          \* order:<o>:driver:<d>:offer keys that are alive
    index,          \* the set order:<o>:offers
    dispatching,    \* orders whose order:<o>:dispatching key is set
    lock,           \* holder of order:<o>:accept_lock
    queue,          \* the list of dispatch tasks, oldest first
    timeouts,       \* the sorted set dispatch:timeouts
    job,            \* what each process is doing
    chains,         \* dispatches started so far, per order
    faults          \* faults so far

db     == <<ord, drv>>
offers == <<offer, index>>
redis  == <<offer, index, dispatching, lock, queue, timeouts>>
vars   == <<ord, drv, offer, index, dispatching, lock, queue, timeouts,
            job, chains, faults>>

-----------------------------------------------------------------------------
(* Tasks and jobs.                                                          *)

\* DispatchTask.  QueuedAt makes two tasks with equal fields different; here
\* the stamp does, which numbers the dispatches of an order.  attempt = -1
\* marks a price confirmation timer, stamped with the number of reservations
\* of the order that were released before this one.
Task == [order : Order, stamp : Nat, attempt : Int, exclude : SUBSET Driver]

ASSUME TaskAssumption == NoTask \notin Task

NewTask(o, stamp, attempt, exclude) ==
    [order |-> o, stamp |-> stamp, attempt |-> attempt, exclude |-> exclude]

Confirmation(t) == t.attempt = -1

\* radiusForAttempt finds no radius for the attempt after this one.
LastAttempt(t) == t.attempt + 1 >= Attempts

\* NextTask without the increment, used to see SearchEnds fail.
SameAttemptAgain(t, newlyExcluded) == [t EXCEPT !.exclude = t.exclude \union newlyExcluded]

NextTask(t, newlyExcluded) ==
    [t EXCEPT !.attempt = t.attempt + 1, !.exclude = t.exclude \union newlyExcluded]

PC == {"idle", "stopped", "begin", "mark", "publish", "search", "offer",
       "schedule", "sweep", "fail", "finish", "assign", "arm", "busy", "clear",
       "release", "rebegin", "republish"}

Job == [pc     : PC,
        order  : Order \union {NoOrder},
        driver : Driver \union {NoDriver},
        task   : Task \union {NoTask},
        todo   : SUBSET Driver]

NewJob(pc, o, d, t, todo) ==
    [pc |-> pc, order |-> o, driver |-> d, task |-> t, todo |-> todo]

Rest == NewJob("idle", NoOrder, NoDriver, NoTask, {})

Idle(p)    == job[p].pc = "idle"
At(p, pc)  == job[p].pc = pc
Goto(p, pc) == job' = [job EXCEPT ![p].pc = pc]
Start(p, pc, o, d, t, todo) == job' = [job EXCEPT ![p] = NewJob(pc, o, d, t, todo)]
Done(p)    == job' = [job EXCEPT ![p] = Rest]

\* The handler returns an error.  runStaleOrderRecoveryWorker returns with it;
\* the other loops log it and go on.
AfterError(p) == IF p \in Recoverers THEN [Rest EXCEPT !.pc = "stopped"] ELSE Rest
Error(p)   == job' = [job EXCEPT ![p] = AfterError(p)]

\* The deferred lock.Release, which deletes only the holder's own key.
Unlocked(P) == [o \in Order |-> IF lock[o] \in P THEN NoProc ELSE lock[o]]

-----------------------------------------------------------------------------
(* EnqueueOrder, called by a handler that has just inserted an order and by *)
(* the recovery loop.                                                       *)

Submit(p, o) ==
    /\ p \in Handlers /\ Idle(p)
    /\ ord[o].status = "absent"
    /\ ord' = [ord EXCEPT ![o] = NewRow("searching")]
    /\ Start(p, "begin", o, NoDriver, NoTask, {})
    /\ UNCHANGED <<drv, redis, chains, faults>>

\* One order of ListSearchingOrders.
RecoverSearch(p, o) ==
    /\ p \in Recoverers /\ Idle(p)
    /\ ListedSearching(ord[o])
    /\ Start(p, "begin", o, NoDriver, NoTask, {})
    /\ UNCHANGED <<db, redis, chains, faults>>

BeginDispatch(p) ==
    /\ At(p, "begin")
    /\ LET o == job[p].order IN
       \/ /\ o \in dispatching              \* "duplicate dispatch ignored"
          /\ Done(p)
          /\ UNCHANGED dispatching
       \/ /\ o \notin dispatching
          /\ dispatching' = dispatching \union {o}
          /\ Goto(p, "mark")
    /\ UNCHANGED <<db, offers, lock, queue, timeouts, chains, faults>>

MarkSearching(p) ==
    /\ At(p, "mark")
    /\ LET o == job[p].order IN
       \/ /\ CanMarkOrderSearching(ord[o])
          /\ ord' = [ord EXCEPT ![o] = MarkOrderSearching(@)]
          /\ chains' = [chains EXCEPT ![o] = @ + 1]
          /\ Start(p, "publish", o, NoDriver, NewTask(o, chains[o] + 1, 0, {}), {})
       \/ /\ ~ CanMarkOrderSearching(ord[o])
          /\ Error(p)
          /\ UNCHANGED <<ord, chains>>
    /\ UNCHANGED <<drv, redis, faults>>

Publish(p) ==
    /\ At(p, "publish")
    /\ queue' = Append(queue, job[p].task)
    /\ Done(p)
    /\ UNCHANGED <<db, offers, dispatching, lock, timeouts, chains, faults>>

-----------------------------------------------------------------------------
(* ProcessTask, in the dispatch loop.                                       *)

\* BRPOP removes the task; GetOrderByID decides what becomes of it.  In every
\* status but searching the task is dropped: a terminal or assigned order ends
\* the dispatch and MarkOrderSearching fails on one whose trip is under way.
Consume(p) ==
    /\ p \in Dispatchers /\ Idle(p)
    /\ queue # << >>
    /\ queue' = Tail(queue)
    /\ LET t == Head(queue)
           row == ord[t.order] IN
       IF row.status = "searching"
       THEN Start(p, "search", t.order, NoDriver,
                  [t EXCEPT !.exclude = @ \union DeclinedDrivers(row)], {})
       ELSE Done(p)
    /\ UNCHANGED <<db, offers, dispatching, lock, timeouts, chains, faults>>

\* Drivers FindNearestOnlineDrivers may return.
Candidates(excluded) ==
    {d \in Driver \ excluded : drv[d] = "online" /\ FreeOfOrders(ord, d)}

\* Which of the candidates are within the radius is for the map to say.
Search(p) ==
    /\ At(p, "search")
    /\ LET t == job[p].task IN
       \E found \in SUBSET Candidates(t.exclude) :
          /\ Cardinality(found) <= MaxDrivers
          /\ \/ found # {} /\ Start(p, "offer", t.order, NoDriver, t, found)
             \/ found = {} /\ ~ LastAttempt(t) /\ Goto(p, "schedule")
             \/ found = {} /\ LastAttempt(t) /\ Goto(p, "fail")
    /\ UNCHANGED <<db, redis, chains, faults>>

\* offerDrivers saves the offers one by one; a live offer is left as it is.
SaveOffer(p, d) ==
    /\ At(p, "offer")
    /\ d \in job[p].todo
    /\ LET o == job[p].order IN
       IF d \in offer[o]
       THEN UNCHANGED offers
       ELSE /\ offer' = [offer EXCEPT ![o] = @ \union {d}]
            /\ index' = [index EXCEPT ![o] = @ \union {d}]
    /\ LET rest == job[p].todo \ {d} IN
       job' = [job EXCEPT ![p].todo = rest,
                          ![p].pc = IF rest = {} THEN "schedule" ELSE "offer"]
    /\ UNCHANGED <<db, dispatching, lock, queue, timeouts, chains, faults>>

Schedule(p) ==
    /\ At(p, "schedule")
    /\ timeouts' = timeouts \union {job[p].task}
    /\ Done(p)
    /\ UNCHANGED <<db, offers, dispatching, lock, queue, chains, faults>>

-----------------------------------------------------------------------------
(* failNoDriversFound, from a search or from a timeout, and the end of      *)
(* every dispatch.                                                          *)

FailNoDriversFound(p) ==
    /\ At(p, "fail")
    /\ LET o == job[p].order IN
       \/ /\ CanFailOrder(ord[o])
          /\ ord' = [ord EXCEPT ![o] = FailOrder(@)]
          /\ Goto(p, "finish")
       \/ /\ ~ CanFailOrder(ord[o])
          /\ Error(p)
          /\ UNCHANGED ord
    /\ UNCHANGED <<drv, redis, chains, faults>>

FinishDispatch(p) ==
    /\ At(p, "finish")
    /\ dispatching' = dispatching \ {job[p].order}
    /\ lock' = Unlocked({p})
    /\ Done(p)
    /\ UNCHANGED <<db, offers, queue, timeouts, chains, faults>>

-----------------------------------------------------------------------------
(* HandleOfferTimeout, in the timeout loop.                                 *)

\* The order is read, then the index of its offers.
TakeOfferTimeout(p, t) ==
    /\ p \in Timers /\ Idle(p)
    /\ t \in timeouts /\ ~ Confirmation(t)
    /\ \/ /\ ord[t.order].status = "searching"
          /\ Start(p, "sweep", t.order, NoDriver, t, index[t.order])
          /\ UNCHANGED timeouts
       \/ /\ ord[t.order].status # "searching"
          /\ timeouts' = timeouts \ {t}
          /\ UNCHANGED job
    /\ UNCHANGED <<db, offers, dispatching, lock, queue, chains, faults>>

\* RemoveOffers deletes the keys of the drivers it finds in the index.
RemoveOffers(o) ==
    /\ offer' = [offer EXCEPT ![o] = @ \ index[o]]
    /\ index' = [index EXCEPT ![o] = {}]

Sweep(p) ==
    /\ At(p, "sweep")
    /\ LET t == job[p].task IN
       /\ RemoveOffers(t.order)
       /\ timeouts' = timeouts \ {t}
       /\ \/ LastAttempt(t) /\ Goto(p, "fail")
          \/ ~ LastAttempt(t) /\ Start(p, "publish", t.order, NoDriver,
                                       NextTask(t, job[p].todo), {})
    /\ UNCHANGED <<db, dispatching, lock, queue, chains, faults>>

-----------------------------------------------------------------------------
(* AcceptOffer, in a handler.                                               *)

\* SETNX on the accept lock; the variant, SET, to see it fail.
AcquirableAlways(o) == TRUE

Acquirable(o) == lock[o] = NoProc

\* GetOffer and the accept lock; without either the driver is refused.
AcceptOffer(p, o, d) ==
    /\ p \in Handlers /\ Idle(p)
    /\ d \in offer[o]
    /\ Acquirable(o)
    /\ lock' = [lock EXCEPT ![o] = p]
    /\ Start(p, "assign", o, d, NoTask, {})
    /\ UNCHANGED <<db, offers, dispatching, queue, timeouts, chains, faults>>

\* GetCandidateFare, GetOrderByID and AssignDriver, whose WHERE clause repeats
\* what the reads have found.  It may also refuse a driver whose tariff, car or
\* last location no longer does.
Assign(p) ==
    /\ At(p, "assign")
    /\ LET o == job[p].order
           d == job[p].driver
           confirmation == NewTask(o, Len(ord[o].declined), -1, {d}) IN
       \/ /\ CanAssignDriver(ord, drv, o, d)
          /\ ord' = [ord EXCEPT ![o] = AssignDriver(@, d, o \notin ParkOrder)]
          /\ IF o \in ParkOrder
             THEN Start(p, "busy", o, d, NoTask, {})
             ELSE Start(p, "arm", o, d, confirmation, {})
          /\ UNCHANGED lock
       \/ /\ lock' = Unlocked({p})
          /\ Error(p)
          /\ UNCHANGED ord
    /\ UNCHANGED <<drv, offers, dispatching, queue, timeouts, chains, faults>>

\* The timer that ends an unanswered reservation.
ArmConfirmation(p) ==
    /\ At(p, "arm")
    /\ timeouts' = timeouts \union {job[p].task}
    /\ Start(p, "busy", job[p].order, job[p].driver, NoTask, {})
    /\ UNCHANGED <<db, offers, dispatching, lock, queue, chains, faults>>

MarkDriverBusy(p) ==
    /\ At(p, "busy")
    /\ LET d == job[p].driver IN
       \/ /\ drv[d] = "online"
          /\ drv' = [drv EXCEPT ![d] = "busy"]
          /\ Start(p, "clear", job[p].order, NoDriver, NoTask, {})
          /\ UNCHANGED lock
       \/ /\ drv[d] # "online"
          /\ lock' = Unlocked({p})
          /\ Error(p)
          /\ UNCHANGED drv
    /\ UNCHANGED <<ord, offers, dispatching, queue, timeouts, chains, faults>>

\* cancelRemainingOffers after an acceptance, StopDispatch after a
\* cancellation by the park; FinishDispatch follows in both.
ClearOffers(p) ==
    /\ At(p, "clear")
    /\ RemoveOffers(job[p].order)
    /\ Goto(p, "finish")
    /\ UNCHANGED <<db, dispatching, lock, queue, timeouts, chains, faults>>

RejectOffer(o, d) ==
    /\ d \in offer[o]
    /\ offer' = [offer EXCEPT ![o] = @ \ {d}]
    /\ index' = [index EXCEPT ![o] = @ \ {d}]
    /\ UNCHANGED <<db, dispatching, lock, queue, timeouts, job, chains, faults>>

-----------------------------------------------------------------------------
(* The passenger's answer to the price, or its absence.                     *)

ConfirmOrderPrice(o) ==
    /\ CanConfirmDriverPrice(ord[o])
    /\ ord' = [ord EXCEPT ![o] = ConfirmDriverPrice(@)]
    /\ UNCHANGED <<drv, redis, job, chains, faults>>

\* The confirmation deadline passes.  Nothing clears the pending state of an
\* order that is cancelled, so it may also pass afterwards.
Lapse(o) ==
    /\ ord[o].price = "pending" /\ ~ ord[o].lapsed
    /\ chains[o] < MaxChains
    /\ ord' = [ord EXCEPT ![o].lapsed = TRUE]
    /\ UNCHANGED <<drv, redis, job, chains, faults>>

DeclineOrderPrice(p, o) ==
    /\ p \in Handlers /\ Idle(p)
    /\ ord[o].price = "pending" /\ ord[o].driver # NoDriver
    /\ chains[o] < MaxChains
    /\ Start(p, "release", o, ord[o].driver, NoTask, {})
    /\ UNCHANGED <<db, redis, chains, faults>>

\* The timer of the present reservation falls due when the deadline passes.
ConfirmationDue(t) ==
    LET row == ord[t.order] IN
    row.price = "pending" /\ t.stamp = Len(row.declined) => row.lapsed

TakeConfirmationTimeout(p, t) ==
    /\ p \in Timers /\ Idle(p)
    /\ t \in timeouts /\ Confirmation(t) /\ ConfirmationDue(t)
    /\ LET row == ord[t.order] IN
       \/ /\ Expired(row)
          /\ Start(p, "release", t.order, row.driver, t, {})
          /\ UNCHANGED timeouts
       \/ /\ ~ Expired(row)
          /\ timeouts' = timeouts \ {t}
          /\ UNCHANGED job
    /\ UNCHANGED <<db, offers, dispatching, lock, queue, chains, faults>>

\* One order of ListExpiredPriceConfirmations.
RecoverExpired(p, o) ==
    /\ p \in Recoverers /\ Idle(p)
    /\ ListedExpired(ord[o])
    /\ Start(p, "release", o, ord[o].driver, NoTask, {})
    /\ UNCHANGED <<db, redis, chains, faults>>

\* releasePriceConfirmation: the transaction, the dispatching key (whether it
\* was set already does not matter) and a first task for a new search.
Release(p) ==
    /\ At(p, "release")
    /\ LET o == job[p].order
           d == job[p].driver IN
       \/ /\ CanReleaseDriverReservation(ord[o], d)
          /\ ord' = [ord EXCEPT ![o] = ReleaseDriverReservation(@)]
          /\ drv' = FreeDriver(drv, d)
          /\ Goto(p, "rebegin")
       \/ /\ ~ CanReleaseDriverReservation(ord[o], d)
          /\ Error(p)
          /\ UNCHANGED db
    /\ UNCHANGED <<redis, chains, faults>>

RebeginDispatch(p) ==
    /\ At(p, "rebegin")
    /\ dispatching' = dispatching \union {job[p].order}
    /\ Goto(p, "republish")
    /\ UNCHANGED <<db, offers, lock, queue, timeouts, chains, faults>>

\* A timer also removes its entry now: a second run of it, had the removal
\* failed, would find the reservation gone and remove it then.
Republish(p) ==
    /\ At(p, "republish")
    /\ LET o == job[p].order IN
       /\ chains' = [chains EXCEPT ![o] = @ + 1]
       /\ queue' = Append(queue, NewTask(o, chains[o] + 1, 0, {job[p].driver}))
    /\ timeouts' = timeouts \ {job[p].task}
    /\ Done(p)
    /\ UNCHANGED <<db, offers, dispatching, lock, faults>>

-----------------------------------------------------------------------------
(* The trip: requests of the passenger, the driver and the park.            *)

\* CancelPassengerOrder frees a busy driver and leaves the dispatch alone.
CancelByPassenger(o) ==
    /\ CanCancelPassengerOrder(ord[o])
    /\ ord' = [ord EXCEPT ![o] = MoveOrder(@, "cancelled")]
    /\ drv' = FreeDriver(drv, ord[o].driver)
    /\ UNCHANGED <<redis, job, chains, faults>>

\* transitionDispatchOrderStatus for the driver of the order; a repeated
\* request finds from = to and succeeds.
MoveByDriver(o, to) ==
    /\ ord[o].status # "absent" /\ ord[o].driver # NoDriver
    /\ CanMoveOrder(ord[o], to)
    /\ ord' = [ord EXCEPT ![o] = MoveOrder(@, to)]
    /\ drv' = IF to \in Terminal THEN FreeDriver(drv, ord[o].driver) ELSE drv
    /\ UNCHANGED <<redis, job, chains, faults>>

\* CancelOrder of the park that created the order or employs its driver.
CancelByPark(p, o) ==
    /\ p \in Handlers /\ Idle(p)
    /\ ord[o].status # "absent"
    /\ o \in ParkOrder \/ ord[o].driver # NoDriver
    /\ CanMoveOrder(ord[o], "cancelled")
    /\ ord' = [ord EXCEPT ![o] = MoveOrder(@, "cancelled")]
    /\ drv' = FreeDriver(drv, ord[o].driver)
    /\ Start(p, "clear", o, NoDriver, NoTask, {})
    /\ UNCHANGED <<redis, chains, faults>>

-----------------------------------------------------------------------------
(* Drivers come and go.                                                     *)

GoOnline(d) ==
    /\ d \in Roaming /\ drv[d] \in {"offline", "online"}
    /\ drv' = [drv EXCEPT ![d] = "online"]
    /\ UNCHANGED <<ord, redis, job, chains, faults>>

GoOffline(d) ==
    /\ d \in Roaming /\ FreeOfOrders(ord, d)
    /\ drv' = [drv EXCEPT ![d] = "offline"]
    /\ UNCHANGED <<ord, redis, job, chains, faults>>

\* MarkStaleDriversOffline does not look at the orders of the driver.
GoStale(d) ==
    /\ d \in Roaming /\ drv[d] = "online"
    /\ drv' = [drv EXCEPT ![d] = "offline"]
    /\ UNCHANGED <<ord, redis, job, chains, faults>>

-----------------------------------------------------------------------------
(* Expirations and faults.                                                  *)

ExpireOffer(o, d) ==
    /\ d \in offer[o]
    /\ offer' = [offer EXCEPT ![o] = @ \ {d}]
    /\ UNCHANGED <<db, index, dispatching, lock, queue, timeouts, job, chains, faults>>

\* Every SaveOffer renews the TTL of the index, so it outlives the offers.
ExpireIndex(o) ==
    /\ offer[o] = {} /\ index[o] # {}
    /\ index' = [index EXCEPT ![o] = {}]
    /\ UNCHANGED <<db, offer, dispatching, lock, queue, timeouts, job, chains, faults>>

Fault(kind) ==
    kind \in FaultKinds /\ faults < MaxFaults /\ faults' = faults + 1

\* Something of the dispatch of o is under way, more than an attempt to begin.
Worked(o) ==
    \/ \E i \in DOMAIN queue : queue[i].order = o
    \/ \E t \in timeouts : t.order = o
    \/ \E p \in Proc : job[p].order = o /\ job[p].pc # "begin"

ExpireDispatching(o) ==
    /\ o \in dispatching
    /\ dispatching' = dispatching \ {o}
    /\ IF Worked(o) THEN Fault("expiry") ELSE UNCHANGED faults
    /\ UNCHANGED <<db, offers, lock, queue, timeouts, job, chains>>

\* The processes inside the section the accept lock of o protects.
Accepting(o) ==
    {p \in Handlers : /\ job[p].order = o
                      /\ job[p].pc \in {"assign", "arm", "busy"}}

ExpireLock(o) ==
    /\ lock[o] # NoProc
    /\ lock' = [lock EXCEPT ![o] = NoProc]
    /\ IF job[lock[o]].order = o THEN Fault("expiry") ELSE UNCHANGED faults
    /\ UNCHANGED <<db, offers, dispatching, queue, timeouts, job, chains>>

\* A call of Redis or PostgreSQL fails: the handler gives up what it was
\* doing; a loop that was waiting for work returns.
IOError(p) ==
    /\ Fault("error")
    /\ \/ /\ ~ Idle(p) /\ ~ At(p, "stopped")
          /\ Error(p)
          /\ lock' = Unlocked({p})
       \/ /\ Idle(p) /\ p \in Workers
          /\ Goto(p, "stopped")
          /\ UNCHANGED lock
    /\ UNCHANGED <<db, offers, dispatching, queue, timeouts, chains>>

\* An instance dies and is started again.  The locks it held stay.
Crash(P) ==
    /\ Fault("crash")
    /\ job' = [p \in Proc |-> IF p \in P THEN Rest ELSE job[p]]
    /\ UNCHANGED <<db, redis, chains>>

-----------------------------------------------------------------------------

Init ==
    /\ ord = [o \in Order |-> NewRow("absent")]
    /\ drv = [d \in Driver |-> IF d \in Roaming THEN "offline" ELSE "online"]
    /\ offer = [o \in Order |-> {}]
    /\ index = [o \in Order |-> {}]
    /\ dispatching = {}
    /\ lock = [o \in Order |-> NoProc]
    /\ queue = << >>
    /\ timeouts = {}
    /\ job = [p \in Proc |-> Rest]
    /\ chains = [o \in Order |-> 0]
    /\ faults = 0

\* The next operation of a process that is inside a handler.
Step(p) ==
    \/ BeginDispatch(p) \/ MarkSearching(p) \/ Publish(p)
    \/ Search(p) \/ (\E d \in Driver : SaveOffer(p, d)) \/ Schedule(p)
    \/ FailNoDriversFound(p) \/ FinishDispatch(p) \/ Sweep(p)
    \/ Assign(p) \/ ArmConfirmation(p) \/ MarkDriverBusy(p) \/ ClearOffers(p)
    \/ Release(p) \/ RebeginDispatch(p) \/ Republish(p)

TakeTimeout(p) ==
    \E t \in timeouts : TakeOfferTimeout(p, t) \/ TakeConfirmationTimeout(p, t)

Recover(p) == \E o \in Order : RecoverSearch(p, o) \/ RecoverExpired(p, o)

\* What a handler starts with.
Request(p) ==
    \E o \in Order :
        \/ Submit(p, o) \/ DeclineOrderPrice(p, o) \/ CancelByPark(p, o)
        \/ \E d \in Driver : AcceptOffer(p, o, d)

\* Requests that are one transaction or one Redis operation.
ShortRequest(o) ==
    \/ ConfirmOrderPrice(o) \/ CancelByPassenger(o)
    \/ \E d \in Driver : RejectOffer(o, d)
    \/ \E to \in Moves : MoveByDriver(o, to)

Presence(d) == GoOnline(d) \/ GoOffline(d) \/ GoStale(d)

Expiry(o) ==
    \/ Lapse(o) \/ ExpireIndex(o) \/ ExpireDispatching(o) \/ ExpireLock(o)
    \/ \E d \in Driver : ExpireOffer(o, d)

Next ==
    \/ \E p \in Proc : Step(p) \/ Request(p) \/ Consume(p) \/ TakeTimeout(p)
                       \/ Recover(p) \/ IOError(p)
    \/ \E o \in Order : ShortRequest(o) \/ Expiry(o)
    \/ \E d \in Driver : Presence(d)
    \/ \E P \in Instances : Crash(P)

Spec == Init /\ [][Next]_vars

\* The scheduler runs every goroutine, a loop that waits gets what is there
\* for it, and TTLs run out.  The timeout loop handles every due entry each
\* second, so an order's timers are not passed over for ever; whether people
\* act is up to them.
Fairness ==
    /\ \A p \in Proc : WF_vars(Step(p))
    /\ \A p \in Dispatchers : WF_vars(Consume(p))
    /\ \A p \in Timers : \A o \in Order :
           /\ SF_vars(\E t \in timeouts : t.order = o /\ TakeOfferTimeout(p, t))
           /\ SF_vars(\E t \in timeouts : t.order = o /\ TakeConfirmationTimeout(p, t))
    /\ \A p \in Recoverers : \A o \in Order :
           SF_vars(RecoverSearch(p, o)) /\ SF_vars(RecoverExpired(p, o))
    /\ \A o \in Order : SF_vars(ExpireDispatching(o)) /\ WF_vars(ExpireLock(o))
    /\ \A o \in Order : \A d \in Driver : WF_vars(ExpireOffer(o, d))

FairSpec == Spec /\ Fairness

-----------------------------------------------------------------------------
(* Type correctness.                                                        *)

\* The type invariant of the state of dispatch.
TypeOK ==
    /\ ord \in [Order -> Row]
    /\ drv \in [Driver -> DriverStatus]
    /\ offer \in [Order -> SUBSET Driver]
    /\ index \in [Order -> SUBSET Driver]
    /\ dispatching \in SUBSET Order
    /\ lock \in [Order -> Proc \union {NoProc}]
    /\ queue \in Seq(Task)
    /\ timeouts \in SUBSET Task
    /\ job \in [Proc -> Job]
    /\ chains \in [Order -> Nat]
    /\ faults \in Nat

-----------------------------------------------------------------------------
(* Safety.                                                                  *)

\* A driver never serves two orders: AssignDriver of two orders, whose accept
\* locks are different keys, may race for one driver.
OneActiveOrderPerDriver ==
    \A o1, o2 \in Order : \A d \in Driver :
        Serves(ord, d, o1) /\ Serves(ord, d, o2) => o1 = o2

\* The columns an acceptance and a release write together stay together: an
\* order that searches or has failed keeps nothing of an earlier reservation,
\* a reservation has its driver and its price, and a trip starts and ends
\* with the driver and the price the passenger agreed to.
ReservationConsistent ==
    \A o \in Order :
        LET row == ord[o] IN
        /\ row.status \in {"absent", "searching", "failed"} =>
               row.driver = NoDriver /\ row.price = "none"
        /\ row.status = "driver_assigned" =>
               row.driver # NoDriver /\ row.price \in {"pending", "confirmed"}
        /\ row.status \in Underway =>
               row.driver # NoDriver /\ row.price = "confirmed"

\* What the passenger has agreed to is final: no expiry, decline, timeout or
\* recovery that was on its way takes the driver or the price back.
AgreementIsFinal ==
    [][\A o \in Order :
          ord[o].price = "confirmed" =>
             ord'[o].price = "confirmed" /\ ord'[o].driver = ord[o].driver]_vars

\* Somebody carries the search of o on: a queued task, a pending timeout or a
\* process that is about to publish, schedule or fail.
Carried(o) ==
    \/ \E i \in DOMAIN queue : queue[i].order = o
    \/ \E t \in timeouts : t.order = o /\ ~ Confirmation(t)
    \/ \E p \in Proc :
          /\ job[p].order = o
          /\ \/ job[p].pc \in {"mark", "publish", "search", "offer", "schedule",
                               "sweep", "fail", "rebegin", "republish"}
             \/ job[p].pc = "begin" /\ o \notin dispatching

\* Until something fails, no order is left searching with nobody searching for
\* it, whichever of the concurrent chains, timeouts and handlers drop theirs
\* because they find the order in another status.
NoLostSearch ==
    faults = 0 => \A o \in Order : ord[o].status = "searching" => Carried(o)

\* The accept lock serialises acceptances of one order as long as it does not
\* expire under its holder and no holder dies.
AcceptancesSerialised ==
    faults = 0 => \A o \in Order : Cardinality(Accepting(o)) <= 1

-----------------------------------------------------------------------------
(* Liveness.                                                                *)

\* A search ends: with an acceptance, a cancellation or a failure.
SearchEnds ==
    \A o \in Order : ord[o].status = "searching" ~> ord[o].status # "searching"

\* A reservation the passenger has let lapse ends.
Lapsed(row) ==
    row.status = "driver_assigned" /\ row.price = "pending" /\ row.lapsed

ReservationEnds == \A o \in Order : Lapsed(ord[o]) ~> ~ Lapsed(ord[o])

\* Whatever process dies, the search is taken up again, as long as the
\* recovery loops keep running.
LostSearchRecovered ==
    \A o \in Order :
        ord[o].status = "searching"
            ~> ord[o].status # "searching" \/ \E p \in Recoverers : At(p, "stopped")
=============================================================================
