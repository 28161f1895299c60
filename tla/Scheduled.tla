----------------------------- MODULE Scheduled -----------------------------
(***************************************************************************)
(* Orders a park books ahead, and the worker that activates them.          *)
(*                                                                         *)
(* A scheduled order is a row of `orders' from the start: it has a status, *)
(* which waits at `created', and a scheduled_status.  The park changes it, *)
(* the worker activates what is due and expires what is overdue, and an    *)
(* active order without a driver is handed to dispatch.  Passengers order  *)
(* rides of their own meanwhile.  Dispatch and the trip are summarised by  *)
(* the statements that change the row.                                     *)
(***************************************************************************)
EXTENDS Naturals, Sequences, FiniteSets, SequencesExt

CONSTANTS
  Order, Passenger, Driver,
  None,      \* NULL
  Times,     \* activation times a park may ask for
  Before,    \* scheduled_activation_before_minutes
  After,     \* scheduled_expire_after_minutes
  MaxClock,  \* bound: the time
  MaxEdits,  \* bound: changes of an order by the park
  MaxFaults  \* bound: failures of the worker

Serving == {"driver_assigned", "in_progress"}
Open == {"created", "searching"} \union Serving
Status == Open \union {"completed", "cancelled", "failed"}

Waiting == {"confirmed", "driver_assigned"}
IsTerminal == {"activated", "cancelled", "expired"}

\* A row of orders, booked ahead or not.
OrderRow ==
  [passenger: Passenger, status: Status, sched: Waiting \union IsTerminal \union {None},
   driver: Driver \union {None}, preassigned: Driver \union {None}, at: Nat]

ASSUME ScheduledAssumption ==
  /\ None \notin Driver \union OrderRow \union Waiting \union IsTerminal
  /\ IsFiniteSet(Order) /\ Times \subseteq Nat
  /\ Before \in Nat \ {0} /\ After \in Nat \ {0} /\ MaxClock \in Nat
  /\ MaxEdits \in Nat /\ MaxFaults \in Nat

VARIABLES
  orders,  \* orders
  queue,   \* orders dispatch has a task for
  worker,  \* the scheduled worker: what it does and the due orders it has listed
  now, edits, faults

vars == <<orders, queue, worker, now, edits, faults>>

Placed(o) == orders[o] # None

Pausing == [pc |-> "pausing", due |-> <<>>]

\* Nothing is left to activate, and what is overdue comes next.
RoundOver == [pc |-> "activating", due |-> <<>>]

\* Rows have the columns' values, and an order that waits for its time is new,
\* held for the driver the park has named and for nobody else.
SchedTypeOK ==
  /\ orders \in [Order -> OrderRow \union {None}]
  /\ \A o \in Order : Placed(o) /\ orders[o].sched \in Waiting =>
       /\ orders[o].status = "created"
       /\ orders[o].driver = orders[o].preassigned
       /\ (orders[o].sched = "confirmed") <=> (orders[o].preassigned = None)
  /\ queue \subseteq Order
  /\ worker \in [pc: {"pausing", "activating", "enqueueing", "expiring"}, due: Seq(Order)]
  /\ now \in 0..MaxClock /\ edits \in 0..MaxEdits /\ faults \in 0..MaxFaults

Init ==
  /\ orders = [o \in Order |-> None]
  /\ queue = {}
  /\ worker = Pausing
  /\ now = 0 /\ edits = 0 /\ faults = 0

-----------------------------------------------------------------------------
(* The partial unique indexes on passenger_id and driver_id.               *)

HasOpenOrder(u) == \E o \in Order : Placed(o) /\ orders[o].passenger = u /\ orders[o].status \in Open

Busy(d) == \E o \in Order : Placed(o) /\ orders[o].driver = d /\ orders[o].status \in Serving

-----------------------------------------------------------------------------
(* The park.  Each operation is a transaction that locks the row.          *)

ScheduledAt(t) == t + Before

Row(u, status, sched, d, t) ==
  [passenger |-> u, status |-> status, sched |-> sched, driver |-> d, preassigned |-> d, at |-> t]

SchedStatus(d) == IF d = None THEN "confirmed" ELSE "driver_assigned"

CreateScheduledOrder(o, u, d, t) ==
  /\ ~Placed(o)
  /\ ScheduledAt(t) > now
  /\ ~HasOpenOrder(u)
  /\ orders' = [orders EXCEPT ![o] = Row(u, "created", SchedStatus(d), d, t)]
  /\ UNCHANGED <<queue, worker, now, edits, faults>>

\* COALESCE(new, old)
Coalesce(new, old) == IF new = None THEN old ELSE new

\* The order's driver as COALESCE(driver_id, $13) would set it.
KeepDriver(d, row) == Coalesce(row.driver, d)

\* driver_id = COALESCE($13, driver_id)
ReplaceDriver(d, row) == Coalesce(d, row.driver)

\* Another time, another driver, or both; AssignScheduledOrderDriver is the same.
UpdateScheduledOrder(o, d, t) ==
  /\ edits < MaxEdits /\ edits' = edits + 1
  /\ Placed(o) /\ orders[o].sched \in Waiting
  /\ t # orders[o].at => ScheduledAt(t) > now
  /\ LET row == orders[o]
         named == Coalesce(d, row.preassigned)
     IN orders' = [orders EXCEPT ![o] = [row EXCEPT !.at = t, !.preassigned = named,
                                           !.driver = ReplaceDriver(d, row), !.sched = SchedStatus(named)]]
  /\ UNCHANGED <<queue, worker, now, faults>>

Cancellable(o) == Placed(o) /\ orders[o].sched \in Waiting

CancelScheduledOrder(o) ==
  /\ Cancellable(o)
  /\ orders' = [orders EXCEPT ![o].sched = "cancelled"]
  /\ UNCHANGED <<queue, worker, now, edits, faults>>

-----------------------------------------------------------------------------
(* The worker.                                                             *)

Due(o) == Placed(o) /\ orders[o].sched \in Waiting /\ orders[o].at <= now

\* A tick: the due orders by activation time.
ListDueOrderIDs ==
  /\ worker.pc = "pausing"
  /\ \E due \in SetToSeqs({o \in Order : Due(o)}) :
       /\ \A i, j \in DOMAIN due : i < j => orders[due[i]].at <= orders[due[j]].at
       /\ worker' = [pc |-> "activating", due |-> due]
  /\ UNCHANGED <<orders, queue, now, edits, faults>>

\* As the UPDATE without scheduled_status IN (...): what was listed is activated.
ActivatableAnyway(o) == orders[o].at <= now

\* The row as it is now, whatever it was when it was listed.
Activatable(o) == Due(o)

\* Without the unique index on driver_id.
NeverBusy(d) == d \notin Driver

\* The unique index refuses a second active order of the driver.
Refused(d) == Busy(d)

\* The next due order becomes active.  An error ends the round of activations;
\* an order without a driver is enqueued next.
ActivateOrder ==
  /\ worker.pc = "activating" /\ worker.due # <<>>
  /\ LET o == Head(worker.due)
         row == orders[o]
         d == row.preassigned
     IN \/ /\ ~Activatable(o)
           /\ worker' = [worker EXCEPT !.due = Tail(@)]
           /\ UNCHANGED orders
        \/ /\ Activatable(o) /\ Refused(d)
           /\ worker' = RoundOver
           /\ UNCHANGED orders
        \/ /\ Activatable(o) /\ ~Refused(d)
           /\ orders' = [orders EXCEPT ![o] =
                [row EXCEPT !.sched = "activated", !.driver = Coalesce(row.driver, d),
                            !.status = IF d = None THEN "created" ELSE "driver_assigned"]]
           /\ worker' = IF d = None THEN [worker EXCEPT !.pc = "enqueueing"]
                        ELSE [worker EXCEPT !.due = Tail(@)]
  /\ UNCHANGED <<queue, now, edits, faults>>

\* The dispatch configuration of the park is read and a task is published.
EnqueueActivated ==
  /\ worker.pc = "enqueueing"
  /\ queue' = queue \union {Head(worker.due)}
  /\ worker' = [pc |-> "activating", due |-> Tail(worker.due)]
  /\ UNCHANGED <<orders, now, edits, faults>>

\* An error of the database or of Redis ends the round.
RoundFails ==
  /\ worker.pc \in {"activating", "enqueueing"} /\ worker # RoundOver
  /\ faults < MaxFaults /\ faults' = faults + 1
  /\ worker' = RoundOver
  /\ UNCHANGED <<orders, queue, now, edits>>

\* The process is restarted.
Crash ==
  /\ worker.pc # "pausing"
  /\ faults < MaxFaults /\ faults' = faults + 1
  /\ worker' = Pausing
  /\ UNCHANGED <<orders, queue, now, edits>>

\* Only orders without a driver.
OverdueUnassigned(o) ==
  Placed(o) /\ orders[o].sched = "confirmed" /\ ScheduledAt(orders[o].at) + After <= now

Overdue(o) == Placed(o) /\ orders[o].sched \in Waiting /\ ScheduledAt(orders[o].at) + After <= now

\* One statement expires what is overdue.  Its first part, `candidates', reads a
\* snapshot;
ListOverdue ==
  /\ worker = RoundOver
  /\ LET overdue == {o \in Order : Overdue(o)}
     IN worker' = IF overdue = {} THEN Pausing ELSE [pc |-> "expiring", due |-> SetToSeq(overdue)]
  /\ UNCHANGED <<orders, queue, now, edits, faults>>

\* its second updates those rows, matched by their id alone, once whoever holds
\* one has committed.  The rows it returns do not have the columns
\* scanDispatchOrder reads, so the call reports an error once it has expired
\* something; either way the worker waits for the next tick.
ExpirePendingOrders ==
  /\ worker.pc = "expiring"
  /\ orders' = [o \in Order |-> IF o \in ToSet(worker.due) THEN [orders[o] EXCEPT !.sched = "expired"] ELSE orders[o]]
  /\ worker' = Pausing
  /\ UNCHANGED <<queue, now, edits, faults>>

-----------------------------------------------------------------------------
(* What else happens to orders.                                            *)

Tick == now < MaxClock /\ now' = now + 1 /\ UNCHANGED <<orders, queue, worker, edits, faults>>

\* A passenger orders a ride at once.
CreatePassengerOrder(o, u) ==
  /\ ~Placed(o) /\ ~HasOpenOrder(u)
  /\ orders' = [orders EXCEPT ![o] = Row(u, "searching", None, None, 0)]
  /\ queue' = queue \union {o}
  /\ UNCHANGED <<worker, now, edits, faults>>

\* Dispatch takes the task of an order and marks it as searching.
MarkOrderSearching(o) ==
  /\ o \in queue
  /\ queue' = queue \ {o}
  /\ orders' = IF orders[o].status \in {"created", "searching"} /\ orders[o].driver = None
               THEN [orders EXCEPT ![o].status = "searching"]
               ELSE orders
  /\ UNCHANGED <<worker, now, edits, faults>>

AssignDriver(o, d) ==
  /\ Placed(o) /\ orders[o].status = "searching" /\ orders[o].driver = None
  /\ ~Busy(d)
  /\ orders' = [orders EXCEPT ![o] = [@ EXCEPT !.status = "driver_assigned", !.driver = d]]
  /\ UNCHANGED <<queue, worker, now, edits, faults>>

\* Nobody is found.
FailOrder(o) ==
  /\ Placed(o) /\ orders[o].status = "searching"
  /\ orders' = [orders EXCEPT ![o].status = "failed"]
  /\ UNCHANGED <<queue, worker, now, edits, faults>>

\* The driver starts and completes the trip.
Drive(o) ==
  /\ Placed(o) /\ orders[o].status \in Serving
  /\ orders' = [orders EXCEPT ![o].status = IF @ = "in_progress" THEN "completed" ELSE "in_progress"]
  /\ UNCHANGED <<queue, worker, now, edits, faults>>

\* The passenger, the driver or the park cancels.
CancelOrder(o) ==
  /\ Placed(o) /\ orders[o].status \in {"searching", "driver_assigned"}
  /\ orders' = [orders EXCEPT ![o].status = "cancelled"]
  /\ UNCHANGED <<queue, worker, now, edits, faults>>

-----------------------------------------------------------------------------

Worker == ListDueOrderIDs \/ ActivateOrder \/ EnqueueActivated \/ ListOverdue \/ ExpirePendingOrders

ParkActs ==
  \E o \in Order :
    \/ \E u \in Passenger, d \in Driver \union {None}, t \in Times : CreateScheduledOrder(o, u, d, t)
    \/ \E d \in Driver \union {None}, t \in Times : UpdateScheduledOrder(o, d, t)
    \/ CancelScheduledOrder(o)

RideMoves ==
  \E o \in Order :
    \/ \E u \in Passenger : CreatePassengerOrder(o, u)
    \/ MarkOrderSearching(o)
    \/ \E d \in Driver : AssignDriver(o, d)
    \/ FailOrder(o)
    \/ Drive(o)
    \/ CancelOrder(o)

Next == Worker \/ RoundFails \/ Crash \/ Tick \/ ParkActs \/ RideMoves

Spec == Init /\ [][Next]_vars

\* The worker's loop runs on, and time passes.
FairSpec == Spec /\ WF_vars(Worker) /\ WF_vars(Tick)

-----------------------------------------------------------------------------
(* Properties.                                                             *)

\* A passenger has one open order and a driver serves one, although the worker
\* makes an order active that was booked when its driver was free.
RidesAreSingle ==
  \A o, q \in Order : o # q /\ Placed(o) /\ Placed(q) =>
    /\ ~(orders[o].passenger = orders[q].passenger /\ orders[o].status \in Open /\ orders[q].status \in Open)
    /\ ~(orders[o].driver = orders[q].driver /\ orders[o].status \in Serving /\ orders[q].status \in Serving)

\* What the scheduling of an order has ended in stays: an order the park cancels
\* while the worker holds it in its list is not activated, and one that is active
\* is not cancelled or expired (ScheduledOrderStatus.IsTerminal).  Only a
\* cancellation that meets ExpirePendingOrders is overwritten by it.
SchedulingIsFinal ==
  [][\A o \in Order : Placed(o) /\ orders[o].sched \in IsTerminal =>
       orders'[o].sched \in {orders[o].sched} \union (IF orders[o].sched = "cancelled" THEN {"expired"} ELSE {})]_vars

\* The driver the park has named last is the one who serves the order, however
\* often the park changed its mind before the activation.
NamedDriverServes ==
  \A o \in Order : Placed(o) /\ orders[o].preassigned # None /\ orders[o].status \in Serving =>
    orders[o].driver = orders[o].preassigned

\* An order does not wait for ever, although a driver who is busy stops the
\* activation of the orders behind theirs and a round may fail: it is activated,
\* cancelled or expired.
LeavesSchedule ==
  \A o \in Order : (Placed(o) /\ orders[o].sched \in Waiting) ~> (Placed(o) /\ orders[o].sched \in IsTerminal)

\* An order the park has cancelled is closed: its passenger may order again.
ClosedBookingFreesPassenger ==
  \A o \in Order : Placed(o) /\ orders[o].sched \in {"cancelled", "expired"} => orders[o].status \notin Open
=============================================================================
