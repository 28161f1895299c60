------------------------------- MODULE Fleet -------------------------------
(***************************************************************************)
(* The drivers of the parks: invitations and transfers between parks, the  *)
(* cars, what a park decides about a driver, the driver's shift, and the   *)
(* orders that tie a driver to a park.                                     *)
(*                                                                         *)
(* A transaction that touches a driver first takes the driver's row, FOR   *)
(* UPDATE, and holds it until it commits: it is a job of two steps here.   *)
(* Other statements on that row wait for it.  Two operations read first    *)
(* and lock nothing: attaching a car, and leaving the line.                *)
(***************************************************************************)
EXTENDS Naturals, Sequences, FiniteSets, SequencesExt

CONSTANTS
  Driver, Park, Order, Invite, Proc,
  Car,       \* cars
  CarPark,   \* the park that owns a car
  None       \* NULL

Serving == {"driver_assigned", "in_progress"}
Closed == {"completed", "cancelled"}
InviteStatus == {"pending", "accepted", "declined", "cancelled", "expired"}

\* The rows of drivers, orders and driver_park_invites.
DriverRow ==
  [park: Park \union {None}, status: {"offline", "online", "busy", "blocked"},
   verification: {"pending_verification", "verified", "blocked", "archived"},
   isVerified: BOOLEAN, deleted: BOOLEAN]
OrderRow ==
  [park: Park \union {None}, driver: Driver \union {None}, preassigned: Driver \union {None},
   car: Car \union {None}, status: {"created", "searching"} \union Serving \union Closed]
InviteRow == [driver: Driver, from: Park \union {None}, to: Park, status: InviteStatus, late: BOOLEAN]

ASSUME FleetAssumption ==
  /\ CarPark \in [Car -> Park]
  /\ None \notin Park \union Driver \union Invite \union Car \union Proc \union OrderRow \union InviteRow

VARIABLES
  drivers,  \* drivers
  active,   \* the parks whose settings are active
  cars,     \* car_driver_assignments: <<car, driver>>
  orders,   \* orders
  invites,  \* driver_park_invites
  history,  \* driver_park_history, each driver's rows by joined_at
  lock,     \* who holds a driver's row
  jobs      \* what the processes are doing

vars == <<drivers, active, cars, orders, invites, history, lock, jobs>>

Idle == [op |-> "idle"]

Placed(o) == orders[o] # None
Sent(i) == invites[i] # None
PendingOf(d) == {i \in Invite : Sent(i) /\ invites[i].driver = d /\ invites[i].status = "pending"}

\* Rows have the columns' values; a driver has one invitation pending from a park
\* (driver_park_invites_pending) and serves one order; a row is held by one job.
FleetTypeOK ==
  /\ drivers \in [Driver -> DriverRow]
  /\ active \subseteq Park /\ cars \subseteq Car \X Driver
  /\ orders \in [Order -> OrderRow \union {None}]
  /\ invites \in [Invite -> InviteRow \union {None}]
  /\ \A d \in Driver :
       /\ \A i, j \in PendingOf(d) : invites[i].to = invites[j].to => i = j
       /\ Cardinality({o \in Order : Placed(o) /\ orders[o].driver = d /\ orders[o].status \in Serving}) <= 1
       /\ lock[d] # None => jobs[lock[d]].op \in {"create", "respond", "assign", "book"} /\ jobs[lock[d]].d = d

Hired(p) == [park |-> p, status |-> "offline", verification |-> "verified", isVerified |-> TRUE, deleted |-> FALSE]

\* Drivers of a park have an open row of their history, independent ones none.
Init ==
  /\ drivers \in [Driver -> {Hired(p) : p \in Park} \union {Hired(None)}]
  /\ history = [d \in Driver |-> IF drivers[d].park = None THEN <<>>
                                 ELSE <<[park |-> drivers[d].park, left |-> FALSE, invite |-> None]>>]
  /\ active = Park /\ cars = {}
  /\ orders = [o \in Order |-> None] /\ invites = [i \in Invite |-> None]
  /\ lock = [d \in Driver |-> None] /\ jobs = [p \in Proc |-> Idle]

-----------------------------------------------------------------------------
(* Locks.                                                                  *)

Free(d) == lock[d] = None

\* Without FOR UPDATE.
TakeNothing(p, d) == UNCHANGED lock

\* SELECT ... FROM drivers ... FOR UPDATE
Take(p, d) == Free(d) /\ lock' = [lock EXCEPT ![d] = p]

Begin(p, job) == jobs[p] = Idle /\ jobs' = [jobs EXCEPT ![p] = job]

Doing(p, op) == jobs[p].op = op

\* The transaction ends and its lock is released.
Commit(p) == jobs' = [jobs EXCEPT ![p] = Idle] /\ lock' = [d \in Driver |-> IF lock[d] = p THEN None ELSE lock[d]]

-----------------------------------------------------------------------------
(* Invitations.                                                            *)

\* LockDriver: a driver, whose park is read with the lock.
CreateBegin(p, d, to) ==
  /\ to \in active /\ ~drivers[d].deleted
  /\ Begin(p, [op |-> "create", d |-> d, to |-> to, from |-> drivers[d].park])
  /\ Take(p, d)
  /\ UNCHANGED <<drivers, active, cars, orders, invites, history>>

\* The invitations whose time has passed stay pending.
ExpireNothing(is, d) == is

Expire(is, d) == [i \in Invite |-> IF i \in PendingOf(d) /\ is[i].late THEN [is[i] EXCEPT !.status = "expired"] ELSE is[i]]

\* Create: nothing for the park the driver is in or for a live invitation.
Create(p, i) ==
  /\ Doing(p, "create") /\ ~Sent(i)
  /\ LET job == jobs[p]
         current == Expire(invites, job.d)
         live == \E j \in PendingOf(job.d) : ~invites[j].late /\ invites[j].to = job.to
     IN invites' = IF job.from = job.to THEN invites
                   ELSE IF live THEN current
                   ELSE [current EXCEPT ![i] = [driver |-> job.d, from |-> job.from, to |-> job.to,
                                                status |-> "pending", late |-> FALSE]]
  /\ Commit(p)
  /\ UNCHANGED <<drivers, active, cars, orders, history>>

\* An invitation's lifetime passes.
Late(i) ==
  /\ Sent(i) /\ invites[i].status = "pending" /\ ~invites[i].late
  /\ invites' = [invites EXCEPT ![i].late = TRUE]
  /\ UNCHANGED <<drivers, active, cars, orders, history, lock, jobs>>

\* The driver accepts or declines; the park cancels.  All lock the driver first.
RespondBegin(p, i, status) ==
  /\ Sent(i) /\ status \in {"accepted", "declined", "cancelled"}
  /\ ~drivers[invites[i].driver].deleted
  /\ Begin(p, [op |-> "respond", d |-> invites[i].driver, i |-> i, status |-> status, driver |-> drivers[invites[i].driver]])
  /\ Take(p, invites[i].driver)
  /\ UNCHANGED <<drivers, active, cars, orders, invites, history>>

\* Orders the driver has accepted.
HasActiveOrders(d) == \E o \in Order : Placed(o) /\ orders[o].driver = d /\ orders[o].status \in Serving

HasOrders(d) == \E o \in Order : Placed(o) /\ d \in {orders[o].driver, orders[o].preassigned} /\ orders[o].status \notin Closed

\* Without EnsurePending.
AlwaysPending(i) == Sent(i)

EnsurePending(i) == invites[i].status = "pending" /\ ~invites[i].late

\* EnsureTransfer, for the driver's row as it was locked.
EnsureTransfer(i, driver) ==
  /\ invites[i].to \in active
  /\ driver.park = invites[i].from /\ driver.park # invites[i].to
  /\ driver.status = "offline" /\ ~HasOrders(invites[i].driver)

\* The driver's rows with the last one open as it was.
StillOpen(rows) == rows

\* UPDATE driver_park_history SET left_at ...
Leave(rows) == [n \in DOMAIN rows |-> [rows[n] EXCEPT !.left = TRUE]]

\* The other invitations stay pending.
CancelNothing(is, i) == is

CancelOtherPending(is, i) ==
  [j \in Invite |-> IF j \in PendingOf(is[i].driver) \ {i}
                    THEN [is[j] EXCEPT !.status = IF is[j].late THEN "expired" ELSE "cancelled"]
                    ELSE is[j]]

Close(i, status) == [invites EXCEPT ![i].status = status]

\* The driver moves to the park of the invitation.
Transfer(i) ==
  LET d == invites[i].driver
      to == invites[i].to
  IN /\ history' = [history EXCEPT ![d] = Append(Leave(@), [park |-> to, left |-> FALSE, invite |-> i])]
     /\ cars' = {a \in cars : a[2] # d}
     /\ drivers' = [drivers EXCEPT ![d] = [@ EXCEPT !.park = to, !.status = "offline",
                                             !.verification = "pending_verification", !.isVerified = FALSE]]
     /\ invites' = CancelOtherPending(Close(i, "accepted"), i)

Respond(p) ==
  /\ Doing(p, "respond")
  /\ LET i == jobs[p].i
         status == jobs[p].status
     IN \/ /\ ~EnsurePending(i)
           /\ invites' = IF invites[i].status = "pending" THEN Close(i, "expired") ELSE invites
           /\ UNCHANGED <<drivers, cars, history>>
        \/ /\ EnsurePending(i) /\ status # "accepted"
           /\ invites' = Close(i, status)
           /\ UNCHANGED <<drivers, cars, history>>
        \/ EnsurePending(i) /\ status = "accepted" /\ EnsureTransfer(i, jobs[p].driver) /\ Transfer(i)
        \/ /\ EnsurePending(i) /\ status = "accepted" /\ ~EnsureTransfer(i, jobs[p].driver)
           /\ UNCHANGED <<drivers, cars, history, invites>>
  /\ Commit(p)
  /\ UNCHANGED <<active, orders>>

-----------------------------------------------------------------------------
(* Orders that need a driver of the park.                                  *)

\* A passenger orders a ride, of no park yet.
CreatePassengerOrder(o) ==
  /\ ~Placed(o)
  /\ orders' = [orders EXCEPT ![o] = [park |-> None, driver |-> None, preassigned |-> None, car |-> None,
                                      status |-> "searching"]]
  /\ UNCHANGED <<drivers, active, cars, invites, history, lock, jobs>>

UsableCars(d) == {c \in Car : <<c, d>> \in cars /\ CarPark[c] = drivers[d].park}

Assignable(d) ==
  /\ drivers[d].status = "online" /\ drivers[d].isVerified /\ drivers[d].verification = "verified"
  /\ drivers[d].park \in active /\ ~HasActiveOrders(d)

AssignBegin(p, o, d) ==
  /\ Placed(o) /\ ~drivers[d].deleted
  /\ Begin(p, [op |-> "assign", d |-> d, o |-> o])
  /\ Take(p, d)
  /\ UNCHANGED <<drivers, active, cars, orders, invites, history>>

\* The order takes the driver, their park and one of their cars, or nothing.
AssignDriver(p) ==
  /\ Doing(p, "assign")
  /\ LET o == jobs[p].o
         d == jobs[p].d
     IN \/ /\ orders[o].status = "searching" /\ orders[o].driver = None /\ Assignable(d)
           /\ \E c \in UsableCars(d) :
                orders' = [orders EXCEPT ![o] = [@ EXCEPT !.driver = d, !.park = drivers[d].park, !.car = c,
                                                           !.status = "driver_assigned"]]
           /\ lock' = [lock EXCEPT ![d] = None]
           /\ jobs' = [jobs EXCEPT ![p] = [op |-> "busy", d |-> d]]
        \/ /\ ~(orders[o].status = "searching" /\ orders[o].driver = None /\ Assignable(d) /\ UsableCars(d) # {})
           /\ UNCHANGED orders
           /\ Commit(p)
  /\ UNCHANGED <<drivers, active, cars, invites, history>>

\* A later call, for a driver who may no longer be online.
MarkDriverBusy(p) ==
  /\ Doing(p, "busy") /\ Free(jobs[p].d)
  /\ LET d == jobs[p].d
     IN drivers' = IF drivers[d].status = "online" /\ ~drivers[d].deleted THEN [drivers EXCEPT ![d].status = "busy"] ELSE drivers
  /\ jobs' = [jobs EXCEPT ![p] = Idle]
  /\ UNCHANGED <<active, cars, orders, invites, history, lock>>

\* A park books an order ahead for a driver it names, who must be its own.
BookBegin(p, o, d) ==
  /\ ~Placed(o) /\ ~drivers[d].deleted /\ drivers[d].park # None
  /\ Begin(p, [op |-> "book", d |-> d, o |-> o, park |-> drivers[d].park])
  /\ Take(p, d)
  /\ UNCHANGED <<drivers, active, cars, orders, invites, history>>

CreateScheduledOrder(p) ==
  /\ Doing(p, "book")
  /\ LET job == jobs[p]
     IN orders' = IF Placed(job.o) THEN orders
                  ELSE [orders EXCEPT ![job.o] = [park |-> job.park, driver |-> job.d, preassigned |-> job.d,
                                                  car |-> None, status |-> "created"]]
  /\ Commit(p)
  /\ UNCHANGED <<drivers, active, cars, invites, history>>

\* The worker activates it, unless its driver serves another order.
ActivateOrder(o) ==
  /\ Placed(o) /\ orders[o].status = "created"
  /\ ~HasActiveOrders(orders[o].preassigned)
  /\ orders' = [orders EXCEPT ![o].status = "driver_assigned"]
  /\ UNCHANGED <<drivers, active, cars, invites, history, lock, jobs>>

StartTrip(o) ==
  /\ Placed(o) /\ orders[o].status = "driver_assigned"
  /\ orders' = [orders EXCEPT ![o].status = "in_progress"]
  /\ UNCHANGED <<drivers, active, cars, invites, history, lock, jobs>>

\* An order is completed or cancelled and its driver is free again.
CloseOrder(o, status) ==
  /\ Placed(o)
  /\ \/ status = "completed" /\ orders[o].status = "in_progress"
     \/ status = "cancelled" /\ orders[o].status \in {"searching", "driver_assigned"}
  /\ orders' = [orders EXCEPT ![o].status = status]
  /\ LET d == orders[o].driver
     IN IF d = None THEN UNCHANGED drivers
        ELSE /\ Free(d)
             /\ drivers' = IF drivers[d].status = "busy" /\ ~drivers[d].deleted
                           THEN [drivers EXCEPT ![d].status = "online"] ELSE drivers
  /\ UNCHANGED <<active, cars, invites, history, lock, jobs>>

-----------------------------------------------------------------------------
(* The driver's shift.                                                     *)

MarkOnline(d) ==
  /\ Free(d)
  /\ drivers[d].status \in {"offline", "online"} /\ ~drivers[d].deleted
  /\ drivers[d].isVerified /\ drivers[d].verification = "verified"
  /\ drivers[d].park \in active /\ UsableCars(d) # {}
  /\ drivers' = [drivers EXCEPT ![d].status = "online"]
  /\ UNCHANGED <<active, cars, orders, invites, history, lock, jobs>>

\* The statement looks for active orders in its snapshot,
OfflineBegin(p, d) ==
  /\ ~drivers[d].deleted /\ ~HasActiveOrders(d)
  /\ Begin(p, [op |-> "offline", d |-> d])
  /\ UNCHANGED <<drivers, active, cars, orders, invites, history, lock>>

\* and changes the row when it gets it.
MarkOffline(p) ==
  /\ Doing(p, "offline") /\ Free(jobs[p].d)
  /\ drivers' = IF drivers[jobs[p].d].deleted THEN drivers ELSE [drivers EXCEPT ![jobs[p].d].status = "offline"]
  /\ jobs' = [jobs EXCEPT ![p] = Idle]
  /\ UNCHANGED <<active, cars, orders, invites, history, lock>>

-----------------------------------------------------------------------------
(* What a park decides.                                                    *)

SetDriver(d, row) ==
  /\ drivers[d].park # None /\ ~drivers[d].deleted /\ Free(d)
  /\ drivers' = [drivers EXCEPT ![d] = row]
  /\ UNCHANGED <<active, orders, invites, history, lock, jobs>>

BlockDriver(d) ==
  SetDriver(d, [drivers[d] EXCEPT !.status = "blocked", !.verification = "blocked"]) /\ UNCHANGED cars

UnblockDriver(d) ==
  /\ SetDriver(d, [drivers[d] EXCEPT !.status = "offline",
                     !.verification = IF drivers[d].isVerified THEN "verified" ELSE "pending_verification"])
  /\ UNCHANGED cars

\* UpdateDriver with a new verification status.
VerifyDriver(d) == SetDriver(d, [drivers[d] EXCEPT !.verification = "verified", !.isVerified = TRUE]) /\ UNCHANGED cars

\* The driver goes, with their assignments to the cars of the park.
ArchiveDriver(d) ==
  /\ SetDriver(d, [drivers[d] EXCEPT !.status = "blocked", !.verification = "archived", !.deleted = TRUE])
  /\ cars' = {a \in cars : a[2] # d \/ CarPark[a[1]] # drivers[d].park}

\* ensureDriverAndCarBelongToPark reads without a lock,
AttachBegin(p, c, d) ==
  /\ ~drivers[d].deleted /\ drivers[d].park = CarPark[c]
  /\ Begin(p, [op |-> "attach", d |-> d, c |-> c])
  /\ UNCHANGED <<drivers, active, cars, orders, invites, history, lock>>

\* and the row of the assignment, which refers to the driver's, waits for its lock.
AssignCarToDriver(p) ==
  /\ Doing(p, "attach") /\ Free(jobs[p].d)
  /\ cars' = cars \union {<<jobs[p].c, jobs[p].d>>}
  /\ jobs' = [jobs EXCEPT ![p] = Idle]
  /\ UNCHANGED <<drivers, active, orders, invites, history, lock>>

DetachCar(c, d) ==
  /\ <<c, d>> \in cars /\ ~drivers[d].deleted /\ drivers[d].park = CarPark[c]
  /\ cars' = cars \ {<<c, d>>}
  /\ UNCHANGED <<drivers, active, orders, invites, history, lock, jobs>>

\* taxi_park_settings.is_active
SetParkActive(t) ==
  /\ active' = IF t \in active THEN active \ {t} ELSE active \union {t}
  /\ UNCHANGED <<drivers, cars, orders, invites, history, lock, jobs>>

-----------------------------------------------------------------------------

Invitations ==
  \/ \E p \in Proc, d \in Driver, t \in Park : CreateBegin(p, d, t)
  \/ \E p \in Proc, i \in Invite : Create(p, i)
  \/ \E p \in Proc, i \in Invite, s \in InviteStatus : RespondBegin(p, i, s)
  \/ \E p \in Proc : Respond(p)
  \/ \E i \in Invite : Late(i)

Rides ==
  \/ \E o \in Order : CreatePassengerOrder(o) \/ ActivateOrder(o) \/ StartTrip(o)
  \/ \E o \in Order, s \in Closed : CloseOrder(o, s)
  \/ \E p \in Proc, o \in Order, d \in Driver : AssignBegin(p, o, d) \/ BookBegin(p, o, d)
  \/ \E p \in Proc : AssignDriver(p) \/ MarkDriverBusy(p) \/ CreateScheduledOrder(p)

Shifts == (\E d \in Driver : MarkOnline(d)) \/ (\E p \in Proc : MarkOffline(p) \/ \E d \in Driver : OfflineBegin(p, d))

Parks ==
  \/ \E d \in Driver : BlockDriver(d) \/ UnblockDriver(d) \/ VerifyDriver(d) \/ ArchiveDriver(d)
  \/ \E c \in Car, d \in Driver : DetachCar(c, d) \/ \E p \in Proc : AttachBegin(p, c, d)
  \/ \E p \in Proc : AssignCarToDriver(p)
  \/ \E t \in Park : SetParkActive(t)

Next == Invitations \/ Rides \/ Shifts \/ Parks

Spec == Init /\ [][Next]_vars

-----------------------------------------------------------------------------
(* Properties.                                                             *)

\* An order that is not closed is served, or awaited, by a driver of its own
\* park in a car of that park, although drivers change parks, cars stay behind
\* and a driver's status is offline now and then while they serve.
ServesOwnPark ==
  \A o \in Order : Placed(o) /\ orders[o].driver # None /\ orders[o].status \notin Closed =>
    /\ drivers[orders[o].driver].park = orders[o].park
    /\ orders[o].car # None => CarPark[orders[o].car] = orders[o].park

\* A pending invitation is from the park the driver is in now and to another
\* one, so that the invitations a transfer leaves behind can never be accepted.
InvitesAreCurrent ==
  \A i \in Invite : Sent(i) /\ invites[i].status = "pending" =>
    /\ invites[i].from = drivers[invites[i].driver].park
    /\ invites[i].to # invites[i].from

\* The history of a driver is a chain of accepted invitations, each used once,
\* that ends in the park they are in; only the last row is open.
HistoryIsAChain ==
  \A d \in Driver :
    LET rows == history[d]
    IN /\ \A n \in DOMAIN rows : rows[n].left <=> n # Len(rows)
       /\ IF rows = <<>> THEN drivers[d].park = None ELSE drivers[d].park = Last(rows).park
       /\ \A n \in DOMAIN rows : rows[n].invite # None =>
            LET i == invites[rows[n].invite]
            IN /\ i.status = "accepted" /\ i.driver = d /\ i.to = rows[n].park
               /\ i.from = (IF n = 1 THEN None ELSE rows[n - 1].park)
       /\ \A i \in Invite : Sent(i) /\ invites[i].driver = d /\ invites[i].status = "accepted" =>
            Cardinality({n \in DOMAIN rows : rows[n].invite = i}) = 1

\* An invitation is answered once: an acceptance that meets a cancellation or
\* another acceptance finds it closed.
AnsweredOnce ==
  [][\A i \in Invite : Sent(i) /\ invites[i].status # "pending" => invites'[i].status = invites[i].status]_vars

\* A transfer detaches the cars of the old park.
OldCarsDetached ==
  \A c \in Car, d \in Driver : <<c, d>> \in cars => CarPark[c] = drivers[d].park
=============================================================================
