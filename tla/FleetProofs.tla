----------------------------- MODULE FleetProofs -----------------------------
(***************************************************************************)
(* What is proved of drivers, parks and invitations, for any number of     *)
(* them and of transactions at once.                                       *)
(***************************************************************************)
EXTENDS Fleet, FiniteSetTheorems, TLAPS

\* The transactions that hold the row of a driver.
Locking == {"create", "respond", "assign", "book"}

Job ==
  {Idle}
  \union [op: {"create"}, d: Driver, to: Park, from: Park \union {None}]
  \union [op: {"respond"}, d: Driver, i: Invite, status: {"accepted", "declined", "cancelled"}, driver: DriverRow]
  \union [op: {"assign"}, d: Driver, o: Order]
  \union [op: {"busy", "offline"}, d: Driver]
  \union [op: {"book"}, d: Driver, o: Order, park: Park \union {None}]
  \union [op: {"attach"}, d: Driver, c: Car]

LEMMA JobKinds ==
  ASSUME NEW j \in Job
  PROVE  /\ j.op \in Locking \union {"busy", "offline", "attach"} => j.d \in Driver
         /\ j.op = "create" => j.to \in Park /\ j.from \in Park \union {None}
         /\ j.op = "respond" => j.i \in Invite /\ j.status \in {"accepted", "declined", "cancelled"} /\ j.driver \in DriverRow
         /\ j.op \in {"assign", "book"} => j.o \in Order
         /\ j.op = "book" => j.park \in Park \union {None}
         /\ j.op = "attach" => j.c \in Car
  BY DEF Job, Idle, Locking

LEMMA NoneIsNothing ==
  /\ None \notin Park /\ None \notin Driver /\ None \notin Invite /\ None \notin Car /\ None \notin Proc
  /\ None \notin OrderRow /\ None \notin InviteRow
  BY FleetAssumption

-----------------------------------------------------------------------------
(* Locks.                                                                  *)

\* A row is held by the transaction that has taken it, and by no other.
Locked ==
  /\ jobs \in [Proc -> Job] /\ lock \in [Driver -> Proc \union {None}]
  /\ \A p \in Proc : jobs[p].op \in Locking => lock[jobs[p].d] = p
  /\ \A d \in Driver : lock[d] # None => jobs[lock[d]].op \in Locking /\ jobs[lock[d]].d = d

\* The ways jobs and locks change.
BeginLocked(p, job) == Begin(p, job) /\ Take(p, job.d)
BeginFree(p, job) == Begin(p, job) /\ UNCHANGED lock
EndFree(p) == jobs[p].op \notin Locking /\ jobs' = [jobs EXCEPT ![p] = Idle] /\ UNCHANGED lock
Hand(p) ==
  /\ Doing(p, "assign")
  /\ lock' = [lock EXCEPT ![jobs[p].d] = None]
  /\ jobs' = [jobs EXCEPT ![p] = [op |-> "busy", d |-> jobs[p].d]]

LEMMA LockKept ==
  ASSUME Locked, NEW p \in Proc, NEW job \in Job,
         \/ BeginLocked(p, job) /\ job.op \in Locking
         \/ BeginFree(p, job) /\ job.op \notin Locking
         \/ EndFree(p) \/ Commit(p) \/ Hand(p)
  PROVE  Locked'
  <1>. USE NoneIsNothing DEF Locked
  <1>1. CASE BeginLocked(p, job) /\ job.op \in Locking
    <2>1. job.d \in Driver /\ jobs[p].op = "idle"
      BY <1>1, JobKinds DEF BeginLocked, Begin, Idle
    <2>. QED  BY <1>1, <2>1 DEF BeginLocked, Begin, Take, Free, Locking
  <1>2. CASE BeginFree(p, job) /\ job.op \notin Locking
    BY <1>2 DEF BeginFree, Begin, Idle, Locking
  <1>3. CASE EndFree(p)
    BY <1>3 DEF EndFree, Idle, Locking, Job
  <1>4. CASE Commit(p)
    BY <1>4 DEF Commit, Idle, Locking, Job
  <1>5. CASE Hand(p)
    <2>. DEFINE busy == [op |-> "busy", d |-> jobs[p].d]
    <2>1. jobs[p].d \in Driver /\ lock[jobs[p].d] = p
      BY <1>5, JobKinds DEF Hand, Doing, Locking
    <2>2. busy \in Job /\ busy.op \notin Locking
      BY <2>1 DEF Job, Locking
    <2>. HIDE DEF busy
    <2>3. jobs' = [jobs EXCEPT ![p] = busy] /\ lock' = [lock EXCEPT ![jobs[p].d] = None]
      BY <1>5 DEF Hand, busy
    <2>. QED  BY <2>1, <2>2, <2>3
  <1>. QED  BY <1>1, <1>2, <1>3, <1>4, <1>5

\* What transactions have read of the rows they hold.
Current ==
  \A p \in Proc :
    /\ Doing(p, "create") => jobs[p].from = drivers[jobs[p].d].park
    /\ Doing(p, "respond") => /\ Sent(jobs[p].i) /\ invites[jobs[p].i].driver = jobs[p].d
                              /\ jobs[p].driver = drivers[jobs[p].d]
    /\ Doing(p, "assign") => Placed(jobs[p].o)
    /\ Doing(p, "book") => jobs[p].park = drivers[jobs[p].d].park

Rows ==
  /\ drivers \in [Driver -> DriverRow]
  /\ active \subseteq Park /\ cars \subseteq Car \X Driver
  /\ orders \in [Order -> OrderRow \union {None}]
  /\ invites \in [Invite -> InviteRow \union {None}]

\* An order booked ahead waits for the driver it names.
Booked == \A o \in Order : Placed(o) /\ orders[o].status = "created" =>
            orders[o].driver \in Driver /\ orders[o].preassigned = orders[o].driver

Held == Locked /\ Rows /\ Current /\ Booked

\* The row of an invitation or an order that is there.
LEMMA IsRow ==
  ASSUME Held
  PROVE  /\ \A i \in Invite : Sent(i) => /\ invites[i] \in InviteRow /\ invites[i].driver \in Driver
                                          /\ invites[i].to \in Park
         /\ \A o \in Order : Placed(o) => orders[o] \in OrderRow /\ orders[o].driver \in Driver \union {None}
  <1>1. \A i \in Invite : Sent(i) => invites[i] \in InviteRow
    BY DEF Held, Rows, Sent
  <1>2. \A o \in Order : Placed(o) => orders[o] \in OrderRow
    BY DEF Held, Rows, Placed
  <1>. QED  BY <1>1, <1>2 DEF InviteRow, OrderRow

LEMMA HeldInit == Init => Held
  <1>1. Init => Locked
    BY NoneIsNothing DEF Init, Locked, Job, Idle, Locking
  <1>2. Init => Current
    BY DEF Init, Current, Doing, Idle
  <1>3. \A k \in Park \union {None} : Hired(k) \in DriverRow
    BY DEF Hired, DriverRow
  <1>4. Init => Rows
    BY <1>3 DEF Init, Rows
  <1>5. Init => Booked
    BY DEF Init, Booked, Placed
  <1>. QED  BY <1>1, <1>2, <1>4, <1>5 DEF Held

\* Which jobs begin, continue and end.
LEMMA LockedStep ==
  ASSUME Held, [Next]_vars
  PROVE  Locked'
  <1>. USE DEF Held
  <1>1. ASSUME UNCHANGED <<jobs, lock>> PROVE Locked'
    BY <1>1 DEF Locked
  <1>2. ASSUME NEW p \in Proc, NEW d \in Driver, NEW t \in Park, CreateBegin(p, d, t) PROVE Locked'
    <2>. DEFINE job == [op |-> "create", d |-> d, to |-> t, from |-> drivers[d].park]
    <2>1. job \in Job /\ job.op \in Locking
      BY DEF Job, Locking, Rows, DriverRow
    <2>2. BeginLocked(p, job)
      BY <1>2 DEF CreateBegin, BeginLocked
    <2>. QED  BY <2>1, <2>2, LockKept
  <1>3. ASSUME NEW p \in Proc, NEW i \in Invite, NEW s \in InviteStatus, RespondBegin(p, i, s) PROVE Locked'
    <2>. DEFINE job == [op |-> "respond", d |-> invites[i].driver, i |-> i, status |-> s,
                        driver |-> drivers[invites[i].driver]]
    <2>1. job \in Job /\ job.op \in Locking
      BY <1>3 DEF RespondBegin, Job, Locking, Rows, Sent, InviteRow
    <2>2. BeginLocked(p, job)
      BY <1>3 DEF RespondBegin, BeginLocked
    <2>. QED  BY <2>1, <2>2, LockKept
  <1>4. ASSUME NEW p \in Proc, NEW o \in Order, NEW d \in Driver, AssignBegin(p, o, d) PROVE Locked'
    <2>. DEFINE job == [op |-> "assign", d |-> d, o |-> o]
    <2>1. job \in Job /\ job.op \in Locking
      BY DEF Job, Locking
    <2>2. BeginLocked(p, job)
      BY <1>4 DEF AssignBegin, BeginLocked
    <2>. QED  BY <2>1, <2>2, LockKept
  <1>5. ASSUME NEW p \in Proc, NEW o \in Order, NEW d \in Driver, BookBegin(p, o, d) PROVE Locked'
    <2>. DEFINE job == [op |-> "book", d |-> d, o |-> o, park |-> drivers[d].park]
    <2>1. job \in Job /\ job.op \in Locking
      BY DEF Job, Locking, Rows, DriverRow
    <2>2. BeginLocked(p, job)
      BY <1>5 DEF BookBegin, BeginLocked
    <2>. QED  BY <2>1, <2>2, LockKept
  <1>6. ASSUME NEW p \in Proc, NEW d \in Driver, OfflineBegin(p, d) PROVE Locked'
    <2>. DEFINE job == [op |-> "offline", d |-> d]
    <2>1. job \in Job /\ job.op \notin Locking
      BY DEF Job, Locking
    <2>. QED  BY <1>6, <2>1, LockKept DEF OfflineBegin, BeginFree
  <1>7. ASSUME NEW p \in Proc, NEW c \in Car, NEW d \in Driver, AttachBegin(p, c, d) PROVE Locked'
    <2>. DEFINE job == [op |-> "attach", d |-> d, c |-> c]
    <2>1. job \in Job /\ job.op \notin Locking
      BY DEF Job, Locking
    <2>. QED  BY <1>7, <2>1, LockKept DEF AttachBegin, BeginFree
  <1>8. ASSUME NEW p \in Proc, Commit(p) \/ EndFree(p) \/ Hand(p) PROVE Locked'
    <2>1. Idle \in Job
      BY DEF Job
    <2>. QED  BY <1>8, <2>1, LockKept
  <1>9. CASE Invitations
    BY <1>1, <1>2, <1>3, <1>8, <1>9 DEF Invitations, Create, Respond, Late
  <1>10. CASE Rides
    <2>1. ASSUME NEW p \in Proc, AssignDriver(p) PROVE Commit(p) \/ Hand(p)
      BY <2>1 DEF AssignDriver, Hand
    <2>2. ASSUME NEW p \in Proc, MarkDriverBusy(p) PROVE EndFree(p)
      BY <2>2 DEF MarkDriverBusy, EndFree, Doing, Locking
    <2>3. ASSUME NEW o \in Order, CreatePassengerOrder(o) \/ ActivateOrder(o) \/ StartTrip(o) PROVE Locked'
      BY <1>1, <2>3 DEF CreatePassengerOrder, ActivateOrder, StartTrip
    <2>4. ASSUME NEW o \in Order, NEW s \in Closed, CloseOrder(o, s) PROVE Locked'
      BY <1>1, <2>4 DEF CloseOrder
    <2>5. ASSUME NEW p \in Proc, CreateScheduledOrder(p) PROVE Commit(p)
      BY <2>5 DEF CreateScheduledOrder
    <2>. QED  BY <1>4, <1>5, <1>8, <1>10, <2>1, <2>2, <2>3, <2>4, <2>5 DEF Rides
  <1>11. CASE Shifts
    <2>1. ASSUME NEW p \in Proc, MarkOffline(p) PROVE EndFree(p)
      BY <2>1 DEF MarkOffline, EndFree, Doing, Locking
    <2>. QED  BY <1>1, <1>6, <1>8, <1>11, <2>1 DEF Shifts, MarkOnline
  <1>12. CASE Parks
    <2>1. ASSUME NEW p \in Proc, AssignCarToDriver(p) PROVE EndFree(p)
      BY <2>1 DEF AssignCarToDriver, EndFree, Doing, Locking
    <2>. QED
      BY <1>1, <1>7, <1>8, <1>12, <2>1
      DEF Parks, BlockDriver, UnblockDriver, VerifyDriver, ArchiveDriver, SetDriver, DetachCar, SetParkActive
  <1>13. CASE UNCHANGED vars
    BY <1>1, <1>13 DEF vars
  <1>. QED  BY <1>9, <1>10, <1>11, <1>12, <1>13 DEF Next

-----------------------------------------------------------------------------
(* Drivers' rows and invitations.                                          *)

\* A row nobody holds is rewritten; its park stays.
RowWritten ==
  \E d \in Driver, row \in DriverRow :
    /\ Free(d) /\ row.park = drivers[d].park
    /\ drivers' = [drivers EXCEPT ![d] = row]

\* The transaction p moves its driver to another park.
Moved(p) ==
  /\ Doing(p, "respond") /\ jobs[p].status = "accepted"
  /\ EnsurePending(jobs[p].i) /\ EnsureTransfer(jobs[p].i, jobs[p].driver) /\ Transfer(jobs[p].i)
  /\ Commit(p) /\ UNCHANGED orders

LEMMA SetDriverWrites ==
  ASSUME Held, NEW d \in Driver, NEW row \in DriverRow, SetDriver(d, row), row.park = drivers[d].park
  PROVE  RowWritten
  BY DEF SetDriver, RowWritten

\* What becomes of the rows of drivers.
LEMMA DriversStep ==
  ASSUME Held, [Next]_vars
  PROVE  \/ UNCHANGED drivers
         \/ RowWritten /\ UNCHANGED invites
         \/ \E p \in Proc : Moved(p)
  <1>. USE DEF Held, Rows, DriverRow
  <1>. DEFINE Goal == \/ UNCHANGED drivers
                      \/ RowWritten /\ UNCHANGED invites
                      \/ \E p \in Proc : Moved(p)
  <1>1. ASSUME NEW d \in Driver, Free(d), UNCHANGED invites,
               \E s \in {"offline", "online", "busy", "blocked"} : drivers' = [drivers EXCEPT ![d].status = s]
        PROVE  RowWritten
    <2>1. PICK s \in {"offline", "online", "busy", "blocked"} : drivers' = [drivers EXCEPT ![d].status = s]
      BY <1>1
    <2>. DEFINE row == [drivers[d] EXCEPT !.status = s]
    <2>2. row \in DriverRow /\ row.park = drivers[d].park /\ drivers' = [drivers EXCEPT ![d] = row]
      BY <2>1
    <2>. QED  BY <1>1, <2>2 DEF RowWritten
  <1>. HIDE DEF Goal
  <1>2. ASSUME NEW p \in Proc, Respond(p) PROVE Goal
    <2>1. UNCHANGED drivers \/ Moved(p)
      BY ONLY <1>2 DEF Respond, Moved, Doing
    <2>. QED  BY <2>1 DEF Goal
  <1>3. ASSUME Invitations PROVE Goal
    <2>1. ASSUME NEW p \in Proc, NEW i \in Invite, Create(p, i) PROVE Goal
      BY ONLY <2>1 DEF Create, Goal
    <2>2. ASSUME NEW i \in Invite, Late(i) PROVE Goal
      BY ONLY <2>2 DEF Late, Goal
    <2>. QED  BY <1>2, <1>3, <2>1, <2>2 DEF Invitations, CreateBegin, RespondBegin, Goal
  <1>4. ASSUME Rides PROVE Goal
    <2>1. ASSUME NEW p \in Proc, MarkDriverBusy(p) PROVE Goal
      <3>1. jobs[p].d \in Driver
        BY <2>1, JobKinds DEF MarkDriverBusy, Doing, Locked
      <3>. QED  BY <1>1, <2>1, <3>1 DEF MarkDriverBusy, Goal
    <2>2. ASSUME NEW o \in Order, NEW s \in Closed, CloseOrder(o, s) PROVE Goal
      <3>1. orders[o].driver \in Driver \union {None}
        BY <2>2 DEF CloseOrder, Placed, OrderRow
      <3>. QED  BY <1>1, <2>2, <3>1 DEF CloseOrder, Goal
    <2>. QED
      BY <1>4, <2>1, <2>2
      DEF Rides, CreatePassengerOrder, ActivateOrder, StartTrip, AssignBegin, BookBegin, AssignDriver,
          CreateScheduledOrder, Goal
  <1>5. ASSUME Shifts PROVE Goal
    <2>1. ASSUME NEW d \in Driver, MarkOnline(d) PROVE Goal
      BY <1>1, <2>1 DEF MarkOnline, Goal
    <2>2. ASSUME NEW p \in Proc, MarkOffline(p) PROVE Goal
      <3>1. jobs[p].d \in Driver
        BY <2>2, JobKinds DEF MarkOffline, Doing, Locked
      <3>. QED  BY <1>1, <2>2, <3>1 DEF MarkOffline, Goal
    <2>. QED  BY <1>5, <2>1, <2>2 DEF Shifts, OfflineBegin, Goal
  <1>6. ASSUME Parks PROVE Goal
    <2>1. ASSUME NEW d \in Driver, NEW row \in DriverRow, SetDriver(d, row), row.park = drivers[d].park PROVE Goal
      BY <2>1, SetDriverWrites DEF SetDriver, Goal
    <2>2. ASSUME NEW d \in Driver, BlockDriver(d) PROVE Goal
      BY <2>1, <2>2 DEF BlockDriver
    <2>3. ASSUME NEW d \in Driver, UnblockDriver(d) PROVE Goal
      BY <2>1, <2>3 DEF UnblockDriver
    <2>4. ASSUME NEW d \in Driver, VerifyDriver(d) PROVE Goal
      BY <2>1, <2>4 DEF VerifyDriver
    <2>5. ASSUME NEW d \in Driver, ArchiveDriver(d) PROVE Goal
      BY <2>1, <2>5 DEF ArchiveDriver
    <2>. QED
      BY <1>6, <2>2, <2>3, <2>4, <2>5 DEF Parks, DetachCar, AttachBegin, AssignCarToDriver, SetParkActive, Goal
  <1>. QED  BY <1>3, <1>4, <1>5, <1>6 DEF Next, vars, Goal

\* The row a transaction holds changes by that transaction alone.
LEMMA HeldRowKept ==
  ASSUME Held, [Next]_vars, NEW p \in Proc, jobs[p].op \in Locking, jobs'[p] = jobs[p]
  PROVE  drivers'[jobs[p].d] = drivers[jobs[p].d]
  <1>. USE NoneIsNothing DEF Held, Rows, Locked
  <1>1. jobs[p].d \in Driver /\ lock[jobs[p].d] = p /\ p # None
    BY JobKinds
  <1>2. CASE UNCHANGED drivers
    BY <1>2
  <1>3. CASE RowWritten
    BY <1>1, <1>3 DEF RowWritten, Free
  <1>4. ASSUME NEW q \in Proc, Moved(q) PROVE drivers'[jobs[p].d] = drivers[jobs[p].d]
    <2>1. jobs[q].i \in Invite /\ jobs[q].d = invites[jobs[q].i].driver /\ lock[jobs[q].d] = q
      BY <1>4, JobKinds DEF Moved, Doing, Current, Locking
    <2>2. q # p
      BY <1>4 DEF Moved, Commit, Idle, Locking
    <2>3. jobs[p].d # invites[jobs[q].i].driver
      BY <1>1, <2>1, <2>2
    <2>. QED  BY <1>1, <1>4, <2>3 DEF Moved, Transfer
  <1>. QED  BY <1>2, <1>3, <1>4, DriversStep

\* The parks of drivers change in transfers.
LEMMA ParkKept ==
  ASSUME Held, RowWritten, NEW d \in Driver
  PROVE  drivers'[d].park = drivers[d].park
  BY DEF RowWritten, Held, Rows

\* What becomes of an invitation that is there.
LEMMA InvitesStep ==
  ASSUME Held, [Next]_vars, NEW i \in Invite, Sent(i)
  PROVE  /\ invites'[i] \in InviteRow
         /\ invites'[i].driver = invites[i].driver /\ invites'[i].from = invites[i].from
         /\ invites'[i].to = invites[i].to
         /\ invites[i].status # "pending" => invites'[i].status = invites[i].status
  <1>. USE DEF Sent
  <1>. DEFINE Goal(row) ==
         /\ row \in InviteRow
         /\ row.driver = invites[i].driver /\ row.from = invites[i].from /\ row.to = invites[i].to
         /\ invites[i].status # "pending" => row.status = invites[i].status
  <1>1. invites[i] \in InviteRow /\ Goal(invites[i])
    BY DEF Held, Rows
  <1>2. ASSUME invites[i].status = "pending", NEW s \in InviteStatus PROVE Goal([invites[i] EXCEPT !.status = s])
    BY <1>1, <1>2 DEF InviteRow
  <1>3. ASSUME invites[i].status = "pending" PROVE Goal([invites[i] EXCEPT !.late = TRUE])
    BY <1>1, <1>3 DEF InviteRow
  <1>4. invites \in [Invite -> InviteRow \union {None}]
    BY DEF Held, Rows
  <1>. HIDE DEF Goal
  <1>5. ASSUME UNCHANGED invites PROVE Goal(invites'[i])
    BY <1>1, <1>5
  <1>6. ASSUME NEW p \in Proc, NEW j \in Invite, Create(p, j) PROVE Goal(invites'[i])
    <2>. DEFINE current == Expire(invites, jobs[p].d)
    <2>1. current = [k \in Invite |-> current[k]] /\ Goal(current[i])
      BY <1>1, <1>2 DEF Expire, PendingOf, InviteStatus
    <2>2. i # j
      BY <1>6 DEF Create
    <2>. HIDE DEF current
    <2>3. \/ invites' = invites \/ invites' = current
          \/ \E row : invites' = [current EXCEPT ![j] = row]
      BY <1>6 DEF Create, current
    <2>. QED  BY <1>1, <2>1, <2>2, <2>3
  <1>7. ASSUME NEW j \in Invite, Late(j) PROVE Goal(invites'[i])
    BY <1>1, <1>3, <1>4, <1>7 DEF Late
  <1>8. ASSUME NEW p \in Proc, Respond(p) PROVE Goal(invites'[i])
    <2>. DEFINE j == jobs[p].i
    <2>1. j \in Invite /\ jobs[p].status \in {"accepted", "declined", "cancelled"}
      BY <1>8, JobKinds DEF Respond, Doing, Held, Locked
    <2>2. ASSUME invites[j].status = "pending", NEW s \in InviteStatus PROVE Goal(Close(j, s)[i])
      BY <1>1, <1>2, <1>4, <2>1, <2>2 DEF Close
    <2>3. ASSUME EnsurePending(j), Transfer(j) PROVE Goal(invites'[i])
      <3>. DEFINE closed == Close(j, "accepted")
      <3>1. Goal(closed[i]) /\ (i # j => closed[i] = invites[i])
        BY <1>4, <2>1, <2>2, <2>3 DEF EnsurePending, InviteStatus, Close
      <3>2. CASE i = j
        BY <2>1, <2>3, <3>1, <3>2 DEF Transfer, CancelOtherPending
      <3>3. CASE i # j
        BY <1>1, <1>2, <1>4, <2>1, <2>3, <3>1, <3>3 DEF Transfer, CancelOtherPending, PendingOf, InviteStatus
      <3>. QED  BY <3>2, <3>3
    <2>4. \/ UNCHANGED invites
          \/ invites[j].status = "pending" /\ \E s \in InviteStatus : invites' = Close(j, s)
          \/ EnsurePending(j) /\ Transfer(j)
      BY <1>8, <2>1 DEF Respond, EnsurePending, InviteStatus
    <2>. QED  BY <1>5, <2>2, <2>3, <2>4
  <1>9. Goal(invites'[i])
    <2>1. CASE Invitations
      BY <1>5, <1>6, <1>7, <1>8, <2>1 DEF Invitations, CreateBegin, RespondBegin
    <2>2. CASE Rides
      BY <1>5, <2>2
      DEF Rides, CreatePassengerOrder, ActivateOrder, StartTrip, CloseOrder, AssignBegin, BookBegin, AssignDriver,
          MarkDriverBusy, CreateScheduledOrder
    <2>3. CASE Shifts
      BY <1>5, <2>3 DEF Shifts, MarkOnline, OfflineBegin, MarkOffline
    <2>4. CASE Parks
      BY <1>5, <2>4
      DEF Parks, BlockDriver, UnblockDriver, VerifyDriver, ArchiveDriver, SetDriver, DetachCar, AttachBegin,
          AssignCarToDriver, SetParkActive
    <2>. QED  BY <1>5, <2>1, <2>2, <2>3, <2>4 DEF Next, vars
  <1>. QED  BY <1>9 DEF Goal

LEMMA DriversRows ==
  ASSUME Held, [Next]_vars
  PROVE  drivers' \in [Driver -> DriverRow]
  <1>. USE DEF Held, Rows
  <1>1. CASE RowWritten
    BY <1>1 DEF RowWritten
  <1>2. ASSUME NEW p \in Proc, Moved(p) PROVE drivers' \in [Driver -> DriverRow]
    <2>1. /\ invites[jobs[p].i] \in InviteRow
          /\ invites[jobs[p].i].driver \in Driver /\ invites[jobs[p].i].to \in Park
      BY <1>2, JobKinds DEF Moved, Doing, Current, Sent, InviteRow, Locked
    <2>2. \A d \in Driver, t \in Park : [drivers[d] EXCEPT !.park = t, !.status = "offline",
             !.verification = "pending_verification", !.isVerified = FALSE] \in DriverRow
      BY DEF DriverRow
    <2>. QED  BY <1>2, <2>1, <2>2 DEF Moved, Transfer
  <1>. QED  BY <1>1, <1>2, DriversStep

LEMMA InvitesRows ==
  ASSUME Held, [Next]_vars
  PROVE  invites' \in [Invite -> InviteRow \union {None}]
  <1>. DEFINE Table(t) == t = [i \in Invite |-> t[i]]
  <1>1. \A i \in Invite : Sent(i) => invites'[i] \in InviteRow
    BY InvitesStep
  <1>2. Table(invites)
    BY DEF Held, Rows
  <1>3. ASSUME UNCHANGED invites PROVE invites' \in [Invite -> InviteRow \union {None}]
    BY <1>3 DEF Held, Rows
  <1>4. ASSUME Table(invites'), \A i \in Invite : ~Sent(i) => invites'[i] \in InviteRow \union {None}
        PROVE  invites' \in [Invite -> InviteRow \union {None}]
    BY <1>1, <1>4
  <1>5. ASSUME NEW p \in Proc, NEW j \in Invite, Create(p, j) PROVE invites' \in [Invite -> InviteRow \union {None}]
    <2>. DEFINE current == Expire(invites, jobs[p].d)
                new == [driver |-> jobs[p].d, from |-> jobs[p].from, to |-> jobs[p].to,
                        status |-> "pending", late |-> FALSE]
    <2>1. new \in InviteRow
      BY <1>5, JobKinds DEF Create, Doing, Locking, InviteRow, InviteStatus, Held, Locked
    <2>2. \A i \in Invite : ~Sent(i) => current[i] = None
      BY DEF Expire, PendingOf, Sent
    <2>3. Table(current)
      BY DEF Expire
    <2>4. invites' = invites \/ invites' = current \/ invites' = [current EXCEPT ![j] = new]
      BY <1>5 DEF Create
    <2>. HIDE DEF current, new
    <2>5. CASE invites' = current
      BY <1>4, <2>2, <2>3, <2>5
    <2>6. CASE invites' = [current EXCEPT ![j] = new]
      <3>1. Table(invites')
        BY <2>3, <2>6
      <3>2. \A i \in Invite : ~Sent(i) => invites'[i] \in InviteRow \union {None}
        BY <2>1, <2>2, <2>3, <2>6
      <3>. QED  BY <1>4, <3>1, <3>2
    <2>. QED  BY <1>3, <2>4, <2>5, <2>6
  <1>6. ASSUME NEW j \in Invite, Late(j) PROVE invites' \in [Invite -> InviteRow \union {None}]
    BY <1>2, <1>4, <1>6 DEF Late, Sent
  <1>7. ASSUME NEW p \in Proc, Respond(p) PROVE invites' \in [Invite -> InviteRow \union {None}]
    <2>. DEFINE j == jobs[p].i
    <2>1. j \in Invite /\ Sent(j)
      BY <1>7, JobKinds DEF Respond, Doing, Held, Locked, Current
    <2>2. \A s \in InviteStatus : Table(Close(j, s)) /\ \A i \in Invite : ~Sent(i) => Close(j, s)[i] = None
      BY <1>2, <2>1 DEF Close, Sent
    <2>3. ASSUME Transfer(j) PROVE invites' \in [Invite -> InviteRow \union {None}]
      <3>. DEFINE closed == Close(j, "accepted")
      <3>1. \A i \in Invite : ~Sent(i) => closed[i] = None
        BY <2>2 DEF InviteStatus
      <3>. HIDE DEF closed
      <3>2. invites' = CancelOtherPending(closed, j)
        BY <2>3 DEF Transfer, closed
      <3>3. Table(invites') /\ \A i \in Invite : ~Sent(i) => invites'[i] = None
        BY <3>1, <3>2 DEF CancelOtherPending, PendingOf
      <3>. QED  BY <1>4, <3>3
    <2>4. UNCHANGED invites \/ (\E s \in InviteStatus : invites' = Close(j, s)) \/ Transfer(j)
      BY <1>7, <2>1, JobKinds DEF Respond, Doing, InviteStatus, Held, Locked
    <2>. QED  BY <1>3, <1>4, <2>2, <2>3, <2>4
  <1>8. CASE Invitations
    BY <1>3, <1>5, <1>6, <1>7, <1>8 DEF Invitations, CreateBegin, RespondBegin
  <1>9. CASE Rides
    BY <1>3, <1>9
    DEF Rides, CreatePassengerOrder, ActivateOrder, StartTrip, CloseOrder, AssignBegin, BookBegin, AssignDriver,
        MarkDriverBusy, CreateScheduledOrder
  <1>10. CASE Shifts
    BY <1>3, <1>10 DEF Shifts, MarkOnline, OfflineBegin, MarkOffline
  <1>11. CASE Parks
    BY <1>3, <1>11
    DEF Parks, BlockDriver, UnblockDriver, VerifyDriver, ArchiveDriver, SetDriver, DetachCar, AttachBegin,
        AssignCarToDriver, SetParkActive
  <1>. QED  BY <1>3, <1>8, <1>9, <1>10, <1>11 DEF Next, vars

\* Cars and the parks' settings.
LEMMA CarsRows ==
  ASSUME Held, [Next]_vars
  PROVE  active' \subseteq Park /\ cars' \subseteq Car \X Driver
  <1>. USE DEF Held, Rows
  <1>1. CASE Invitations
    BY <1>1 DEF Invitations, CreateBegin, Create, RespondBegin, Respond, Transfer, Late
  <1>2. CASE Rides
    BY <1>2
    DEF Rides, CreatePassengerOrder, ActivateOrder, StartTrip, CloseOrder, AssignBegin, BookBegin, AssignDriver,
        MarkDriverBusy, CreateScheduledOrder
  <1>3. CASE Shifts
    BY <1>3 DEF Shifts, MarkOnline, OfflineBegin, MarkOffline
  <1>4. CASE Parks
    <2>1. ASSUME NEW p \in Proc, AssignCarToDriver(p) PROVE active' \subseteq Park /\ cars' \subseteq Car \X Driver
      <3>1. jobs[p].c \in Car /\ jobs[p].d \in Driver
        BY <2>1, JobKinds DEF AssignCarToDriver, Doing, Locked
      <3>. QED  BY <2>1, <3>1 DEF AssignCarToDriver
    <2>. QED
      BY <1>4, <2>1
      DEF Parks, BlockDriver, UnblockDriver, VerifyDriver, ArchiveDriver, SetDriver, DetachCar, AttachBegin, SetParkActive
  <1>. QED  BY <1>1, <1>2, <1>3, <1>4 DEF Next, vars

\* Invitations are made in Create.
LEMMA NewInvite ==
  ASSUME Held, [Next]_vars, NEW i \in Invite, ~Sent(i), invites'[i] # None
  PROVE  /\ \E p \in Proc : Create(p, i)
         /\ \A j \in Invite : ~Sent(j) /\ j # i => invites'[j] = None
  <1>. USE DEF Sent
  <1>. DEFINE Made == \E p \in Proc : Create(p, i)
  <1>1. ~UNCHANGED invites
    OBVIOUS
  <1>2. ASSUME NEW p \in Proc, NEW j \in Invite, Create(p, j), i # j PROVE FALSE
    <2>. DEFINE current == Expire(invites, jobs[p].d)
    <2>1. current[i] = None
      BY DEF Expire, PendingOf
    <2>. HIDE DEF current
    <2>2. invites' = invites \/ invites' = current \/ \E row : invites' = [current EXCEPT ![j] = row]
      BY <1>2 DEF Create, current
    <2>3. current = [k \in Invite |-> current[k]]
      BY DEF current, Expire
    <2>. QED  BY <1>2, <2>1, <2>2, <2>3
  <1>3. ASSUME NEW j \in Invite, Late(j) PROVE FALSE
    BY <1>3 DEF Late, Held, Rows
  <1>4. ASSUME NEW p \in Proc, Respond(p) PROVE FALSE
    <2>. DEFINE j == jobs[p].i
    <2>1. j \in Invite /\ Sent(j) /\ jobs[p].status \in {"accepted", "declined", "cancelled"}
      BY <1>4, JobKinds DEF Respond, Doing, Held, Locked, Current
    <2>2. \A s \in InviteStatus : Close(j, s)[i] = None
      BY <2>1 DEF Close, Held, Rows
    <2>3. ~Transfer(j)
      BY <2>2 DEF Transfer, CancelOtherPending, PendingOf, InviteStatus
    <2>. QED  BY <1>1, <1>4, <2>1, <2>2, <2>3 DEF Respond, InviteStatus
  <1>5. ASSUME Invitations PROVE Made
    BY <1>1, <1>2, <1>3, <1>4, <1>5 DEF Invitations, CreateBegin, RespondBegin
  <1>6. ~Rides
    BY <1>1
    DEF Rides, CreatePassengerOrder, ActivateOrder, StartTrip, CloseOrder, AssignBegin, BookBegin, AssignDriver,
        MarkDriverBusy, CreateScheduledOrder
  <1>7. ~Shifts
    BY <1>1 DEF Shifts, MarkOnline, OfflineBegin, MarkOffline
  <1>8. ~Parks
    BY <1>1
    DEF Parks, BlockDriver, UnblockDriver, VerifyDriver, ArchiveDriver, SetDriver, DetachCar, AttachBegin,
        AssignCarToDriver, SetParkActive
  <1>9. Made
    BY <1>1, <1>5, <1>6, <1>7, <1>8 DEF Next, vars
  <1>10. ASSUME NEW j \in Invite, ~Sent(j), j # i PROVE invites'[j] = None
    <2>1. PICK p \in Proc : Create(p, i)
      BY <1>9
    <2>. DEFINE current == Expire(invites, jobs[p].d)
    <2>2. current[j] = None
      BY <1>10 DEF Expire, PendingOf
    <2>. HIDE DEF current
    <2>3. invites' = invites \/ invites' = current \/ \E row : invites' = [current EXCEPT ![i] = row]
      BY <2>1 DEF Create, current
    <2>4. current = [k \in Invite |-> current[k]]
      BY DEF current, Expire
    <2>. QED  BY <1>10, <2>2, <2>3, <2>4
  <1>. QED  BY <1>9, <1>10

-----------------------------------------------------------------------------
(* Orders.                                                                 *)

Open(row) == row.driver # None /\ row.status \notin Closed

\* The order's driver and car are of its park.
Own(row) == /\ drivers[row.driver].park = row.park
            /\ row.car # None => CarPark[row.car] = row.park

\* An order is rewritten, alone; it is served as it was, or by a driver of its
\* park as that is now, who serves no other.
OrderWritten ==
  \E o \in Order, row \in OrderRow :
    /\ orders' = [orders EXCEPT ![o] = row]
    /\ Open(row) => \/ Own(row)
                    \/ /\ Placed(o) /\ Open(orders[o]) /\ row.driver = orders[o].driver
                       /\ row.park = orders[o].park /\ row.car = orders[o].car
    /\ row.status \in Serving => \/ ~HasActiveOrders(row.driver)
                                 \/ Placed(o) /\ orders[o].status \in Serving /\ row.driver = orders[o].driver
    /\ row.status = "created" => row.driver \in Driver /\ row.preassigned = row.driver

LEMMA OrdersStep ==
  ASSUME Held, [Next]_vars
  PROVE  UNCHANGED orders \/ OrderWritten
  <1>. USE DEF Held, Rows
  <1>1. ASSUME NEW o \in Order, NEW s \in Serving \union Closed, Placed(o),
               orders[o].status \notin Closed, orders' = [orders EXCEPT ![o].status = s],
               s \in Serving => orders[o].status \in Serving \/ ~HasActiveOrders(orders[o].driver)
        PROVE  OrderWritten
    <2>. DEFINE row == [orders[o] EXCEPT !.status = s]
    <2>1. orders[o] \in OrderRow
      BY <1>1 DEF Placed
    <2>2. /\ row \in OrderRow /\ row.driver = orders[o].driver /\ row.park = orders[o].park /\ row.car = orders[o].car
          /\ orders' = [orders EXCEPT ![o] = row] /\ row.status = s
      BY <1>1, <2>1 DEF OrderRow, Serving, Closed
    <2>3. Open(row) => Open(orders[o])
      BY <1>1, <2>2 DEF Open
    <2>4. row.status # "created"
      BY <2>2 DEF Serving, Closed
    <2>. HIDE DEF row
    <2>. QED  BY <1>1, <2>2, <2>3, <2>4 DEF OrderWritten
  <1>2. CASE Invitations
    BY <1>2 DEF Invitations, CreateBegin, Create, RespondBegin, Respond, Late
  <1>3. CASE Rides
    <2>1. ASSUME NEW o \in Order, CreatePassengerOrder(o) PROVE OrderWritten
      <3>. DEFINE row == [park |-> None, driver |-> None, preassigned |-> None, car |-> None, status |-> "searching"]
      <3>1. row \in OrderRow /\ ~Open(row) /\ row.status \notin Serving \union {"created"}
        BY DEF OrderRow, Open, Serving
      <3>. QED  BY <2>1, <3>1 DEF CreatePassengerOrder, OrderWritten
    <2>2. ASSUME NEW o \in Order, ActivateOrder(o) \/ StartTrip(o) PROVE OrderWritten
      BY <1>1, <2>2 DEF ActivateOrder, StartTrip, Serving, Closed, Booked
    <2>3. ASSUME NEW o \in Order, NEW s \in Closed, CloseOrder(o, s) PROVE OrderWritten
      BY <1>1, <2>3 DEF CloseOrder, Serving, Closed
    <2>4. ASSUME NEW p \in Proc, AssignDriver(p) PROVE UNCHANGED orders \/ OrderWritten
      <3>. DEFINE o == jobs[p].o
                  d == jobs[p].d
                  row(c) == [orders[o] EXCEPT !.driver = d, !.park = drivers[d].park, !.car = c, !.status = "driver_assigned"]
      <3>0. jobs[p] \in Job /\ jobs[p].op = "assign" /\ Placed(o)
        BY <2>4 DEF AssignDriver, Doing, Locked, Current
      <3>1. o \in Order /\ d \in Driver /\ orders[o] \in OrderRow /\ drivers[d] \in DriverRow
        <4>1. o \in Order /\ d \in Driver
          BY <3>0, JobKinds DEF Locking
        <4>. QED  BY <3>0, <4>1 DEF Placed
      <3>2. ASSUME NEW c \in UsableCars(d) 
             PROVE  row(c) \in OrderRow /\ Own(row(c)) /\ row(c).driver = d /\ row(c).status # "created"
        BY <3>1, <3>2 DEF UsableCars, OrderRow, DriverRow, Serving, Own
      <3>3. UNCHANGED orders \/ \E c \in UsableCars(d) : orders' = [orders EXCEPT ![o] = row(c)]
        BY <2>4 DEF AssignDriver
      <3>. HIDE DEF row
      <3>4. UNCHANGED orders \/ ~HasActiveOrders(d)
        BY <2>4 DEF AssignDriver, Assignable
      <3>5. ASSUME NEW c \in UsableCars(d), ~HasActiveOrders(d), orders' = [orders EXCEPT ![o] = row(c)] PROVE OrderWritten
        <4>1. row(c) \in OrderRow /\ Own(row(c)) /\ row(c).driver = d /\ row(c).status # "created"
          BY <3>2
        <4>. QED  BY <3>1, <3>5, <4>1 DEF OrderWritten
      <3>. QED  BY <3>3, <3>4, <3>5
    <2>5. ASSUME NEW p \in Proc, CreateScheduledOrder(p) PROVE UNCHANGED orders \/ OrderWritten
      <3>. DEFINE row == [park |-> jobs[p].park, driver |-> jobs[p].d, preassigned |-> jobs[p].d,
                          car |-> None, status |-> "created"]
      <3>1. /\ jobs[p].o \in Order /\ row \in OrderRow /\ Own(row)
            /\ row.status \notin Serving /\ row.driver \in Driver /\ row.preassigned = row.driver
        BY <2>5, JobKinds DEF CreateScheduledOrder, Doing, Locked, Locking, Current, OrderRow, Own, Serving
      <3>2. UNCHANGED orders \/ orders' = [orders EXCEPT ![jobs[p].o] = row]
        BY <2>5 DEF CreateScheduledOrder
      <3>. HIDE DEF row
      <3>. QED  BY <3>1, <3>2 DEF OrderWritten
    <2>. QED
      BY <1>3, <2>1, <2>2, <2>3, <2>4, <2>5 DEF Rides, AssignBegin, BookBegin, MarkDriverBusy
  <1>4. CASE Shifts
    BY <1>4 DEF Shifts, MarkOnline, OfflineBegin, MarkOffline
  <1>5. CASE Parks
    BY <1>5
    DEF Parks, BlockDriver, UnblockDriver, VerifyDriver, ArchiveDriver, SetDriver, DetachCar, AttachBegin,
        AssignCarToDriver, SetParkActive
  <1>. QED  BY <1>2, <1>3, <1>4, <1>5 DEF Next, vars

LEMMA OrdersRows ==
  ASSUME Held, [Next]_vars
  PROVE  /\ orders' \in [Order -> OrderRow \union {None}]
         /\ \A o \in Order : Placed(o) => orders'[o] # None
         /\ Booked'
  <1>1. CASE OrderWritten
    <2>1. PICK o \in Order, row \in OrderRow :
            /\ orders' = [orders EXCEPT ![o] = row]
            /\ row.status = "created" => row.driver \in Driver /\ row.preassigned = row.driver
      BY <1>1 DEF OrderWritten
    <2>. QED  BY <2>1, NoneIsNothing DEF Held, Rows, Booked, Placed
  <1>2. CASE UNCHANGED orders
    BY <1>2 DEF Held, Rows, Booked, Placed
  <1>. QED  BY <1>1, <1>2, OrdersStep

-----------------------------------------------------------------------------
(* The invariant.                                                          *)

\* What a job reads when it begins; other jobs go on, end, or leave their row.
Begun(p) ==
  /\ UNCHANGED <<drivers, orders, invites>>
  /\ \/ \E d \in Driver, t \in Park :
          jobs'[p] = [op |-> "create", d |-> d, to |-> t, from |-> drivers[d].park]
     \/ \E i \in Invite, s \in InviteStatus :
          /\ Sent(i)
          /\ jobs'[p] = [op |-> "respond", d |-> invites[i].driver, i |-> i, status |-> s,
                         driver |-> drivers[invites[i].driver]]
     \/ \E d \in Driver, o \in Order : Placed(o) /\ jobs'[p] = [op |-> "assign", d |-> d, o |-> o]
     \/ \E d \in Driver, o \in Order : jobs'[p] = [op |-> "book", d |-> d, o |-> o, park |-> drivers[d].park]

LEMMA JobsStep ==
  ASSUME Held, [Next]_vars, NEW p \in Proc
  PROVE  jobs'[p] = jobs[p] \/ Begun(p) \/ jobs'[p].op \notin Locking
  <1>. USE DEF Held, Locked, Locking
  <1>. DEFINE Goal == jobs'[p] = jobs[p] \/ Begun(p) \/ jobs'[p].op \notin Locking
              Others(q) == \A r \in Proc : r # q => jobs'[r] = jobs[r]
  <1>1. ASSUME NEW q \in Proc, Others(q), Begun(q) \/ jobs'[q].op \notin Locking PROVE Goal
    BY <1>1
  <1>2. ASSUME NEW q \in Proc, Others(q), jobs'[q] = Idle PROVE Goal
    BY <1>2 DEF Idle
  <1>3. ASSUME UNCHANGED jobs PROVE Goal
    BY <1>3
  <1>4. ASSUME NEW q \in Proc, NEW job, Begin(q, job) PROVE jobs'[q] = job /\ Others(q)
    BY <1>4 DEF Begin
  <1>5. ASSUME NEW q \in Proc, jobs' = [jobs EXCEPT ![q] = Idle] PROVE Goal
    BY <1>2, <1>5
  <1>. HIDE DEF Goal, Others
  <1>6. ASSUME Invitations PROVE Goal
    <2>1. ASSUME NEW q \in Proc, NEW d \in Driver, NEW t \in Park, CreateBegin(q, d, t) PROVE Goal
      <3>1. jobs'[q] = [op |-> "create", d |-> d, to |-> t, from |-> drivers[d].park] /\ Others(q)
        BY <1>4, <2>1 DEF CreateBegin
      <3>2. Begun(q)
        BY <2>1, <3>1 DEF CreateBegin, Begun
      <3>. QED  BY <1>1, <3>1, <3>2
    <2>2. ASSUME NEW q \in Proc, NEW i \in Invite, NEW s \in InviteStatus, RespondBegin(q, i, s) PROVE Goal
      <3>1. /\ jobs'[q] = [op |-> "respond", d |-> invites[i].driver, i |-> i, status |-> s,
                            driver |-> drivers[invites[i].driver]]
            /\ Others(q)
        BY <1>4, <2>2 DEF RespondBegin
      <3>2. Begun(q)
        BY <2>2, <3>1 DEF RespondBegin, Begun
      <3>. QED  BY <1>1, <3>1, <3>2
    <2>. QED  BY <1>3, <1>5, <1>6, <2>1, <2>2 DEF Invitations, Create, Respond, Commit, Late
  <1>7. ASSUME Rides PROVE Goal
    <2>1. ASSUME NEW q \in Proc, NEW o \in Order, NEW d \in Driver, AssignBegin(q, o, d) PROVE Goal
      <3>1. jobs'[q] = [op |-> "assign", d |-> d, o |-> o] /\ Others(q)
        BY <1>4, <2>1 DEF AssignBegin
      <3>2. Begun(q)
        BY <2>1, <3>1 DEF AssignBegin, Begun
      <3>. QED  BY <1>1, <3>1, <3>2
    <2>2. ASSUME NEW q \in Proc, NEW o \in Order, NEW d \in Driver, BookBegin(q, o, d) PROVE Goal
      <3>1. jobs'[q] = [op |-> "book", d |-> d, o |-> o, park |-> drivers[d].park] /\ Others(q)
        BY <1>4, <2>2 DEF BookBegin
      <3>2. Begun(q)
        BY <2>2, <3>1 DEF BookBegin, Begun
      <3>. QED  BY <1>1, <3>1, <3>2
    <2>3. ASSUME NEW q \in Proc, AssignDriver(q) PROVE Goal
      <3>1. CASE jobs' = [jobs EXCEPT ![q] = [op |-> "busy", d |-> jobs[q].d]]
        <4>1. jobs'[q].op = "busy" /\ Others(q)
          BY <3>1 DEF Others
        <4>. QED  BY <1>1, <4>1
      <3>. QED  BY <1>5, <2>3, <3>1 DEF AssignDriver, Commit
    <2>4. ASSUME NEW q \in Proc, MarkDriverBusy(q) \/ CreateScheduledOrder(q) PROVE Goal
      BY <1>5, <2>4 DEF MarkDriverBusy, CreateScheduledOrder, Commit
    <2>. QED
      BY <1>3, <1>7, <2>1, <2>2, <2>3, <2>4 DEF Rides, CreatePassengerOrder, ActivateOrder, StartTrip, CloseOrder
  <1>8. ASSUME Shifts PROVE Goal
    <2>1. ASSUME NEW q \in Proc, NEW d \in Driver, OfflineBegin(q, d) PROVE Goal
      <3>1. jobs'[q] = [op |-> "offline", d |-> d] /\ Others(q)
        BY <1>4, <2>1 DEF OfflineBegin
      <3>. QED  BY <1>1, <3>1
    <2>. QED  BY <1>3, <1>5, <1>8, <2>1 DEF Shifts, MarkOnline, MarkOffline
  <1>9. ASSUME Parks PROVE Goal
    <2>1. ASSUME NEW q \in Proc, NEW c \in Car, NEW d \in Driver, AttachBegin(q, c, d) PROVE Goal
      <3>1. jobs'[q] = [op |-> "attach", d |-> d, c |-> c] /\ Others(q)
        BY <1>4, <2>1 DEF AttachBegin
      <3>. QED  BY <1>1, <3>1
    <2>2. ASSUME NEW q \in Proc, AssignCarToDriver(q) PROVE Goal
      BY <1>5, <2>2 DEF AssignCarToDriver
    <2>. QED
      BY <1>3, <1>9, <2>1, <2>2
      DEF Parks, BlockDriver, UnblockDriver, VerifyDriver, ArchiveDriver, SetDriver, DetachCar, SetParkActive
  <1>. QED  BY <1>3, <1>6, <1>7, <1>8, <1>9 DEF Next, vars, Goal

LEMMA CurrentStep ==
  ASSUME Held, [Next]_vars
  PROVE  Current'
  <1>. SUFFICES ASSUME NEW p \in Proc
                PROVE  /\ jobs'[p].op = "create" => jobs'[p].from = drivers'[jobs'[p].d].park
                       /\ jobs'[p].op = "respond" => /\ invites'[jobs'[p].i] # None
                                                     /\ invites'[jobs'[p].i].driver = jobs'[p].d
                                                     /\ jobs'[p].driver = drivers'[jobs'[p].d]
                       /\ jobs'[p].op = "assign" => orders'[jobs'[p].o] # None
                       /\ jobs'[p].op = "book" => jobs'[p].park = drivers'[jobs'[p].d].park
    BY DEF Current, Doing, Sent, Placed
  <1>1. CASE jobs'[p].op \notin Locking
    BY <1>1 DEF Locking
  <1>2. CASE Begun(p)
    <2>. UNCHANGED <<drivers, orders, invites>>
      BY <1>2 DEF Begun
    <2>1. ASSUME NEW d \in Driver, NEW t \in Park,
                 jobs'[p] = [op |-> "create", d |-> d, to |-> t, from |-> drivers[d].park]
          PROVE  jobs'[p].op = "create" /\ jobs'[p].from = drivers'[jobs'[p].d].park
      BY <2>1
    <2>2. ASSUME NEW i \in Invite, NEW s \in InviteStatus, Sent(i),
                 jobs'[p] = [op |-> "respond", d |-> invites[i].driver, i |-> i, status |-> s,
                             driver |-> drivers[invites[i].driver]]
          PROVE  /\ jobs'[p].op = "respond" /\ invites'[jobs'[p].i] # None
                 /\ invites'[jobs'[p].i].driver = jobs'[p].d
                 /\ jobs'[p].driver = drivers'[jobs'[p].d]
      BY <2>2 DEF Sent
    <2>3. ASSUME NEW d \in Driver, NEW o \in Order, Placed(o), jobs'[p] = [op |-> "assign", d |-> d, o |-> o]
          PROVE  jobs'[p].op = "assign" /\ orders'[jobs'[p].o] # None
      BY <2>3 DEF Placed
    <2>4. ASSUME NEW d \in Driver, NEW o \in Order,
                 jobs'[p] = [op |-> "book", d |-> d, o |-> o, park |-> drivers[d].park]
          PROVE  jobs'[p].op = "book" /\ jobs'[p].park = drivers'[jobs'[p].d].park
      BY <2>4
    <2>. QED  BY <1>2, <2>1, <2>2, <2>3, <2>4 DEF Begun
  <1>3. CASE jobs'[p] = jobs[p] /\ jobs[p].op \in Locking
    <2>1. drivers'[jobs[p].d] = drivers[jobs[p].d]
      BY <1>3, HeldRowKept
    <2>2. jobs[p] \in Job
      BY DEF Held, Locked
    <2>3. jobs[p].op = "respond" => /\ invites'[jobs[p].i] # None
                                    /\ invites'[jobs[p].i].driver = jobs[p].d
      <3>1. CASE jobs[p].op = "respond"
        <4>1. jobs[p].i \in Invite /\ Sent(jobs[p].i) /\ invites[jobs[p].i].driver = jobs[p].d
          BY <2>2, <3>1, JobKinds DEF Held, Current, Doing
        <4>. QED  BY <4>1, InvitesStep, NoneIsNothing
      <3>. QED  BY <3>1
    <2>4. jobs[p].op = "assign" => orders'[jobs[p].o] # None
      BY <2>2, JobKinds, OrdersRows DEF Held, Current, Doing
    <2>. QED  BY <1>3, <2>1, <2>3, <2>4 DEF Held, Current, Doing
  <1>. QED  BY <1>1, <1>2, <1>3, JobsStep

\* Locks and what is read under them, at every moment.
THEOREM LocksHeld == Spec => []Held
  <1>1. Held /\ [Next]_vars => Held'
    <2>1. ASSUME Held, [Next]_vars PROVE Locked' /\ Current' /\ Booked'
      BY <2>1, LockedStep, CurrentStep, OrdersRows
    <2>2. ASSUME Held, [Next]_vars PROVE Rows'
      BY <2>2, DriversRows, InvitesRows, OrdersRows, CarsRows DEF Rows
    <2>. QED  BY <2>1, <2>2 DEF Held
  <1>. QED  BY HeldInit, <1>1, PTL DEF Spec

-----------------------------------------------------------------------------
(* Invitations and orders.                                                 *)

\* An invitation is answered once, whoever else answers, cancels or invites.
THEOREM AnswersFinal == Spec => AnsweredOnce
  <1>1. Held /\ [Next]_vars
        => [\A i \in Invite : Sent(i) /\ invites[i].status # "pending" => invites'[i].status = invites[i].status]_vars
    BY InvitesStep
  <1>. QED  BY <1>1, LocksHeld, PTL DEF Spec, AnsweredOnce

\* An order that is not closed is served by a driver of its park, in its car.
THEOREM DriversServeOwnPark == Spec => []ServesOwnPark
  <1>1. Init => ServesOwnPark
    BY DEF Init, ServesOwnPark, Placed
  <1>2. ASSUME Held, ServesOwnPark, [Next]_vars PROVE ServesOwnPark'
    <2>. USE <1>2
    <2>. SUFFICES ASSUME NEW o \in Order, orders'[o] # None, Open(orders'[o])
                  PROVE  /\ drivers'[orders'[o].driver].park = orders'[o].park
                         /\ orders'[o].car # None => CarPark[orders'[o].car] = orders'[o].park
      BY DEF ServesOwnPark, Placed, Open
    <2>1. ASSUME Placed(o), Open(orders[o]) PROVE Own(orders[o]) /\ orders[o].driver \in Driver
      BY <2>1, IsRow DEF ServesOwnPark, Own, Open
    <2>2. ASSUME NEW p \in Proc, Moved(p)
          PROVE  /\ drivers'[orders'[o].driver].park = orders'[o].park
                 /\ orders'[o].car # None => CarPark[orders'[o].car] = orders'[o].park
      <3>1. Placed(o) /\ Open(orders[o]) /\ orders'[o] = orders[o]
        BY <2>2 DEF Moved, Placed
      <3>2. orders[o].driver # invites[jobs[p].i].driver
        BY <2>2, <3>1 DEF Moved, EnsureTransfer, HasOrders, Open
      <3>3. drivers'[orders[o].driver] = drivers[orders[o].driver]
        BY <2>1, <2>2, <3>1, <3>2 DEF Moved, Transfer, Held, Rows
      <3>. QED  BY <2>1, <3>1, <3>3 DEF Own
    <2>3. ASSUME \A d \in Driver : drivers'[d].park = drivers[d].park
          PROVE  /\ drivers'[orders'[o].driver].park = orders'[o].park
                 /\ orders'[o].car # None => CarPark[orders'[o].car] = orders'[o].park
      <3>1. orders'[o] \in OrderRow /\ orders'[o].driver \in Driver
        <4>1. orders'[o] \in OrderRow
          BY OrdersRows
        <4>. QED  BY <4>1 DEF Open, OrderRow
      <3>2. Own(orders'[o])
        <4>1. CASE orders'[o] = orders[o]
          BY <2>1, <4>1 DEF Placed
        <4>2. CASE OrderWritten /\ orders'[o] # orders[o]
          <5>1. PICK row \in OrderRow :
                  /\ orders'[o] = row
                  /\ Open(row) => \/ Own(row)
                                  \/ /\ Placed(o) /\ Open(orders[o]) /\ row.driver = orders[o].driver
                                     /\ row.park = orders[o].park /\ row.car = orders[o].car
            BY <4>2 DEF OrderWritten, Held, Rows
          <5>. QED  BY <2>1, <5>1 DEF Own
        <4>. QED  BY <4>1, <4>2, OrdersStep DEF Held, Rows
      <3>. QED  BY <2>3, <3>1, <3>2 DEF Own
    <2>4. \/ \A d \in Driver : drivers'[d].park = drivers[d].park
          \/ \E p \in Proc : Moved(p)
      BY DriversStep, ParkKept
    <2>. QED  BY <2>2, <2>3, <2>4
  <1>. QED  BY <1>1, <1>2, LocksHeld, PTL DEF Spec

\* A pending invitation comes from the park its driver is in.
THEOREM InvitesCurrent == Spec => []InvitesAreCurrent
  <1>1. Init => InvitesAreCurrent
    BY DEF Init, InvitesAreCurrent, Sent
  <1>2. ASSUME Held, InvitesAreCurrent, [Next]_vars PROVE InvitesAreCurrent'
    <2>. USE <1>2
    <2>. SUFFICES ASSUME NEW i \in Invite, invites'[i] # None, invites'[i].status = "pending"
                  PROVE  /\ invites'[i].from = drivers'[invites'[i].driver].park
                         /\ invites'[i].to # invites'[i].from
      BY DEF InvitesAreCurrent, Sent
    <2>1. ASSUME Sent(i)
          PROVE  /\ invites'[i].driver = invites[i].driver /\ invites'[i].from = invites[i].from
                 /\ invites'[i].to = invites[i].to
                 /\ invites[i].from = drivers[invites[i].driver].park /\ invites[i].to # invites[i].from
                 /\ invites[i].driver \in Driver /\ invites[i].status = "pending"
      <3>1. invites[i].status = "pending"
        BY <2>1, InvitesStep
      <3>. QED  BY <2>1, <3>1, InvitesStep, IsRow DEF InvitesAreCurrent
    <2>2. ASSUME NEW p \in Proc, Moved(p)
          PROVE  /\ invites'[i].from = drivers'[invites'[i].driver].park
                 /\ invites'[i].to # invites'[i].from
      <3>. DEFINE j == jobs[p].i
                  closed == Close(j, "accepted")
      <3>1. j \in Invite /\ Sent(j) /\ invites[j] \in InviteRow
        <4>1. j \in Invite /\ Sent(j)
          BY <2>2, JobKinds DEF Moved, Doing, Held, Locked, Current
        <4>. QED  BY <4>1, IsRow
      <3>2. closed[j].status = "accepted" /\ closed[j].driver = invites[j].driver
        <4>1. closed[j] = [invites[j] EXCEPT !.status = "accepted"]
          BY <3>1 DEF Close, Held, Rows
        <4>. QED  BY <3>1, <4>1 DEF InviteRow
      <3>3. invites' = CancelOtherPending(closed, j)
        BY <2>2 DEF Moved, Transfer
      <3>4. i # j
        <4>1. invites'[j] = closed[j]
          BY <3>1, <3>3 DEF CancelOtherPending
        <4>. QED  BY <3>2, <4>1
      <3>5. (Sent(i) /\ invites'[i] = closed[i]) \/ i \in PendingOf(invites[j].driver)
        BY <3>1, <3>2, <3>3, <3>4 DEF CancelOtherPending, Close, Sent, Held, Rows
      <3>6. Sent(i)
        BY <3>5 DEF PendingOf
      <3>7. invites[i].driver # invites[j].driver
        <4>1. CASE invites[i].driver = invites[j].driver
          <5>1. i \in PendingOf(closed[j].driver) \ {j}
            BY <2>1, <3>2, <3>4, <3>6, <4>1 DEF PendingOf
          <5>2. invites'[i] = [closed[i] EXCEPT !.status = IF closed[i].late THEN "expired" ELSE "cancelled"]
            BY <3>3, <5>1 DEF CancelOtherPending
          <5>3. closed[i] = invites[i] /\ invites[i] \in InviteRow
            BY <3>1, <3>4, <3>6, IsRow DEF Close, Held, Rows
          <5>4. invites'[i].status \in {"expired", "cancelled"}
            BY <5>2, <5>3 DEF InviteRow
          <5>. QED  BY <5>4
        <4>. QED  BY <4>1
      <3>8. drivers'[invites[i].driver] = drivers[invites[i].driver]
        BY <2>1, <2>2, <3>6, <3>7 DEF Moved, Transfer, Held, Rows
      <3>. QED  BY <2>1, <3>6, <3>8
    <2>3. ASSUME \A d \in Driver : drivers'[d].park = drivers[d].park, Sent(i)
          PROVE  /\ invites'[i].from = drivers'[invites'[i].driver].park
                 /\ invites'[i].to # invites'[i].from
      BY <2>1, <2>3
    <2>4. ASSUME ~Sent(i), UNCHANGED drivers PROVE
                 /\ invites'[i].from = drivers'[invites'[i].driver].park
                 /\ invites'[i].to # invites'[i].from
      <3>1. PICK p \in Proc : Create(p, i)
        BY <2>4, NewInvite
      <3>2. /\ invites'[i] = [driver |-> jobs[p].d, from |-> jobs[p].from, to |-> jobs[p].to,
                              status |-> "pending", late |-> FALSE]
            /\ jobs[p].from # jobs[p].to
        BY <2>4, <3>1 DEF Create, Expire, Sent
      <3>3. jobs[p].from = drivers[jobs[p].d].park
        BY <3>1 DEF Create, Held, Current
      <3>. QED  BY <2>4, <3>2, <3>3
    <2>5. ASSUME ~Sent(i) PROVE UNCHANGED drivers
      BY <2>5, NewInvite DEF Create
    <2>6. \/ \A d \in Driver : drivers'[d].park = drivers[d].park
          \/ \E p \in Proc : Moved(p)
      BY DriversStep, ParkKept
    <2>. QED  BY <2>2, <2>3, <2>4, <2>5, <2>6
  <1>. QED  BY <1>1, <1>2, LocksHeld, PTL DEF Spec

-----------------------------------------------------------------------------
(* One order and one invitation at a time.                                 *)

\* A driver serves one order; a park's invitation to a driver is pending once.
Single ==
  /\ \A d \in Driver, o1, o2 \in Order :
       /\ Placed(o1) /\ orders[o1].driver = d /\ orders[o1].status \in Serving
       /\ Placed(o2) /\ orders[o2].driver = d /\ orders[o2].status \in Serving
       => o1 = o2
  /\ \A d \in Driver : \A i, j \in PendingOf(d) : invites[i].to = invites[j].to => i = j

LEMMA OneOrderStep ==
  ASSUME Held, Single, [Next]_vars, NEW d \in Driver, NEW o1 \in Order, NEW o2 \in Order,
         orders'[o1] # None, orders'[o1].driver = d, orders'[o1].status \in Serving,
         orders'[o2] # None, orders'[o2].driver = d, orders'[o2].status \in Serving
  PROVE  o1 = o2
  <1>1. CASE UNCHANGED orders
    BY <1>1 DEF Single, Placed
  <1>2. CASE OrderWritten
    <2>1. PICK o \in Order, row \in OrderRow :
            /\ orders' = [orders EXCEPT ![o] = row]
            /\ row.status \in Serving => \/ ~HasActiveOrders(row.driver)
                                         \/ Placed(o) /\ orders[o].status \in Serving /\ row.driver = orders[o].driver
      BY <1>2 DEF OrderWritten
    <2>2. orders \in [Order -> OrderRow \union {None}]
      BY DEF Held, Rows
    <2>3. orders'[o] = row /\ \A k \in Order : k # o => orders'[k] = orders[k]
      BY <2>1, <2>2
    <2>4. ASSUME NEW k \in Order, k # o, orders'[k] # None, orders'[k].driver = d, orders'[k].status \in Serving,
                 orders'[o].driver = d, orders'[o].status \in Serving
          PROVE  FALSE
      <3>1. Placed(k) /\ orders[k].driver = d /\ orders[k].status \in Serving
        BY <2>3, <2>4 DEF Placed
      <3>2. HasActiveOrders(d)
        BY <3>1 DEF HasActiveOrders
      <3>3. Placed(o) /\ orders[o].status \in Serving /\ orders[o].driver = d
        BY <2>1, <2>3, <2>4, <3>2
      <3>. QED  BY <2>4, <3>1, <3>3 DEF Single
    <2>5. CASE o1 # o /\ o2 # o
      BY <2>3, <2>5 DEF Single, Placed
    <2>. QED  BY <2>4, <2>5
  <1>. QED  BY <1>1, <1>2, OrdersStep

LEMMA OneInviteStep ==
  ASSUME Held, Single, [Next]_vars, NEW i \in Invite, NEW j \in Invite,
         invites'[i] # None, invites'[i].status = "pending",
         invites'[j] # None, invites'[j].status = "pending",
         invites'[i].driver = invites'[j].driver, invites'[i].to = invites'[j].to
  PROVE  i = j
  <1>1. ASSUME NEW k \in Invite, Sent(k), invites'[k].status = "pending"
        PROVE  /\ invites'[k].driver = invites[k].driver /\ invites'[k].to = invites[k].to
               /\ invites[k].driver \in Driver /\ k \in PendingOf(invites[k].driver)
    BY <1>1, InvitesStep, IsRow DEF PendingOf
  <1>2. CASE Sent(i) /\ Sent(j)
    BY <1>1, <1>2 DEF Single
  <1>3. CASE ~Sent(i) /\ ~Sent(j)
    BY <1>3, NewInvite
  <1>4. ASSUME NEW k \in Invite, NEW l \in Invite, ~Sent(k), Sent(l),
               invites'[k] # None, invites'[k].status = "pending", invites'[l].status = "pending",
               invites'[k].driver = invites'[l].driver, invites'[k].to = invites'[l].to
        PROVE  FALSE
    <2>1. PICK p \in Proc : Create(p, k)
      BY <1>4, NewInvite
    <2>2. invites[k] = None /\ k # l
      BY <1>4 DEF Sent
    <2>3. /\ ~(\E n \in PendingOf(jobs[p].d) : ~invites[n].late /\ invites[n].to = jobs[p].to)
          /\ invites' = [Expire(invites, jobs[p].d) EXCEPT ![k] =
                           [driver |-> jobs[p].d, from |-> jobs[p].from, to |-> jobs[p].to,
                            status |-> "pending", late |-> FALSE]]
      <3>1. Expire(invites, jobs[p].d)[k] = None
        BY <2>2 DEF Expire, PendingOf, Sent
      <3>. QED  BY <1>4, <2>1, <2>2, <3>1 DEF Create
    <2>4. invites'[k].driver = jobs[p].d /\ invites'[k].to = jobs[p].to
      BY <2>3 DEF Expire
    <2>5. l \in PendingOf(jobs[p].d) /\ invites[l].to = jobs[p].to
      BY <1>1, <1>4, <2>4
    <2>6. invites'[l] = [invites[l] EXCEPT !.status = "expired"]
      BY <2>2, <2>3, <2>5 DEF Expire
    <2>7. invites[l] \in InviteRow
      BY <1>4, IsRow
    <2>. QED  BY <1>4, <2>6, <2>7 DEF InviteRow
  <1>. QED  BY <1>2, <1>3, <1>4

\* Rows have the columns' values, drivers one order and one invitation of a park,
\* and a row is held by one transaction.
THEOREM FleetTypeCorrect == Spec => []FleetTypeOK
  <1>1. Init => Single
    BY DEF Init, Single, Placed, PendingOf, Sent
  <1>2. Held /\ Single /\ [Next]_vars => Single'
    BY OneOrderStep, OneInviteStep DEF Single, Placed, PendingOf, Sent
  <1>3. ASSUME Held, Single, NEW d \in Driver
        PROVE  Cardinality({o \in Order : Placed(o) /\ orders[o].driver = d /\ orders[o].status \in Serving}) <= 1
    <2>. DEFINE S == {o \in Order : Placed(o) /\ orders[o].driver = d /\ orders[o].status \in Serving}
    <2>1. \A x, y \in S : x = y
      BY <1>3 DEF Single
    <2>2. S = {} \/ \E x \in S : S = {x}
      BY <2>1
    <2>. HIDE DEF S
    <2>3. Cardinality(S) <= 1
      <3>1. CASE S = {}
        <4>1. Cardinality(S) = 0
          BY <3>1, FS_EmptySet
        <4>. QED  BY <4>1
      <3>2. ASSUME NEW x \in S, S = {x} PROVE Cardinality(S) <= 1
        <4>1. Cardinality(S) = 1
          BY <3>2, FS_Singleton
        <4>. QED  BY <4>1
      <3>. QED  BY <2>2, <3>1, <3>2
    <2>. QED  BY <2>3 DEF S
  <1>4. Held /\ Single => FleetTypeOK
    BY <1>3 DEF FleetTypeOK, Held, Rows, Locked, Locking, Single
  <1>. QED  BY <1>1, <1>2, <1>4, LocksHeld, PTL DEF Spec

-----------------------------------------------------------------------------
(* The history of drivers.                                                 *)

HistoryRow == [park: Park, left: BOOLEAN, invite: Invite \union {None}]

\* rows are the history of driver d, who is in the park, among the invitations is.
Chain(d, rows, park, is) ==
  /\ rows \in Seq(HistoryRow)
  /\ \A n \in 1 .. Len(rows) : rows[n].left <=> n # Len(rows)
  /\ IF Len(rows) = 0 THEN park = None ELSE park = rows[Len(rows)].park
  /\ \A n \in 1 .. Len(rows) : rows[n].invite # None =>
       /\ is[rows[n].invite] # None /\ is[rows[n].invite].status = "accepted"
       /\ is[rows[n].invite].driver = d /\ is[rows[n].invite].to = rows[n].park
       /\ is[rows[n].invite].from = (IF n = 1 THEN None ELSE rows[n - 1].park)
  /\ \A i \in Invite : is[i] # None /\ is[i].driver = d /\ is[i].status = "accepted" =>
       \E n \in 1 .. Len(rows) : rows[n].invite = i
  /\ \A m, n \in 1 .. Len(rows) : rows[m].invite # None /\ rows[m].invite = rows[n].invite => m = n

Chained ==
  /\ history = [d \in Driver |-> history[d]]
  /\ \A d \in Driver : Chain(d, history[d], drivers[d].park, invites)

\* What a step keeps of the invitations that are there.
Answered(is, js) ==
  \A i \in Invite : is[i] # None =>
    /\ js[i] # None
    /\ js[i].driver = is[i].driver /\ js[i].from = is[i].from /\ js[i].to = is[i].to
    /\ is[i].status # "pending" => js[i].status = is[i].status

\* Nothing that is accepted afterwards was not before, but i.
OnlyAccepts(is, js, i) ==
  \A j \in Invite : j # i /\ js[j] # None /\ js[j].status = "accepted" =>
    is[j] # None /\ is[j].status = "accepted" /\ is[j].driver = js[j].driver

\* A chain stays one when no invitation of its driver is accepted.
LEMMA ChainKept ==
  ASSUME NEW d, NEW rows, NEW park, NEW is, NEW js, Chain(d, rows, park, is), Answered(is, js),
         \A j \in Invite : js[j] # None /\ js[j].status = "accepted" /\ js[j].driver = d =>
           is[j] # None /\ is[j].status = "accepted" /\ is[j].driver = d
  PROVE  Chain(d, rows, park, js)
  <1>1. \A n \in 1 .. Len(rows) : rows[n].invite \in Invite \union {None}
    <2>1. rows \in Seq(HistoryRow)
      BY DEF Chain
    <2>2. \A n \in 1 .. Len(rows) : rows[n] \in HistoryRow
      BY <2>1
    <2>. QED  BY <2>2 DEF HistoryRow
  <1>. QED  BY <1>1 DEF Chain, Answered

\* The acceptance of an invitation from the last park adds one row.
LEMMA ChainGrown ==
  ASSUME NEW d, NEW rows, NEW park, NEW is, NEW js, NEW i \in Invite,
         Chain(d, rows, park, is), Answered(is, js), OnlyAccepts(is, js, i),
         is[i] # None, is[i].status = "pending", is[i].driver = d, is[i].from = park, is[i].to \in Park,
         js[i].status = "accepted"
  PROVE  Chain(d, Append(Leave(rows), [park |-> is[i].to, left |-> FALSE, invite |-> i]), is[i].to, js)
  <1>. DEFINE new == [park |-> is[i].to, left |-> FALSE, invite |-> i]
              gone == Leave(rows)
              all == Append(gone, new)
  <1>1. rows \in Seq(HistoryRow) /\ Len(rows) \in Nat /\ DOMAIN rows = 1 .. Len(rows)
    BY DEF Chain
  <1>2. \A n \in 1 .. Len(rows) : rows[n] \in HistoryRow
    BY <1>1
  <1>3. /\ gone \in Seq(HistoryRow) /\ Len(gone) = Len(rows)
        /\ \A n \in 1 .. Len(rows) : /\ gone[n].left = TRUE /\ gone[n].park = rows[n].park
                                     /\ gone[n].invite = rows[n].invite
    <2>1. gone = [n \in 1 .. Len(rows) |-> [rows[n] EXCEPT !.left = TRUE]]
      BY <1>1 DEF Leave
    <2>2. \A n \in 1 .. Len(rows) : [rows[n] EXCEPT !.left = TRUE] \in HistoryRow
      BY <1>2 DEF HistoryRow
    <2>. HIDE DEF gone
    <2>3. gone \in Seq(HistoryRow) /\ Len(gone) = Len(rows)
      BY <1>1, <2>1, <2>2
    <2>. QED  BY <1>2, <2>1, <2>3 DEF HistoryRow
  <1>4. new \in HistoryRow /\ new.park = is[i].to /\ new.left = FALSE /\ new.invite = i
    BY DEF HistoryRow
  <1>. HIDE DEF gone, new
  <1>5. /\ all \in Seq(HistoryRow) /\ Len(all) = Len(rows) + 1 /\ all[Len(rows) + 1] = new
        /\ \A n \in 1 .. Len(rows) : all[n] = gone[n]
    BY <1>1, <1>3, <1>4
  <1>6. \A n \in 1 .. Len(all) : n = Len(rows) + 1 \/ n \in 1 .. Len(rows)
    BY <1>1, <1>5
  <1>. HIDE DEF all
  <1>7. \A n \in 1 .. Len(rows) : rows[n].invite # i
    BY NoneIsNothing DEF Chain
  <1>8. i # None /\ js[i] # None /\ js[i].driver = d /\ js[i].to = is[i].to /\ js[i].from = park
    BY NoneIsNothing DEF Answered
  <1>9. \A n \in 1 .. Len(all) : all[n].left <=> n # Len(all)
    BY <1>1, <1>3, <1>4, <1>5, <1>6
  <1>10. ASSUME NEW n \in 1 .. Len(all), all[n].invite # None
         PROVE  /\ js[all[n].invite] # None /\ js[all[n].invite].status = "accepted"
                /\ js[all[n].invite].driver = d /\ js[all[n].invite].to = all[n].park
                /\ js[all[n].invite].from = (IF n = 1 THEN None ELSE all[n - 1].park)
    <2>1. CASE n = Len(rows) + 1
      <3>1. CASE Len(rows) = 0
        BY <1>4, <1>5, <1>8, <2>1, <3>1 DEF Chain
      <3>2. CASE Len(rows) # 0
        <4>1. Len(rows) \in 1 .. Len(rows) /\ n # 1 /\ n - 1 = Len(rows)
          BY <1>1, <2>1, <3>2
        <4>2. all[n - 1].park = rows[Len(rows)].park /\ park = rows[Len(rows)].park
          BY <1>3, <1>5, <3>2, <4>1 DEF Chain
        <4>. QED  BY <1>4, <1>5, <1>8, <2>1, <4>1, <4>2
      <3>. QED  BY <3>1, <3>2
    <2>2. CASE n \in 1 .. Len(rows)
      <3>1. all[n].invite = rows[n].invite /\ all[n].park = rows[n].park /\ rows[n].invite \in Invite
        BY <1>2, <1>3, <1>5, <1>10, <2>2 DEF HistoryRow
      <3>2. n = 1 \/ (n - 1 \in 1 .. Len(rows) /\ all[n - 1].park = rows[n - 1].park)
        BY <1>1, <1>3, <1>5, <2>2
      <3>3. /\ is[rows[n].invite] # None /\ is[rows[n].invite].status = "accepted"
            /\ is[rows[n].invite].driver = d /\ is[rows[n].invite].to = rows[n].park
            /\ is[rows[n].invite].from = (IF n = 1 THEN None ELSE rows[n - 1].park)
        BY <1>10, <2>2, <3>1 DEF Chain
      <3>. QED  BY <3>1, <3>2, <3>3 DEF Answered
    <2>. QED  BY <1>6, <2>1, <2>2
  <1>11. ASSUME NEW j \in Invite, js[j] # None, js[j].driver = d, js[j].status = "accepted"
         PROVE  \E n \in 1 .. Len(all) : all[n].invite = j
    <2>1. CASE j = i
      BY <1>1, <1>4, <1>5, <2>1
    <2>2. CASE j # i
      <3>1. PICK n \in 1 .. Len(rows) : rows[n].invite = j
        BY <1>11, <2>2 DEF OnlyAccepts, Chain
      <3>. QED  BY <1>1, <1>3, <1>5, <3>1
    <2>. QED  BY <2>1, <2>2
  <1>12. ASSUME NEW m \in 1 .. Len(all), NEW n \in 1 .. Len(all), all[m].invite # None, all[m].invite = all[n].invite
         PROVE  m = n
    <2>1. \A k \in 1 .. Len(rows) : all[k].invite = rows[k].invite
      BY <1>3, <1>5
    <2>2. all[Len(rows) + 1].invite = i
      BY <1>4, <1>5
    <2>. QED  BY <1>6, <1>7, <1>12, <2>1, <2>2 DEF Chain
  <1>13. Len(all) # 0 /\ all[Len(all)].park = is[i].to
    BY <1>1, <1>4, <1>5
  <1>14. Chain(d, all, is[i].to, js)
    BY <1>5, <1>9, <1>10, <1>11, <1>12, <1>13 DEF Chain
  <1>. QED  BY <1>14 DEF all, new, gone

\* History is written by transfers alone.
LEMMA HistoryStep ==
  ASSUME Held, [Next]_vars
  PROVE  UNCHANGED history \/ \E p \in Proc : Moved(p)
  <1>1. ASSUME NEW p \in Proc, Respond(p) PROVE UNCHANGED history \/ Moved(p)
    BY ONLY <1>1 DEF Respond, Moved, Doing
  <1>2. CASE Invitations
    BY <1>1, <1>2 DEF Invitations, CreateBegin, Create, RespondBegin, Late
  <1>3. CASE Rides
    BY <1>3
    DEF Rides, CreatePassengerOrder, ActivateOrder, StartTrip, CloseOrder, AssignBegin, BookBegin, AssignDriver,
        MarkDriverBusy, CreateScheduledOrder
  <1>4. CASE Shifts
    BY <1>4 DEF Shifts, MarkOnline, OfflineBegin, MarkOffline
  <1>5. CASE Parks
    BY <1>5
    DEF Parks, BlockDriver, UnblockDriver, VerifyDriver, ArchiveDriver, SetDriver, DetachCar, AttachBegin,
        AssignCarToDriver, SetParkActive
  <1>. QED  BY <1>2, <1>3, <1>4, <1>5 DEF Next, vars

\* An invitation is accepted by the transfer that names it.
LEMMA AcceptedStep ==
  ASSUME Held, [Next]_vars, NEW j \in Invite, invites'[j] # None, invites'[j].status = "accepted"
  PROVE  \/ Sent(j) /\ invites[j].status = "accepted"
         \/ \E p \in Proc : Moved(p) /\ j = jobs[p].i
  <1>. DEFINE Goal == \/ Sent(j) /\ invites[j].status = "accepted"
                      \/ \E p \in Proc : Moved(p) /\ j = jobs[p].i
  <1>1. invites \in [Invite -> InviteRow \union {None}]
    BY DEF Held, Rows
  <1>2. CASE UNCHANGED invites
    BY <1>2 DEF Sent
  <1>3. ASSUME NEW p \in Proc, NEW i \in Invite, Create(p, i) PROVE Goal
    <2>. DEFINE current == Expire(invites, jobs[p].d)
                new == [driver |-> jobs[p].d, from |-> jobs[p].from, to |-> jobs[p].to,
                        status |-> "pending", late |-> FALSE]
    <2>1. new.status = "pending"
      OBVIOUS
    <2>2. current[j] # None /\ current[j].status = "accepted" => Sent(j) /\ invites[j].status = "accepted"
      BY <1>1 DEF Expire, PendingOf, Sent, InviteRow
    <2>3. current = [k \in Invite |-> current[k]]
      BY DEF Expire
    <2>4. invites' = invites \/ invites' = current \/ invites' = [current EXCEPT ![i] = new]
      BY <1>3 DEF Create
    <2>. HIDE DEF current, new
    <2>. QED  BY <1>2, <2>1, <2>2, <2>3, <2>4
  <1>4. ASSUME NEW i \in Invite, Late(i) PROVE Goal
    BY <1>1, <1>4 DEF Late, Sent, InviteRow
  <1>5. ASSUME NEW p \in Proc, Respond(p) PROVE Goal
    <2>. DEFINE i == jobs[p].i
    <2>1. i \in Invite /\ Sent(i) /\ jobs[p].status \in {"accepted", "declined", "cancelled"}
      BY <1>5, JobKinds DEF Respond, Doing, Held, Locked, Current
    <2>2. ASSUME NEW s \in {"expired", "declined", "cancelled"}, invites' = Close(i, s) PROVE Goal
      BY <1>1, <2>1, <2>2 DEF Close, Sent, InviteRow
    <2>3. ASSUME Moved(p), j # i PROVE Goal
      <3>. DEFINE closed == Close(i, "accepted")
      <3>1. closed[j] = invites[j] /\ closed[i].driver = invites[i].driver
        BY <1>1, <2>1, <2>3 DEF Close, Sent, InviteRow
      <3>. HIDE DEF closed
      <3>2. invites' = CancelOtherPending(closed, i)
        BY <2>3 DEF Moved, Transfer, closed
      <3>3. \/ invites'[j] = invites[j]
            \/ \E s \in {"expired", "cancelled"} : j \in PendingOf(closed[i].driver) /\ invites'[j] = [invites[j] EXCEPT !.status = s]
        BY <3>1, <3>2 DEF CancelOtherPending
      <3>. QED  BY <1>1, <3>3 DEF PendingOf, Sent, InviteRow
    <2>4. UNCHANGED invites \/ Moved(p) \/ \E s \in {"expired", "declined", "cancelled"} : invites' = Close(i, s)
      BY ONLY <1>5, <2>1 DEF Respond, Moved, Doing
    <2>. QED  BY <1>2, <2>2, <2>3, <2>4
  <1>6. CASE Invitations
    BY <1>2, <1>3, <1>4, <1>5, <1>6 DEF Invitations, CreateBegin, RespondBegin
  <1>7. CASE Rides
    BY <1>2, <1>7
    DEF Rides, CreatePassengerOrder, ActivateOrder, StartTrip, CloseOrder, AssignBegin, BookBegin, AssignDriver,
        MarkDriverBusy, CreateScheduledOrder
  <1>8. CASE Shifts
    BY <1>2, <1>8 DEF Shifts, MarkOnline, OfflineBegin, MarkOffline
  <1>9. CASE Parks
    BY <1>2, <1>9
    DEF Parks, BlockDriver, UnblockDriver, VerifyDriver, ArchiveDriver, SetDriver, DetachCar, AttachBegin,
        AssignCarToDriver, SetParkActive
  <1>. QED  BY <1>2, <1>6, <1>7, <1>8, <1>9 DEF Next, vars

LEMMA ChainedStep ==
  ASSUME Held, Chained, [Next]_vars
  PROVE  Chained'
  <1>1. Answered(invites, invites')
    BY InvitesStep, NoneIsNothing DEF Answered, Sent
  <1>2. \A p \in Proc, q \in Proc : Moved(p) /\ Moved(q) => p = q
    <2>. SUFFICES ASSUME NEW p \in Proc, NEW q \in Proc, Moved(p), Moved(q), p # q PROVE FALSE
      OBVIOUS
    <2>. QED  BY DEF Moved, Commit, Doing, Idle, Held, Locked
  <1>3. ASSUME NEW p \in Proc, Moved(p) PROVE Chained'
    <2>. DEFINE i == jobs[p].i
                d == invites[i].driver
                new == [park |-> invites[i].to, left |-> FALSE, invite |-> i]
    <2>1. /\ i \in Invite /\ Sent(i) /\ invites[i].status = "pending" /\ d \in Driver /\ invites[i].to \in Park
          /\ jobs[p].driver = drivers[d] /\ invites[i].from = drivers[d].park
      BY <1>3, JobKinds, IsRow DEF Moved, Doing, EnsurePending, EnsureTransfer, Held, Locked, Current
    <2>2. OnlyAccepts(invites, invites', i)
      BY <1>1, <1>2, <1>3, AcceptedStep DEF OnlyAccepts, Answered, Sent
    <2>3. /\ history' = [history EXCEPT ![d] = Append(Leave(history[d]), new)]
          /\ drivers' = [drivers EXCEPT ![d] = [drivers[d] EXCEPT !.park = invites[i].to, !.status = "offline",
                             !.verification = "pending_verification", !.isVerified = FALSE]]
      BY <1>3 DEF Moved, Transfer
    <2>4. invites'[i] # None /\ invites'[i].status = "accepted" /\ invites'[i].driver = d
      <3>1. Close(i, "accepted")[i] = [invites[i] EXCEPT !.status = "accepted"]
        BY <2>1 DEF Close, Held, Rows
      <3>2. invites'[i] = [invites[i] EXCEPT !.status = "accepted"]
        BY <1>3, <2>1, <3>1 DEF Moved, Transfer, CancelOtherPending
      <3>3. invites[i] \in InviteRow
        BY <2>1, IsRow
      <3>. QED  BY <1>1, <2>1, <3>2, <3>3 DEF InviteRow, Answered, Sent
    <2>5. drivers[d] \in DriverRow
      BY <2>1 DEF Held, Rows
    <2>6. drivers'[d].park = invites[i].to /\ \A e \in Driver : e # d => drivers'[e] = drivers[e]
      BY <2>1, <2>3, <2>5 DEF Held, Rows, DriverRow
    <2>7. history'[d] = Append(Leave(history[d]), new) /\ \A e \in Driver : e # d => history'[e] = history[e]
      BY <2>1, <2>3 DEF Chained
    <2>8. history' = [e \in Driver |-> history'[e]]
      BY <2>1, <2>3 DEF Chained
    <2>9. Chain(d, history'[d], drivers'[d].park, invites')
      <3>1. Chain(d, history[d], drivers[d].park, invites)
        BY <2>1 DEF Chained
      <3>2. Chain(d, Append(Leave(history[d]), new), invites[i].to, invites')
        BY <1>1, <2>1, <2>2, <2>4, <3>1, ChainGrown DEF Sent
      <3>. QED  BY <2>6, <2>7, <3>2
    <2>10. ASSUME NEW e \in Driver, e # d PROVE Chain(e, history'[e], drivers'[e].park, invites')
      <3>1. Chain(e, history[e], drivers[e].park, invites)
        BY DEF Chained
      <3>2. \A j \in Invite : invites'[j] # None /\ invites'[j].status = "accepted" /\ invites'[j].driver = e =>
              invites[j] # None /\ invites[j].status = "accepted" /\ invites[j].driver = e
        BY <2>2, <2>4, <2>10 DEF OnlyAccepts
      <3>3. Chain(e, history[e], drivers[e].park, invites')
        BY <1>1, <3>1, <3>2, ChainKept
      <3>. QED  BY <2>6, <2>7, <2>10, <3>3
    <2>. HIDE DEF i, d
    <2>. QED  BY <2>8, <2>9, <2>10 DEF Chained
  <1>4. ASSUME ~\E p \in Proc : Moved(p) PROVE Chained'
    <2>1. UNCHANGED history
      BY <1>4, HistoryStep
    <2>2. \A d \in Driver : drivers'[d].park = drivers[d].park
      BY <1>4, DriversStep, ParkKept
    <2>3. \A j \in Invite : invites'[j] # None /\ invites'[j].status = "accepted" =>
            invites[j] # None /\ invites[j].status = "accepted" /\ invites[j].driver = invites'[j].driver
      BY <1>1, <1>4, AcceptedStep DEF Answered, Sent
    <2>4. ASSUME NEW d \in Driver PROVE Chain(d, history[d], drivers[d].park, invites')
      BY <1>1, <2>3, ChainKept DEF Chained
    <2>. QED  BY <2>1, <2>2, <2>4 DEF Chained
  <1>. QED  BY <1>3, <1>4

\* The history of every driver is a chain of accepted invitations, each used
\* once, from park to park, that ends in the park the driver is in.
THEOREM HistoriesAreChains == Spec => []HistoryIsAChain
  <1>1. Init => Chained
    <2>. SUFFICES ASSUME Init PROVE Chained
      OBVIOUS
    <2>1. \A d \in Driver : drivers[d].park \in Park \union {None}
      BY DEF Init, Hired
    <2>2. history = [d \in Driver |-> history[d]] /\ \A j \in Invite : invites[j] = None
      BY DEF Init
    <2>3. ASSUME NEW d \in Driver PROVE Chain(d, history[d], drivers[d].park, invites)
      <3>1. CASE drivers[d].park = None
        <4>1. history[d] = <<>>
          BY <3>1 DEF Init
        <4>2. <<>> \in Seq(HistoryRow) /\ Len(<<>>) = 0 /\ \A n \in 1 .. 0 : FALSE
          OBVIOUS
        <4>. QED  BY <2>2, <3>1, <4>1, <4>2 DEF Chain
      <3>2. CASE drivers[d].park # None
        <4>. DEFINE row == [park |-> drivers[d].park, left |-> FALSE, invite |-> None]
        <4>1. history[d] = <<row>> /\ row \in HistoryRow
          BY <2>1, <3>2 DEF Init, HistoryRow
        <4>2. row.park = drivers[d].park /\ row.left = FALSE /\ row.invite = None
          OBVIOUS
        <4>. HIDE DEF row
        <4>3. history[d] \in Seq(HistoryRow) /\ Len(history[d]) = 1 /\ history[d][1] = row
          BY <4>1
        <4>4. \A n \in 1 .. Len(history[d]) : n = 1
          BY <4>3
        <4>5. \A n \in 1 .. Len(history[d]) : history[d][n].invite = None /\ (history[d][n].left <=> n # Len(history[d]))
          BY <4>2, <4>3, <4>4
        <4>6. drivers[d].park = history[d][Len(history[d])].park /\ Len(history[d]) # 0
          BY <4>2, <4>3
        <4>7. \A m, n \in 1 .. Len(history[d]) : m = n
          BY <4>4
        <4>. QED  BY <2>2, <4>3, <4>5, <4>6, <4>7 DEF Chain
      <3>. QED  BY <3>1, <3>2
    <2>. QED  BY <2>2, <2>3 DEF Chained
  <1>2. Chained => HistoryIsAChain
    <2>. SUFFICES ASSUME Chained, NEW d \in Driver
         PROVE  LET rows == history[d]
                IN /\ \A n \in DOMAIN rows : rows[n].left <=> n # Len(rows)
                   /\ IF rows = <<>> THEN drivers[d].park = None ELSE drivers[d].park = Last(rows).park
                   /\ \A n \in DOMAIN rows : rows[n].invite # None =>
                        LET i == invites[rows[n].invite]
                        IN /\ i.status = "accepted" /\ i.driver = d /\ i.to = rows[n].park
                           /\ i.from = (IF n = 1 THEN None ELSE rows[n - 1].park)
                   /\ \A i \in Invite : Sent(i) /\ invites[i].driver = d /\ invites[i].status = "accepted" =>
                        Cardinality({n \in DOMAIN rows : rows[n].invite = i}) = 1
      BY DEF HistoryIsAChain
    <2>. DEFINE rows == history[d]
    <2>1. Chain(d, rows, drivers[d].park, invites)
      BY DEF Chained
    <2>. HIDE DEF rows
    <2>2. DOMAIN rows = 1 .. Len(rows) /\ (rows = <<>> <=> Len(rows) = 0) /\ Last(rows) = rows[Len(rows)]
      BY <2>1 DEF Chain, Last
    <2>3. ASSUME NEW i \in Invite, Sent(i), invites[i].driver = d, invites[i].status = "accepted"
          PROVE  Cardinality({n \in DOMAIN rows : rows[n].invite = i}) = 1
      <3>1. PICK m \in 1 .. Len(rows) : rows[m].invite = i
        BY <2>1, <2>3 DEF Chain, Sent
      <3>2. ASSUME NEW n \in 1 .. Len(rows), rows[n].invite = i PROVE n = m
        BY <2>1, <3>1, <3>2, NoneIsNothing DEF Chain
      <3>3. {n \in DOMAIN rows : rows[n].invite = i} = {m}
        BY <2>2, <3>1, <3>2
      <3>. QED  BY <3>3, FS_Singleton
    <2>. QED  BY <2>1, <2>2, <2>3 DEF Chain, rows
  <1>3. Held /\ Chained /\ [Next]_vars => Chained'
    BY ChainedStep
  <1>. QED  BY <1>1, <1>2, <1>3, LocksHeld, PTL DEF Spec
=============================================================================
