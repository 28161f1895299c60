-------------------------- MODULE ScheduledProofs --------------------------
(***************************************************************************)
(* What is proved of orders that are booked ahead, for any number of them  *)
(* and of failures of the worker.                                          *)
(***************************************************************************)
EXTENDS Scheduled, FiniteSetTheorems, TLAPS

LEMMA NoneIsNothing ==
  None \notin Driver /\ None \notin OrderRow /\ None \notin Waiting /\ None \notin IsTerminal
  BY ScheduledAssumption

-----------------------------------------------------------------------------
(* Sequences.                                                              *)

\* A finite set can be listed.
LEMMA Listed ==
  ASSUME NEW S, S \subseteq Order
  PROVE  SetToSeq(S) \in Seq(S) /\ SetToSeqs(S) \subseteq Seq(S)
  <1>1. IsFiniteSet(S) /\ Cardinality(S) \in Nat
    BY FS_Subset, FS_CardinalityType, ScheduledAssumption
  <1>2. ExistsBijection(1..Cardinality(S), S)
    BY <1>1, FS_CardinalityType
  <1>3. \E f \in [1..Cardinality(S) -> S] : IsInjective(f)
    BY <1>2 DEF ExistsBijection, Bijection, Injection, IsInjective
  <1>4. SetToSeq(S) \in [1..Cardinality(S) -> S]
    BY <1>3 DEF SetToSeq
  <1>. QED  BY <1>1, <1>4 DEF SetToSeqs

-----------------------------------------------------------------------------
(* What a step writes.                                                     *)

\* Everything but the status.
SameBooking(row, old) ==
  row.sched = old.sched /\ row.driver = old.driver /\ row.preassigned = old.preassigned

Booked(o, row) ==
  /\ ~Placed(o) /\ ~HasOpenOrder(row.passenger)
  /\ row.driver = row.preassigned
  /\ \/ row.status = "created" /\ row.sched = SchedStatus(row.driver)
     \/ row.status = "searching" /\ row.sched = None /\ row.driver = None

Rescheduled(o, row) ==
  /\ orders[o].sched \in Waiting
  /\ row.sched = SchedStatus(row.preassigned) /\ row.driver = row.preassigned
  /\ row.status = orders[o].status

Unscheduled(o, row) ==
  /\ orders[o].sched \in Waiting
  /\ row = [orders[o] EXCEPT !.sched = "cancelled"]

Activated(o, row) ==
  /\ worker.pc = "activating"
  /\ orders[o].sched \in Waiting /\ row.sched = "activated"
  /\ row.driver = row.preassigned /\ row.preassigned = orders[o].preassigned
  /\ \/ row.driver = None /\ row.status = "created"
     \/ row.driver # None /\ row.status = "driver_assigned" /\ ~Busy(row.driver)

Searched(o, row) ==
  /\ orders[o].sched \notin Waiting
  /\ orders[o].status \in {"created", "searching"} /\ orders[o].driver = None
  /\ row.status = "searching" /\ SameBooking(row, orders[o])

Assigned(o, row) ==
  /\ orders[o].status = "searching" /\ orders[o].driver = None
  /\ row.status = "driver_assigned" /\ row.driver \in Driver /\ ~Busy(row.driver)
  /\ row.sched = orders[o].sched /\ row.preassigned = orders[o].preassigned

Moved(o, row) ==
  /\ orders[o].status \in Open \ {"created"}
  /\ \/ row.status \notin Open
     \/ row.status = "in_progress" /\ orders[o].status \in Serving
  /\ SameBooking(row, orders[o])

Written(o, row) ==
  /\ orders' = [orders EXCEPT ![o] = row]
  /\ \/ Booked(o, row)
     \/ /\ Placed(o) /\ row.passenger = orders[o].passenger
        /\ \/ Rescheduled(o, row) \/ Unscheduled(o, row) \/ Activated(o, row)
           \/ Searched(o, row) \/ Assigned(o, row) \/ Moved(o, row)

\* The orders in the hands of the worker and of dispatch are there, and those
\* dispatch has a task for have left the schedule.
Tracked ==
  /\ \A o \in queue : Placed(o) /\ orders[o].sched \notin Waiting
  /\ \A n \in DOMAIN worker.due : Placed(worker.due[n])
  /\ worker.pc = "enqueueing" => worker.due # <<>> /\ orders[Head(worker.due)].sched = "activated"
  /\ worker.pc = "expiring" => \A n \in DOMAIN worker.due : orders[worker.due[n]].sched \notin {"activated", None}

LEMMA RowTyped ==
  ASSUME SchedTypeOK, NEW o \in Order, Placed(o)
  PROVE  orders[o] \in OrderRow
  BY DEF SchedTypeOK, Placed

LEMMA CreateWrites ==
  ASSUME SchedTypeOK, NEW o \in Order, NEW u \in Passenger, NEW d \in Driver \union {None}, NEW t \in Times,
         CreateScheduledOrder(o, u, d, t)
  PROVE  \E row \in OrderRow : Written(o, row)
  <1>. DEFINE row == Row(u, "created", SchedStatus(d), d, t)
  <1>1. row \in OrderRow
    BY ScheduledAssumption DEF Row, SchedStatus, OrderRow, Waiting, Status, Open
  <1>2. Written(o, row)
    BY DEF CreateScheduledOrder, Written, Booked, Row
  <1>. QED  BY <1>1, <1>2

LEMMA OrderWrites ==
  ASSUME SchedTypeOK, NEW o \in Order, NEW u \in Passenger, CreatePassengerOrder(o, u)
  PROVE  \E row \in OrderRow : Written(o, row) /\ row.sched = None
  <1>. DEFINE row == Row(u, "searching", None, None, 0)
  <1>1. row \in OrderRow
    BY DEF Row, OrderRow, Status, Open
  <1>2. Written(o, row) /\ row.sched = None
    BY DEF CreatePassengerOrder, Written, Booked, Row
  <1>. QED  BY <1>1, <1>2

LEMMA UpdateWrites ==
  ASSUME SchedTypeOK, NEW o \in Order, NEW d \in Driver \union {None}, NEW t \in Times,
         UpdateScheduledOrder(o, d, t)
  PROVE  \E row \in OrderRow : Written(o, row)
  <1>. DEFINE old == orders[o]
              named == Coalesce(d, old.preassigned)
              row == [old EXCEPT !.at = t, !.preassigned = named,
                                 !.driver = ReplaceDriver(d, old), !.sched = SchedStatus(named)]
  <1>1. old \in OrderRow /\ Placed(o) /\ old.sched \in Waiting /\ old.driver = old.preassigned
    BY RowTyped DEF UpdateScheduledOrder, SchedTypeOK
  <1>2. named \in Driver \union {None} /\ ReplaceDriver(d, old) = named
    BY <1>1 DEF OrderRow, Coalesce, ReplaceDriver
  <1>3. SchedStatus(named) \in Waiting /\ t \in Nat
    BY ScheduledAssumption DEF SchedStatus, Waiting
  <1>4. orders' = [orders EXCEPT ![o] = row]
    BY DEF UpdateScheduledOrder
  <1>. HIDE DEF named
  <1>5. row \in OrderRow /\ row.passenger = old.passenger /\ row.sched = SchedStatus(row.preassigned)
        /\ row.driver = row.preassigned /\ row.status = old.status
    BY <1>1, <1>2, <1>3 DEF OrderRow
  <1>. HIDE DEF row
  <1>. QED  BY <1>1, <1>4, <1>5 DEF Written, Rescheduled

LEMMA CancelWrites ==
  ASSUME SchedTypeOK, NEW o \in Order, CancelScheduledOrder(o)
  PROVE  \E row \in OrderRow : Written(o, row)
  <1>. DEFINE row == [orders[o] EXCEPT !.sched = "cancelled"]
  <1>1. orders[o] \in OrderRow /\ Placed(o) /\ orders[o].sched \in Waiting
    BY RowTyped DEF CancelScheduledOrder, Cancellable
  <1>2. row \in OrderRow /\ row.passenger = orders[o].passenger
    BY <1>1 DEF OrderRow, IsTerminal
  <1>3. orders' = [orders EXCEPT ![o] = row]
    BY DEF CancelScheduledOrder
  <1>. QED  BY <1>1, <1>2, <1>3 DEF Written, Unscheduled

LEMMA ActivateWrites ==
  ASSUME SchedTypeOK, ActivateOrder
  PROVE  LET o == Head(worker.due)
         IN o \in Order /\ (orders' = orders \/ \E row \in OrderRow : Written(o, row) /\ row.sched = "activated")
  <1>. DEFINE o == Head(worker.due)
              old == orders[o]
              d == old.preassigned
              row == [old EXCEPT !.sched = "activated", !.driver = Coalesce(old.driver, d),
                                 !.status = IF d = None THEN "created" ELSE "driver_assigned"]
  <1>1. o \in Order
    BY DEF ActivateOrder, SchedTypeOK
  <1>2. CASE Activatable(o) /\ ~Refused(d) /\ orders' = [orders EXCEPT ![o] = row]
    <2>1. Placed(o) /\ old \in OrderRow /\ old.sched \in Waiting /\ old.driver = d
      BY <1>1, <1>2, RowTyped DEF Activatable, Due, SchedTypeOK
    <2>2. Coalesce(old.driver, d) = d
      BY <2>1 DEF Coalesce
    <2>3. /\ row \in OrderRow /\ row.passenger = old.passenger /\ row.sched = "activated"
          /\ row.driver = d /\ row.preassigned = d
          /\ row.status = IF d = None THEN "created" ELSE "driver_assigned"
      BY <2>1, <2>2 DEF OrderRow, IsTerminal, Status, Open, Serving
    <2>4. worker.pc = "activating" /\ (d # None => ~Busy(d))
      BY <1>2 DEF Refused, ActivateOrder
    <2>. HIDE DEF row
    <2>. QED  BY <1>1, <1>2, <2>1, <2>3, <2>4 DEF Written, Activated
  <1>. QED  BY <1>1, <1>2 DEF ActivateOrder

LEMMA SearchWrites ==
  ASSUME SchedTypeOK, Tracked, NEW o \in Order, MarkOrderSearching(o)
  PROVE  orders' = orders \/ \E row \in OrderRow : Written(o, row)
  <1>. DEFINE row == [orders[o] EXCEPT !.status = "searching"]
  <1>1. orders[o] \in OrderRow /\ Placed(o) /\ orders[o].sched \notin Waiting
    BY RowTyped DEF MarkOrderSearching, Tracked
  <1>2. row \in OrderRow /\ row.passenger = orders[o].passenger /\ SameBooking(row, orders[o])
        /\ row.status = "searching"
    BY <1>1 DEF OrderRow, Status, Open, SameBooking
  <1>. QED  BY <1>1, <1>2 DEF Written, Searched, MarkOrderSearching

LEMMA AssignWrites ==
  ASSUME SchedTypeOK, NEW o \in Order, NEW d \in Driver, AssignDriver(o, d)
  PROVE  \E row \in OrderRow : Written(o, row)
  <1>. DEFINE row == [orders[o] EXCEPT !.status = "driver_assigned", !.driver = d]
  <1>1. orders[o] \in OrderRow /\ Placed(o)
    BY RowTyped DEF AssignDriver
  <1>2. row \in OrderRow /\ row.passenger = orders[o].passenger /\ row.status = "driver_assigned"
        /\ row.driver = d /\ row.sched = orders[o].sched /\ row.preassigned = orders[o].preassigned
    BY <1>1 DEF OrderRow, Status, Open, Serving
  <1>3. orders' = [orders EXCEPT ![o] = row]
    BY DEF AssignDriver
  <1>. HIDE DEF row
  <1>. QED  BY <1>1, <1>2, <1>3 DEF Written, Assigned, AssignDriver

LEMMA MoveWrites ==
  ASSUME SchedTypeOK, NEW o \in Order, FailOrder(o) \/ Drive(o) \/ CancelOrder(o)
  PROVE  \E row \in OrderRow : Written(o, row)
  <1>1. orders[o] \in OrderRow /\ Placed(o)
    BY RowTyped DEF FailOrder, Drive, CancelOrder
  <1>2. PICK s \in Status : /\ orders[o].status \in Open \ {"created"}
                            /\ s \notin Open \/ (s = "in_progress" /\ orders[o].status \in Serving)
                            /\ orders' = [orders EXCEPT ![o] = [orders[o] EXCEPT !.status = s]]
    BY DEF FailOrder, Drive, CancelOrder, Status, Open, Serving
  <1>. DEFINE row == [orders[o] EXCEPT !.status = s]
  <1>3. row \in OrderRow /\ row.passenger = orders[o].passenger /\ SameBooking(row, orders[o]) /\ row.status = s
    BY <1>1 DEF OrderRow, SameBooking
  <1>. HIDE DEF row
  <1>. QED  BY <1>1, <1>2, <1>3 DEF Written, Moved, row

\* A row that is not new keeps its place, and what has left the schedule does not
\* come back to it.
LEMMA WrittenKeeps ==
  ASSUME SchedTypeOK, NEW o \in Order, NEW row \in OrderRow, Written(o, row), NEW x \in Order, Placed(x)
  PROVE  /\ Placed(x)'
         /\ orders[x].sched \notin Waiting => orders'[x].sched = orders[x].sched
         /\ orders[x].sched \in Waiting =>
              orders'[x].sched \in Waiting \union {"cancelled", "activated"}
         /\ orders'[x].sched = "activated" => orders[x].sched = "activated" \/ Activated(o, row)
  <1>1. orders'[x] = IF x = o THEN row ELSE orders[x]
    BY DEF Written, SchedTypeOK
  <1>2. CASE x # o
    BY <1>1, <1>2 DEF Placed, Waiting
  <1>3. CASE x = o
    <2>1. orders[x] \in OrderRow /\ row # None
      BY RowTyped, NoneIsNothing
    <2>2. CASE Unscheduled(o, row)
      BY <1>1, <1>3, <2>1, <2>2 DEF Unscheduled, OrderRow, Placed
    <2>3. CASE Rescheduled(o, row) \/ Activated(o, row)
      BY <1>1, <1>3, <2>1, <2>3 DEF Rescheduled, Activated, SchedStatus, Placed, Waiting
    <2>4. CASE Searched(o, row) \/ Assigned(o, row) \/ Moved(o, row)
      <3>1. orders[o].sched \notin Waiting
        BY <1>3, <2>4 DEF Searched, Assigned, Moved, SchedTypeOK
      <3>2. row.sched = orders[o].sched
        BY <2>4 DEF Searched, Assigned, Moved, SameBooking
      <3>. QED  BY <1>1, <1>3, <2>1, <3>1, <3>2 DEF Placed
    <2>. QED  BY <1>3, <2>2, <2>3, <2>4 DEF Written, Booked
  <1>. QED  BY <1>2, <1>3

\* The statement that expires what is overdue writes the rows it has listed.
LEMMA ExpireKeeps ==
  ASSUME SchedTypeOK, Tracked, ExpirePendingOrders, NEW x \in Order
  PROVE  \/ orders'[x] = orders[x]
         \/ /\ orders[x] \in OrderRow /\ orders[x].sched \notin {"activated", None}
            /\ orders'[x] = [orders[x] EXCEPT !.sched = "expired"]
  <1>1. CASE x \in ToSet(worker.due)
    <2>1. Placed(x) /\ orders[x].sched \notin {"activated", None}
      BY <1>1 DEF ToSet, Tracked, ExpirePendingOrders
    <2>. QED  BY <1>1, <2>1, RowTyped DEF ExpirePendingOrders
  <1>. QED  BY <1>1 DEF ExpirePendingOrders

\* Every step writes one row, expires what was listed, or leaves the orders.
LEMMA OrderSteps ==
  ASSUME SchedTypeOK, Tracked, [Next]_vars
  PROVE  \/ orders' = orders
         \/ \E o \in Order, row \in OrderRow : Written(o, row)
         \/ ExpirePendingOrders
  <1>. DEFINE Goal == \/ orders' = orders
                      \/ \E o \in Order, row \in OrderRow : Written(o, row)
                      \/ ExpirePendingOrders
  <1>1. ASSUME UNCHANGED orders PROVE Goal
    BY <1>1
  <1>2. ASSUME NEW o \in Order, \E row \in OrderRow : Written(o, row) PROVE Goal
    BY <1>2
  <1>3. ASSUME Worker PROVE Goal
    BY <1>3, ActivateWrites DEF Worker, ListDueOrderIDs, EnqueueActivated, ListOverdue
  <1>. HIDE DEF Goal
  <1>4. ASSUME ParkActs PROVE Goal
    BY <1>2, <1>4, CreateWrites, UpdateWrites, CancelWrites DEF ParkActs
  <1>5. ASSUME RideMoves PROVE Goal
    BY <1>1, <1>2, <1>5, OrderWrites, SearchWrites, AssignWrites, MoveWrites DEF RideMoves
  <1>6. Goal
    BY <1>1, <1>3, <1>4, <1>5 DEF Next, RoundFails, Crash, Tick, vars
  <1>. QED  BY <1>6 DEF Goal

\* Placed orders stay placed, and what has left the schedule has left it for good.
LEMMA OrderKept ==
  ASSUME SchedTypeOK, Tracked, [Next]_vars, NEW x \in Order, Placed(x)
  PROVE  /\ Placed(x)'
         /\ orders[x].sched \notin Waiting => orders'[x].sched \notin Waiting
  <1>1. CASE ExpirePendingOrders
    <2>1. [orders[x] EXCEPT !.sched = "expired"] \in OrderRow /\ [orders[x] EXCEPT !.sched = "expired"].sched = "expired"
      BY RowTyped DEF OrderRow, IsTerminal
    <2>. QED  BY <1>1, <2>1, ExpireKeeps, NoneIsNothing DEF Placed, Waiting
  <1>. QED  BY <1>1, OrderSteps, WrittenKeeps DEF Placed

-----------------------------------------------------------------------------
(* Types.                                                                  *)

LEMMA SchedTypeInit == Init => SchedTypeOK
  BY ScheduledAssumption DEF Init, SchedTypeOK, Placed, Pausing

LEMMA WorkerTyped ==
  ASSUME SchedTypeOK, Tracked, [Next]_vars
  PROVE  worker' \in [pc: {"pausing", "activating", "enqueueing", "expiring"}, due: Seq(Order)]
  <1>. DEFINE States == [pc: {"pausing", "activating", "enqueueing", "expiring"}, due: Seq(Order)]
  <1>0. Pausing \in States /\ RoundOver \in States
    <2>1. <<>> \in Seq(Order)
      OBVIOUS
    <2>. QED  BY <2>1 DEF Pausing, RoundOver
  <1>a. worker \in States /\ (worker.due # <<>> => Tail(worker.due) \in Seq(Order))
    BY DEF SchedTypeOK
  <1>1. CASE ListDueOrderIDs
    <2>. DEFINE S == {o \in Order : Due(o)}
    <2>1. SetToSeqs(S) \subseteq Seq(Order)
      <3>1. SetToSeqs(S) \subseteq Seq(S) /\ S \subseteq Order
        BY Listed
      <3>. QED  BY <3>1
    <2>. QED  BY <1>1, <2>1 DEF ListDueOrderIDs
  <1>2. CASE ActivateOrder
    <2>1. worker' \in {[worker EXCEPT !.due = Tail(worker.due)], RoundOver, [worker EXCEPT !.pc = "enqueueing"]}
          /\ worker.due # <<>>
      BY <1>2 DEF ActivateOrder
    <2>. QED  BY <1>0, <1>a, <2>1
  <1>3. CASE EnqueueActivated
    BY <1>3, <1>a DEF EnqueueActivated, Tracked
  <1>4. CASE RoundFails \/ Crash
    BY <1>0, <1>4 DEF RoundFails, Crash
  <1>5. CASE ListOverdue
    <2>. DEFINE S == {o \in Order : Overdue(o)}
    <2>1. SetToSeq(S) \in Seq(Order)
      <3>1. SetToSeq(S) \in Seq(S) /\ S \subseteq Order
        BY Listed
      <3>. QED  BY <3>1
    <2>2. worker' = Pausing \/ worker' = [pc |-> "expiring", due |-> SetToSeq(S)]
      BY <1>5 DEF ListOverdue
    <2>. HIDE DEF S
    <2>. QED  BY <1>0, <2>1, <2>2
  <1>6. CASE ExpirePendingOrders
    BY <1>0, <1>6 DEF ExpirePendingOrders
  <1>7. CASE UNCHANGED worker
    BY <1>a, <1>7
  <1>. QED
    BY <1>1, <1>2, <1>3, <1>4, <1>5, <1>6, <1>7
    DEF Next, Worker, vars, Tick, ParkActs, RideMoves, CreateScheduledOrder, UpdateScheduledOrder,
        CancelScheduledOrder, CreatePassengerOrder, MarkOrderSearching, AssignDriver, FailOrder, Drive, CancelOrder

\* Rows that wait for their time are new, and held for the driver who was named.
LEMMA RowsTyped ==
  ASSUME SchedTypeOK, Tracked, [Next]_vars
  PROVE  /\ orders' \in [Order -> OrderRow \union {None}]
         /\ \A o \in Order : Placed(o)' /\ orders'[o].sched \in Waiting =>
              /\ orders'[o].status = "created"
              /\ orders'[o].driver = orders'[o].preassigned
              /\ (orders'[o].sched = "confirmed") <=> (orders'[o].preassigned = None)
  <1>1. CASE orders' = orders
    BY <1>1 DEF SchedTypeOK, Placed
  <1>2. ASSUME NEW o \in Order, NEW row \in OrderRow, Written(o, row)
        PROVE  /\ orders' \in [Order -> OrderRow \union {None}]
               /\ \A x \in Order : Placed(x)' /\ orders'[x].sched \in Waiting =>
                    /\ orders'[x].status = "created"
                    /\ orders'[x].driver = orders'[x].preassigned
                    /\ (orders'[x].sched = "confirmed") <=> (orders'[x].preassigned = None)
    <2>1. \A x \in Order : orders'[x] = IF x = o THEN row ELSE orders[x]
      BY <1>2 DEF Written, SchedTypeOK
    <2>2. orders' \in [Order -> OrderRow \union {None}]
      BY <1>2 DEF Written, SchedTypeOK
    <2>3. row.sched \in Waiting =>
            /\ row.status = "created"
            /\ row.driver = row.preassigned
            /\ (row.sched = "confirmed") <=> (row.preassigned = None)
      <3>. SUFFICES ASSUME row.sched \in Waiting
                    PROVE  /\ row.status = "created"
                           /\ row.driver = row.preassigned
                           /\ (row.sched = "confirmed") <=> (row.preassigned = None)
        OBVIOUS
      <3>1. CASE Booked(o, row)
        BY <3>1, NoneIsNothing DEF Booked, SchedStatus
      <3>2. CASE Rescheduled(o, row) /\ Placed(o)
        BY <3>2 DEF Rescheduled, SchedStatus, SchedTypeOK
      <3>3. ~Activated(o, row)
        BY DEF Activated, Waiting
      <3>4. Placed(o) => ~Unscheduled(o, row)
        BY RowTyped DEF Unscheduled, OrderRow, Waiting
      <3>5. Placed(o) => ~Searched(o, row) /\ ~Assigned(o, row) /\ ~Moved(o, row)
        BY DEF Searched, Assigned, Moved, SameBooking, SchedTypeOK
      <3>. QED  BY <1>2, <3>1, <3>2, <3>3, <3>4, <3>5 DEF Written
    <2>. QED  BY <2>1, <2>2, <2>3 DEF SchedTypeOK, Placed
  <1>3. CASE ExpirePendingOrders
    <2>1. \A x \in Order : orders[x] \in OrderRow =>
            /\ [orders[x] EXCEPT !.sched = "expired"] \in OrderRow
            /\ [orders[x] EXCEPT !.sched = "expired"].sched \notin Waiting
      BY DEF OrderRow, IsTerminal, Waiting
    <2>2. orders' = [x \in Order |-> orders'[x]]
      BY <1>3 DEF ExpirePendingOrders
    <2>3. \A x \in Order : orders'[x] = orders[x] \/ (orders'[x] \in OrderRow /\ orders'[x].sched \notin Waiting)
      BY <1>3, <2>1, ExpireKeeps
    <2>. QED  BY <2>2, <2>3 DEF SchedTypeOK, Placed
  <1>. QED  BY <1>1, <1>2, <1>3, OrderSteps

LEMMA SchedTypeStep ==
  ASSUME SchedTypeOK, Tracked, [Next]_vars
  PROVE  SchedTypeOK'
  <1>1. queue \subseteq Order /\ now \in 0..MaxClock /\ edits \in 0..MaxEdits /\ faults \in 0..MaxFaults
        /\ (worker.pc = "enqueueing" => Head(worker.due) \in Order)
    BY DEF SchedTypeOK, Tracked
  <1>2. queue' \subseteq Order /\ now' \in 0..MaxClock /\ edits' \in 0..MaxEdits /\ faults' \in 0..MaxFaults
    <2>1. CASE Worker
      <3>1. CASE ListDueOrderIDs \/ ListOverdue \/ ExpirePendingOrders
        BY <1>1, <3>1 DEF ListDueOrderIDs, ListOverdue, ExpirePendingOrders
      <3>2. CASE ActivateOrder
        BY <1>1, <3>2 DEF ActivateOrder
      <3>3. CASE EnqueueActivated
        BY <1>1, <3>3 DEF EnqueueActivated
      <3>. QED  BY <2>1, <3>1, <3>2, <3>3 DEF Worker
    <2>2. CASE RoundFails \/ Crash \/ Tick \/ UNCHANGED vars
      BY <1>1, <2>2, ScheduledAssumption DEF RoundFails, Crash, Tick, vars
    <2>3. CASE ParkActs
      <3>1. queue' = queue /\ now' = now /\ faults' = faults /\ edits' \in {edits, edits + 1}
            /\ (edits' # edits => edits < MaxEdits)
        BY <2>3 DEF ParkActs, CreateScheduledOrder, UpdateScheduledOrder, CancelScheduledOrder
      <3>2. edits' \in 0..MaxEdits
        BY <1>1, <3>1, ScheduledAssumption
      <3>. QED  BY <1>1, <3>1, <3>2
    <2>4. CASE RideMoves
      BY <1>1, <2>4
      DEF RideMoves, CreatePassengerOrder, MarkOrderSearching, AssignDriver, FailOrder, Drive, CancelOrder
    <2>. QED  BY <2>1, <2>2, <2>3, <2>4 DEF Next
  <1>. QED  BY <1>1, <1>2, WorkerTyped, RowsTyped DEF SchedTypeOK, Placed

-----------------------------------------------------------------------------
(* The worker and the queue.                                               *)

\* What the queue holds stays true of it when nothing is added.
LEMMA QueueKept ==
  ASSUME SchedTypeOK, Tracked, [Next]_vars, NEW o \in queue
  PROVE  Placed(o)' /\ orders'[o].sched \notin Waiting
  BY OrderKept DEF Tracked, SchedTypeOK

LEMMA DueKept ==
  ASSUME SchedTypeOK, Tracked, [Next]_vars, NEW n \in DOMAIN worker.due
  PROVE  worker.due[n] \in Order /\ orders'[worker.due[n]] # None
  <1>1. worker.due[n] \in Order
    BY DEF SchedTypeOK
  <1>2. Placed(worker.due[n])
    BY DEF Tracked
  <1>. QED  BY <1>1, <1>2, OrderKept DEF Placed

\* Only the worker activates, and not while it expires.
LEMMA OverdueKept ==
  ASSUME SchedTypeOK, Tracked, [Next]_vars, UNCHANGED worker, worker.pc = "expiring", NEW n \in DOMAIN worker.due
  PROVE  orders'[worker.due[n]].sched \notin {"activated", None}
  <1>. DEFINE x == worker.due[n]
  <1>1. x \in Order /\ Placed(x) /\ orders[x].sched \notin {"activated", None}
    BY DEF SchedTypeOK, Tracked
  <1>2. ~ExpirePendingOrders
    BY DEF ExpirePendingOrders, Pausing
  <1>. HIDE DEF x
  <1>3. ASSUME NEW o \in Order, NEW row \in OrderRow, Written(o, row)
        PROVE  orders'[x].sched \notin {"activated", None}
    <2>1. ~Activated(o, row)
      BY DEF Activated
    <2>. QED  BY <1>1, <1>3, <2>1, WrittenKeeps, NoneIsNothing DEF Waiting, IsTerminal
  <1>. QED  BY <1>1, <1>2, <1>3, OrderSteps DEF x

LEMMA TrackedStep ==
  ASSUME SchedTypeOK, Tracked, [Next]_vars
  PROVE  Tracked'
  <1>. DEFINE QueueOK == \A o \in queue' : Placed(o)' /\ orders'[o].sched \notin Waiting
              DueOK == /\ \A n \in DOMAIN worker'.due : orders'[worker'.due[n]] # None
                       /\ worker'.pc = "enqueueing" =>
                            worker'.due # <<>> /\ orders'[Head(worker'.due)].sched = "activated"
                       /\ worker'.pc = "expiring" =>
                            \A n \in DOMAIN worker'.due : orders'[worker'.due[n]].sched \notin {"activated", None}
  <1>1. QueueOK
    <2>1. CASE queue' \subseteq queue
      BY <2>1, QueueKept
    <2>2. ASSUME NEW o \in Order, NEW u \in Passenger, CreatePassengerOrder(o, u) PROVE QueueOK
      <3>1. PICK row \in OrderRow : Written(o, row) /\ row.sched = None
        BY <2>2, OrderWrites
      <3>2. orders'[o] = row
        BY <3>1 DEF Written, SchedTypeOK
      <3>3. queue' = queue \union {o}
        BY <2>2 DEF CreatePassengerOrder
      <3>. QED  BY <3>1, <3>2, <3>3, QueueKept, NoneIsNothing DEF Placed
    <2>3. CASE EnqueueActivated
      <3>1. worker.due # <<>> /\ orders[Head(worker.due)].sched = "activated" /\ Head(worker.due) = worker.due[1]
            /\ 1 \in DOMAIN worker.due
        BY <2>3 DEF EnqueueActivated, Tracked, SchedTypeOK
      <3>2. Placed(Head(worker.due))
        BY <3>1 DEF Tracked
      <3>. QED  BY <2>3, <3>1, <3>2, QueueKept DEF EnqueueActivated, Placed, Waiting
    <2>. HIDE DEF QueueOK
    <2>4. ASSUME queue' \subseteq queue PROVE QueueOK
      BY <2>4, QueueKept DEF QueueOK
    <2>5. CASE Worker
      BY <2>3, <2>4, <2>5
      DEF Worker, ListDueOrderIDs, ActivateOrder, ListOverdue, ExpirePendingOrders
    <2>6. CASE RoundFails \/ Crash \/ Tick \/ UNCHANGED vars
      BY <2>4, <2>6 DEF RoundFails, Crash, Tick, vars
    <2>7. CASE ParkActs
      BY <2>4, <2>7 DEF ParkActs, CreateScheduledOrder, UpdateScheduledOrder, CancelScheduledOrder
    <2>8. CASE RideMoves
      BY <2>2, <2>4, <2>8 DEF RideMoves, MarkOrderSearching, AssignDriver, FailOrder, Drive, CancelOrder
    <2>. QED  BY <2>5, <2>6, <2>7, <2>8 DEF Next
  <1>2. DueOK
    <2>0. worker.due \in Seq(Order)
      BY DEF SchedTypeOK
    <2>1. ASSUME UNCHANGED worker, ~EnqueueActivated PROVE DueOK
      <3>1. worker.pc = "enqueueing" => orders'[Head(worker.due)].sched = "activated"
        <4>. SUFFICES ASSUME worker.pc = "enqueueing" PROVE orders'[Head(worker.due)].sched = "activated"
          OBVIOUS
        <4>. DEFINE x == Head(worker.due)
        <4>1. worker.due # <<>> /\ x \in Order /\ Placed(x) /\ orders[x].sched = "activated"
          BY <2>0 DEF Tracked
        <4>2. ~ExpirePendingOrders
          BY DEF ExpirePendingOrders
        <4>. QED  BY <4>1, <4>2, OrderSteps, WrittenKeeps DEF Waiting
      <3>. QED  BY <2>1, <3>1, DueKept, OverdueKept DEF Tracked
    <2>2. ASSUME worker'.due = <<>>, worker'.pc \in {"pausing", "activating"} PROVE DueOK
      BY <2>2
    <2>3. CASE ListDueOrderIDs
      <3>1. \A S : S \subseteq Order => \A s \in SetToSeqs(S) : \A n \in DOMAIN s : s[n] \in S
        BY Listed
      <3>2. \A n \in DOMAIN worker'.due : Due(worker'.due[n])
        BY <2>3, <3>1 DEF ListDueOrderIDs
      <3>3. worker'.pc = "activating" /\ UNCHANGED orders
        BY <2>3 DEF ListDueOrderIDs
      <3>. QED  BY <3>2, <3>3 DEF Due, Placed
    <2>4. CASE ListOverdue
      <3>. DEFINE S == {o \in Order : Overdue(o)}
      <3>1. SetToSeq(S) \in Seq(S)
        BY Listed
      <3>2. UNCHANGED orders /\ (worker' = Pausing \/ worker' = [pc |-> "expiring", due |-> SetToSeq(S)])
        BY <2>4 DEF ListOverdue
      <3>3. \A o \in S : Placed(o) /\ orders[o].sched \in Waiting
        BY DEF Overdue
      <3>. HIDE DEF S
      <3>4. CASE worker' = [pc |-> "expiring", due |-> SetToSeq(S)]
        <4>1. \A n \in DOMAIN worker'.due : worker'.due[n] \in S
          BY <3>1, <3>4
        <4>. QED  BY <3>2, <3>3, <3>4, <4>1, NoneIsNothing DEF Placed, Waiting
      <3>. QED  BY <2>2, <3>2, <3>4 DEF Pausing
    <2>5. CASE ActivateOrder
      <3>. DEFINE x == Head(worker.due)
      <3>1. worker.due # <<>> /\ worker.pc = "activating"
        BY <2>5 DEF ActivateOrder
      <3>2. CASE worker' = [worker EXCEPT !.due = Tail(worker.due)]
        <4>1. \A n \in DOMAIN Tail(worker.due) :
                n + 1 \in DOMAIN worker.due /\ Tail(worker.due)[n] = worker.due[n + 1]
          BY <2>0, <3>1
        <4>2. worker'.due = Tail(worker.due) /\ worker'.pc = "activating"
          BY <3>1, <3>2 DEF SchedTypeOK
        <4>. QED  BY <4>1, <4>2, DueKept
      <3>3. CASE worker' = [worker EXCEPT !.pc = "enqueueing"] /\ orders' # orders
        <4>1. PICK row \in OrderRow : x \in Order /\ Written(x, row) /\ row.sched = "activated"
          BY <2>5, <3>3, ActivateWrites
        <4>2. orders'[x] = row
          BY <4>1 DEF Written, SchedTypeOK
        <4>3. worker'.due = worker.due /\ worker'.pc = "enqueueing"
          BY <3>3 DEF SchedTypeOK
        <4>. QED  BY <3>1, <4>1, <4>2, <4>3, DueKept
      <3>4. CASE worker' = RoundOver
        BY <2>2, <3>4 DEF RoundOver
      <3>5. CASE worker' = [worker EXCEPT !.pc = "enqueueing"] /\ orders' = orders
        <4>1. x \in Order /\ Activatable(x)
              /\ orders'[x] = [orders[x] EXCEPT !.sched = "activated",
                    !.driver = Coalesce(orders[x].driver, orders[x].preassigned),
                    !.status = IF orders[x].preassigned = None THEN "created" ELSE "driver_assigned"]
          <5>1. worker'.pc = "enqueueing" /\ [worker EXCEPT !.due = Tail(worker.due)].pc = "activating"
                /\ RoundOver.pc = "activating"
            BY <3>1, <3>5 DEF SchedTypeOK, RoundOver
          <5>2. x \in Order
            BY <2>0, <3>1
          <5>3. /\ Activatable(x)
                /\ orders' = [orders EXCEPT ![x] = [orders[x] EXCEPT !.sched = "activated",
                      !.driver = Coalesce(orders[x].driver, orders[x].preassigned),
                      !.status = IF orders[x].preassigned = None THEN "created" ELSE "driver_assigned"]]
            BY <2>5, <5>1 DEF ActivateOrder
          <5>. QED  BY <5>2, <5>3 DEF SchedTypeOK
        <4>2. orders[x] \in OrderRow /\ orders[x].sched \in Waiting
          BY <4>1, RowTyped DEF Activatable, Due
        <4>3. orders'[x].sched = "activated"
          BY <4>1, <4>2 DEF OrderRow
        <4>. QED  BY <3>5, <4>2, <4>3 DEF Waiting
      <3>. HIDE DEF DueOK
      <3>. QED  BY <2>5, <3>2, <3>3, <3>4, <3>5 DEF ActivateOrder
    <2>6. CASE EnqueueActivated
      <3>1. worker.due # <<>>
        BY <2>6 DEF EnqueueActivated, Tracked
      <3>2. \A n \in DOMAIN Tail(worker.due) :
              n + 1 \in DOMAIN worker.due /\ Tail(worker.due)[n] = worker.due[n + 1]
        BY <2>0, <3>1
      <3>3. worker'.due = Tail(worker.due) /\ worker'.pc = "activating"
        BY <2>6 DEF EnqueueActivated
      <3>. QED  BY <3>2, <3>3, DueKept
    <2>7. CASE RoundFails \/ Crash \/ ExpirePendingOrders
      BY <2>2, <2>7 DEF RoundFails, Crash, ExpirePendingOrders, RoundOver, Pausing
    <2>. HIDE DEF DueOK
    <2>8. CASE UNCHANGED worker
      BY <2>1, <2>6, <2>8 DEF DueOK
    <2>. QED
      BY <2>3, <2>4, <2>5, <2>6, <2>7, <2>8
      DEF Next, Worker, vars, Tick, ParkActs, RideMoves, CreateScheduledOrder, UpdateScheduledOrder,
          CancelScheduledOrder, CreatePassengerOrder, MarkOrderSearching, AssignDriver, FailOrder, Drive, CancelOrder
  <1>. QED  BY <1>1, <1>2 DEF Tracked, Placed

-----------------------------------------------------------------------------
(* Drivers and passengers.                                                 *)

\* An open order has no driver but the one it was booked with, if any.
DriversNamed ==
  \A o \in Order : Placed(o) =>
    /\ orders[o].status \in Open /\ orders[o].preassigned # None => orders[o].driver = orders[o].preassigned
    /\ orders[o].status \in Serving => orders[o].driver # None

\* What one statement does to a row, as far as passengers and drivers see it.
LEMMA RowRides ==
  ASSUME SchedTypeOK, DriversNamed, NEW o \in Order, NEW row \in OrderRow, Written(o, row)
  PROVE  /\ row.status \in Open /\ row.preassigned # None => row.driver = row.preassigned
         /\ row.status \in Serving => row.driver # None
         /\ row.status \in Open =>
              \/ ~Placed(o) /\ ~HasOpenOrder(row.passenger)
              \/ Placed(o) /\ orders[o].status \in Open /\ row.passenger = orders[o].passenger
         /\ row.status \in Serving =>
              \/ ~Busy(row.driver)
              \/ Placed(o) /\ orders[o].status \in Serving /\ row.driver = orders[o].driver
  <1>. DEFINE Goal ==
         /\ row.status \in Open /\ row.preassigned # None => row.driver = row.preassigned
         /\ row.status \in Serving => row.driver # None
         /\ row.status \in Open =>
              \/ ~Placed(o) /\ ~HasOpenOrder(row.passenger)
              \/ Placed(o) /\ orders[o].status \in Open /\ row.passenger = orders[o].passenger
         /\ row.status \in Serving =>
              \/ ~Busy(row.driver)
              \/ Placed(o) /\ orders[o].status \in Serving /\ row.driver = orders[o].driver
  <1>1. CASE Booked(o, row)
    BY <1>1 DEF Booked, Serving
  <1>2. ASSUME Placed(o), row.passenger = orders[o].passenger,
               Rescheduled(o, row) \/ Unscheduled(o, row) \/ Activated(o, row)
        PROVE  Goal
    <2>1. /\ orders[o] \in OrderRow /\ orders[o].status = "created" /\ orders[o].status \in Open
          /\ orders[o].driver = orders[o].preassigned
      BY <1>2, RowTyped DEF Rescheduled, Unscheduled, Activated, SchedTypeOK, Open
    <2>2. CASE Unscheduled(o, row)
      <3>1. row.status = "created" /\ row.driver = row.preassigned
        BY <2>1, <2>2 DEF Unscheduled, OrderRow
      <3>. QED  BY <1>2, <2>1, <3>1 DEF Serving
    <2>3. CASE Rescheduled(o, row)
      BY <1>2, <2>1, <2>3 DEF Rescheduled, Serving
    <2>4. CASE Activated(o, row)
      BY <1>2, <2>1, <2>4 DEF Activated, Serving
    <2>. QED  BY <1>2, <2>2, <2>3, <2>4
  <1>3. ASSUME Placed(o), row.passenger = orders[o].passenger,
               Searched(o, row) \/ Assigned(o, row) \/ Moved(o, row)
        PROVE  Goal
    BY <1>3, NoneIsNothing DEF Searched, Assigned, Moved, SameBooking, DriversNamed, Open, Serving
  <1>. HIDE DEF Goal
  <1>4. Goal
    BY <1>1, <1>2, <1>3 DEF Written, Goal
  <1>. QED  BY <1>4 DEF Goal

LEMMA DriversStep ==
  ASSUME SchedTypeOK, Tracked, DriversNamed, [Next]_vars
  PROVE  DriversNamed'
  <1>1. CASE orders' = orders
    BY <1>1 DEF DriversNamed, Placed
  <1>2. ASSUME NEW o \in Order, NEW row \in OrderRow, Written(o, row) PROVE DriversNamed'
    <2>1. \A x \in Order : orders'[x] = IF x = o THEN row ELSE orders[x]
      BY <1>2 DEF Written, SchedTypeOK
    <2>. QED  BY <1>2, <2>1, RowRides DEF DriversNamed, Placed
  <1>3. CASE ExpirePendingOrders
    <2>1. \A x \in Order : orders[x] \in OrderRow =>
            /\ [orders[x] EXCEPT !.sched = "expired"] \in OrderRow
            /\ \A f \in {"passenger", "status", "driver", "preassigned"} :
                 [orders[x] EXCEPT !.sched = "expired"][f] = orders[x][f]
      BY DEF OrderRow, IsTerminal
    <2>2. \A x \in Order : Placed(x)' =>
            /\ Placed(x) /\ orders'[x].status = orders[x].status /\ orders'[x].driver = orders[x].driver
            /\ orders'[x].preassigned = orders[x].preassigned
      BY <1>3, <2>1, ExpireKeeps, NoneIsNothing DEF Placed
    <2>. QED  BY <2>2 DEF DriversNamed
  <1>. QED  BY <1>1, <1>2, <1>3, OrderSteps

LEMMA RidesStep ==
  ASSUME SchedTypeOK, Tracked, DriversNamed, RidesAreSingle, [Next]_vars
  PROVE  RidesAreSingle'
  <1>1. CASE orders' = orders
    BY <1>1 DEF RidesAreSingle, Placed
  <1>2. ASSUME NEW o \in Order, NEW row \in OrderRow, Written(o, row) PROVE RidesAreSingle'
    <2>1. \A x \in Order : orders'[x] = IF x = o THEN row ELSE orders[x]
      BY <1>2 DEF Written, SchedTypeOK
    <2>2. \A q \in Order : q # o /\ Placed(q) =>
            /\ ~(row.passenger = orders[q].passenger /\ row.status \in Open /\ orders[q].status \in Open)
            /\ ~(row.driver = orders[q].driver /\ row.status \in Serving /\ orders[q].status \in Serving)
      BY <1>2, RowRides DEF RidesAreSingle, HasOpenOrder, Busy
    <2>. QED  BY <2>1, <2>2 DEF RidesAreSingle, Placed
  <1>3. CASE ExpirePendingOrders
    <2>1. \A x \in Order : orders[x] \in OrderRow =>
            /\ [orders[x] EXCEPT !.sched = "expired"] \in OrderRow
            /\ \A f \in {"passenger", "status", "driver"} :
                 [orders[x] EXCEPT !.sched = "expired"][f] = orders[x][f]
      BY DEF OrderRow, IsTerminal
    <2>2. \A x \in Order : Placed(x)' => /\ Placed(x) /\ orders'[x].passenger = orders[x].passenger
                                        /\ orders'[x].status = orders[x].status /\ orders'[x].driver = orders[x].driver
      BY <1>3, <2>1, ExpireKeeps, NoneIsNothing DEF Placed
    <2>. QED  BY <2>2 DEF RidesAreSingle
  <1>. QED  BY <1>1, <1>2, <1>3, OrderSteps

\* What the scheduling of an order has ended in stays, but for a cancellation
\* that the expiry overwrites.
LEMMA FinalStep ==
  ASSUME SchedTypeOK, Tracked, [Next]_vars, NEW o \in Order, Placed(o), orders[o].sched \in IsTerminal
  PROVE  orders'[o].sched \in {orders[o].sched} \union (IF orders[o].sched = "cancelled" THEN {"expired"} ELSE {})
  <1>1. orders[o].sched \notin Waiting /\ orders[o] \in OrderRow
    BY RowTyped DEF Waiting, IsTerminal
  <1>2. CASE ExpirePendingOrders
    <2>1. [orders[o] EXCEPT !.sched = "expired"].sched = "expired"
      BY <1>1 DEF OrderRow
    <2>. QED  BY <1>2, <2>1, ExpireKeeps DEF IsTerminal
  <1>. QED  BY <1>1, <1>2, OrderSteps, WrittenKeeps

-----------------------------------------------------------------------------
(* The invariant, and what follows from it.                                *)

SchedInv == SchedTypeOK /\ Tracked /\ DriversNamed /\ RidesAreSingle

LEMMA SchedInit == Init => SchedInv
  BY SchedTypeInit DEF Init, SchedInv, Tracked, DriversNamed, RidesAreSingle, Placed, Pausing

LEMMA SchedStep == SchedInv /\ [Next]_vars => SchedInv'
  BY SchedTypeStep, TrackedStep, DriversStep, RidesStep DEF SchedInv

\* An order that waits for its time is new and held for the driver the park has
\* named (UpdateScheduledOrder, ActivateOrder).
THEOREM SchedTypeCorrect == Spec => []SchedTypeOK
  BY SchedInit, SchedStep, PTL DEF Spec, SchedInv

\* A passenger has one open order and a driver serves one, also when the worker
\* activates an order that was booked before (the unique indexes, ActivateOrder).
THEOREM OneRideEach == Spec => []RidesAreSingle
  BY SchedInit, SchedStep, PTL DEF Spec, SchedInv

\* The driver the park has named last serves the order (UpdateScheduledOrder).
THEOREM NamedDriversServe == Spec => []NamedDriverServes
  <1>1. SchedInv => NamedDriverServes
    BY DEF SchedInv, DriversNamed, NamedDriverServes, Open
  <1>. QED  BY <1>1, SchedInit, SchedStep, PTL DEF Spec

\* An order that was cancelled is not activated, and one that was activated is
\* neither cancelled nor expired (ActivateOrder looks at the row again).
THEOREM SchedulingEnds == Spec => SchedulingIsFinal
  <1>1. SchedInv /\ [Next]_vars =>
          [\A o \in Order : Placed(o) /\ orders[o].sched \in IsTerminal =>
             orders'[o].sched \in {orders[o].sched} \union
               (IF orders[o].sched = "cancelled" THEN {"expired"} ELSE {})]_vars
    BY FinalStep DEF SchedInv
  <1>. QED  BY <1>1, SchedInit, SchedStep, PTL DEF Spec, SchedulingIsFinal
=============================================================================
