------------------------------- MODULE Orders -------------------------------
(***************************************************************************)
(* The rows of the `orders' and `drivers' tables and the SQL statements    *)
(* that change them.                                                       *)
(*                                                                         *)
(* Every statement or transaction of the repositories is one guard         *)
(* (CanXxx, the WHERE clause) and one effect (the SET clause), applied     *)
(* atomically: PostgreSQL locks the row it updates and re-evaluates the    *)
(* WHERE clause on the row it has locked.  The modules of the services     *)
(* compose these statements into handlers and let them interleave.         *)
(*                                                                         *)
(* A row keeps the columns that guard something: status, driver_id,        *)
(* price_confirmation_state, price_confirmation_expires_at (abstracted to  *)
(* `lapsed': the deadline of the pending confirmation has passed) and      *)
(* declined_driver_ids.  Tariffs, prices, route metrics, the car, the      *)
(* version column (every statement that tests it runs in a transaction     *)
(* that has locked the row) and soft deletion are left out.                *)
(***************************************************************************)
EXTENDS Naturals, Sequences

CONSTANTS
    Order,      \* the ids of orders
    Driver,     \* the ids of drivers
    NoDriver    \* NULL in orders.driver_id

ASSUME NoDriverAssumption == NoDriver \notin Driver

-----------------------------------------------------------------------------
(* The statements of this module as they would read with one slip in a      *)
(* WHERE or a SET clause.  No specification uses them: put in the place of  *)
(* the statement, each makes a property fail, which shows what the property *)
(* depends on.                                                              *)

\* WHERE status = 'created'
MarkSearchingOnlyCreated(row) == row.status = "created" /\ row.driver = NoDriver

\* without the NOT EXISTS subquery on the active orders of the driver
AssignEngagedDriver(rows, drivers, o, d) ==
    /\ rows[o].status = "searching"
    /\ rows[o].driver = NoDriver
    /\ drivers[d] = "online"

\* without AND price_confirmation_state = 'pending'
ReleaseWhateverThePrice(row, d) ==
    row.driver = d /\ row.status = "driver_assigned"

\* without price_confirmation_state = NULL
ReleaseKeepingPrice(row) ==
    [row EXCEPT !.status   = "searching",
                !.driver   = NoDriver,
                !.lapsed   = FALSE,
                !.declined = Append(row.declined, row.driver)]

\* array_append evaluated after driver_id has been cleared
ReleaseDecliningNobody(row) ==
    [row EXCEPT !.status   = "searching",
                !.driver   = NoDriver,
                !.price    = "none",
                !.lapsed   = FALSE,
                !.declined = Append(row.declined, NoDriver)]

\* time.Now().Before(deadline) instead of !time.Now().Before(deadline)
ExpiredBeforeDeadline(row) ==
    row.price = "pending" /\ row.driver # NoDriver /\ ~ row.lapsed

\* WHERE status = 'created'
ListedOnlyCreated(row) == row.status = "created" /\ row.driver = NoDriver

\* with 'in_progress' among the statuses a passenger may cancel
CancelDuringTrip(row) ==
    row.status \in {"searching", "driver_assigned", "driver_arriving",
                    "driver_waiting", "in_progress"}

-----------------------------------------------------------------------------
(* The state machine of internal/domain/order.go.  "absent" is an order     *)
(* that has not been inserted yet.                                          *)

OrderStatus ==
    {"created", "searching", "driver_assigned", "driver_arriving",
     "driver_waiting", "in_progress", "completed", "cancelled", "failed"}

Terminal == {"completed", "cancelled", "failed"}

\* A driver is serving an order in one of these statuses; the partial unique
\* index of migration 38 and the NOT EXISTS subqueries use the same set.
Active == {"driver_assigned", "driver_arriving", "driver_waiting", "in_progress"}

\* The statuses of a trip the passenger and the driver have agreed on.
Underway == {"driver_arriving", "driver_waiting", "in_progress", "completed"}

AllowedTransitions ==
    [created         |-> {"searching"},
     searching       |-> {"driver_assigned", "cancelled", "failed"},
     driver_assigned |-> {"driver_arriving", "cancelled"},
     driver_arriving |-> {"driver_waiting", "cancelled"},
     driver_waiting  |-> {"in_progress", "cancelled"},
     in_progress     |-> {"completed"},
     completed       |-> {},
     cancelled       |-> {},
     failed          |-> {}]

CanTransitionOrderStatus(from, to) == from = to \/ to \in AllowedTransitions[from]

DriverStatus == {"offline", "online", "busy", "blocked"}

PriceState == {"none", "pending", "confirmed"}

Row == [status   : OrderStatus \union {"absent"},
        driver   : Driver \union {NoDriver},
        price    : PriceState,
        lapsed   : BOOLEAN,
        declined : Seq(Driver)]

NewRow(status) == [status   |-> status,
                   driver   |-> NoDriver,
                   price    |-> "none",
                   lapsed   |-> FALSE,
                   declined |-> << >>]

DeclinedDrivers(row) == {row.declined[i] : i \in DOMAIN row.declined}

-----------------------------------------------------------------------------
(* Statements on one row of orders.                                         *)

CanMarkOrderSearching(row) ==
    row.status \in {"created", "searching"} /\ row.driver = NoDriver

MarkOrderSearching(row) == [row EXCEPT !.status = "searching"]

Serves(rows, d, o) == rows[o].driver = d /\ rows[o].status \in Active

FreeOfOrders(rows, d) == \A o \in Order : ~ Serves(rows, d, o)

\* The transaction locks the row of the driver, so two orders cannot both see
\* the driver free; the unique index makes a second attempt fail as well.
CanAssignDriver(rows, drivers, o, d) ==
    /\ rows[o].status = "searching"
    /\ rows[o].driver = NoDriver
    /\ drivers[d] = "online"
    /\ FreeOfOrders(rows, d)

AssignDriver(row, d, needsConfirmation) ==
    [row EXCEPT !.status = "driver_assigned",
                !.driver = d,
                !.price  = IF needsConfirmation THEN "pending" ELSE "confirmed",
                !.lapsed = FALSE]

CanConfirmDriverPrice(row) ==
    row.status = "driver_assigned" /\ row.price = "pending" /\ ~ row.lapsed

ConfirmDriverPrice(row) == [row EXCEPT !.price = "confirmed"]

CanReleaseDriverReservation(row, d) ==
    row.driver = d /\ row.status = "driver_assigned" /\ row.price = "pending"

ReleaseDriverReservation(row) ==
    [row EXCEPT !.status   = "searching",
                !.driver   = NoDriver,
                !.price    = "none",
                !.lapsed   = FALSE,
                !.declined = Append(row.declined, row.driver)]

\* ExpireOrderPrice looks at these columns, whatever the status.
Expired(row) == row.price = "pending" /\ row.driver # NoDriver /\ row.lapsed

\* The rows the recovery loop lists.
ListedExpired(row) == row.status = "driver_assigned" /\ Expired(row)

ListedSearching(row) == row.status = "searching" /\ row.driver = NoDriver

CanFailOrder(row) == row.status = "searching" /\ row.driver = NoDriver

FailOrder(row) == [row EXCEPT !.status = "failed"]

CanCancelPassengerOrder(row) ==
    row.status \in {"searching", "driver_assigned", "driver_arriving", "driver_waiting"}

\* Moves of a trip, by its driver or by the park: a pending price keeps the
\* order in driver_assigned, except for a cancellation.
CanMoveOrder(row, to) ==
    /\ CanTransitionOrderStatus(row.status, to)
    /\ row.status = "driver_assigned" => row.price # "pending" \/ to = "cancelled"

MoveOrder(row, to) == [row EXCEPT !.status = to]

-----------------------------------------------------------------------------
(* Statements on one row of drivers.                                        *)

\* UPDATE drivers SET status = 'online' WHERE status = 'busy': the same effect
\* as the statements that test status IN ('busy', 'online').
FreeDriver(drivers, d) ==
    IF d \in Driver /\ drivers[d] = "busy"
    THEN [drivers EXCEPT ![d] = "online"]
    ELSE drivers

=============================================================================
