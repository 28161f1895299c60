# A verification development for taxi-platform

TLA+ models of the parts of the platform where concurrent requests, timers,
failures and money meet: the dispatch of orders to drivers, scheduled orders,
prices and quotes, settlement, the fleet with transfers between parks, and
sessions. TLC model-checks them on small instances, and TLAPS proofs establish
what matters most for every value of the constants. Paths are relative to the
repository's root (`src/` stands for it).

1. [The system](#1-the-system)
2. [The modules](#2-the-modules)
3. [How the models correspond to the code](#3-how-the-models-correspond-to-the-code)
4. [The runs](#4-the-runs)
5. [Findings](#5-findings)
6. [The proofs](#6-the-proofs)
7. [What is not modelled](#7-what-is-not-modelled)
8. [The plan](#8-the-plan)

To check a run: `tlc -config X.cfg M`, with M the module the table of section 4
names. To check the proofs: `tlapm M.tla` for `Sums` and each module
named `...Proofs`.

## 1. The system

taxi-platform is the backend of a ride-hailing service: a Go program
(`cmd/api`) that any number of instances run beside each other over one
PostgreSQL (PostGIS) database and one Redis. Passengers, drivers and taxi parks
call its HTTP API; websockets carry events to them. Nothing is kept in process
memory between requests except websocket connections and metrics.

### Components

| Component | State | Operations | Interacts with |
|---|---|---|---|
| **dispatch** (`internal/dispatch`) | none of its own: Redis and `orders` | `EnqueueOrder`, `ProcessTask`, `HandleOfferTimeout`, `AcceptOffer`, `RejectOffer`, `ConfirmOrderPrice`, `DeclineOrderPrice`, `ExpireOrderPrice`, `StopDispatch`; three loops in `worker.go` | called by passenger, driver and park handlers and by scheduled orders; calls the stores, the order table, driver search, websockets |
| **Redis stores** (`internal/redis`) | task list, sorted set of timeouts, dispatching keys, offers and their index, accept locks, rate limits, driver locations | one or two commands each, most with a TTL | dispatch, middleware |
| **order table** (`repository/dispatch_order_repository.go`, `driver_mobile_repository.go`, `passenger_order_repository.go`, `taxi_park_settings_repository.go`) | `orders`, `order_events`, `drivers.status` | conditional UPDATEs, some in a transaction that locks the driver's or the order's row | everybody |
| **passenger orders** (`internal/passenger`) | quotes, orders | quote, create, cancel, confirm and decline the price | dispatch, pricing, routing |
| **driver app** (`internal/driver`) | driver status, locations | shift, offers, trip, completion, points of the route | dispatch, finance |
| **taxi park** (`internal/taxipark`) | parks, drivers, cars, tariffs, settings | orders of the park, driver administration | dispatch, finance |
| **scheduled orders** (`internal/scheduled`) | `scheduled_status`, `preassigned_driver_id` | confirm, pre-assign, activate, expire (a polling worker) | dispatch |
| **finance** (`internal/finance`) | settlements, balances, ledgers, payouts, invoices | settle a completed order, create, approve and pay payouts | driver app, taxi park |
| **driver park invites** (`internal/driverinvite`) | invites, park history, balances | create, accept, reject, cancel, expire | taxi park, driver app |
| **authentication** (`internal/auth`, `passenger/auth_service.go`) | users, verification codes, refresh tokens | register, send and verify a code, log in, rotate, revoke | middleware |
| **pricing** (`domain/trip_pricing.go`) | none | price of a trip under a tariff | passenger, dispatch, taxi park |
| chat, legal, geocoder, routing, push, audit, admin, transport, middleware, dto | tables of their own or none | CRUD, HTTP clients, wiring | - |

### How an order is dispatched

1. A handler inserts an order in `searching` and calls `EnqueueOrder`: it sets
   the dispatching key (SETNX, 30 minutes), marks the order searching and
   pushes a task to the list.
2. The dispatch loop of some instance pops the task, reads the order and
   searches free online drivers within the radius of the attempt. It saves an
   offer for each, one by one, and schedules the task as a timeout; with no
   driver it schedules a wider radius or, after the last one, fails the order.
3. When a timeout is due, the timeout loop removes what offers are left and
   publishes the next attempt, which excludes their drivers; after the last
   attempt it fails the order.
4. A driver accepts: under the accept lock of the order `AssignDriver` gives
   the order to the driver, a confirmation timer is armed if a passenger has to
   confirm the price, the driver becomes busy, and the other offers, the
   dispatching key and the lock go.
5. The passenger confirms, declines or does not answer. A decline and an expiry
   release the reservation: the order searches again, with a task of attempt 0.
6. The driver moves the order through the trip; the passenger, the driver or the
   park may cancel it.
7. The recovery loop of each instance lists reservations whose deadline has
   passed and orders that search, and expires the first and enqueues the second.

### What is hard, and what makes it correct

Every handler is a sequence of transactions and Redis commands, and handlers of
all instances interleave between any two of them. TTLs run out, timers fire
late, processes die between two steps, and the first error of a loop ends it.
What has to hold all the same:

- *order table*: a driver serves at most one order; the driver, the price state
  and the status of a row agree; what the passenger has agreed to stays;
- *dispatch*: acceptances of an order are serialised; a search is carried on by
  somebody, ends, and is recovered after a crash;
- *passenger orders*: a quote is used once, and its price is what is charged;
  a driver is assigned at the fare that stands; one active order per passenger;
- *scheduled orders*: an order is activated once, for the driver named last, or
  ends; it does not wait for ever;
- *finance*: an order is settled once, whoever asks for it again; a balance is
  the sum of its ledger and never overdrawn by payouts; an accrual is billed once;
- *fleet*: an order is served by a driver and car of its park, although drivers
  move; an invitation is answered once; the history is a chain;
- *sessions*: of a session one refresh token works, what has ended stays ended,
  a code opens one session and has bounded attempts.

`PROJECT.json` lists these hazards at the lines where they bite.

## 2. The modules

| Module | What it is |
|---|---|
| `Orders` | The rows of `orders` and `drivers` and the SQL statements of dispatch and trip on them, each a guard `CanXxx` (the WHERE clause) and an effect (the SET clause) |
| `Dispatch` | EXTENDS `Orders`. Processes, Redis, handlers, loops and faults of the dispatch; its properties |
| `Reservation` | Abstract: what is promised about an order and its driver, without any mechanism |
| `DispatchRefinement` | EXTENDS `Dispatch`, INSTANCEs `Reservation`: the refinement mapping |
| `Fares` | The arithmetic of money as operators: price of a trip, average quoted, split of a price |
| `Finance` | EXTENDS `Fares`. Completion and settlement, balances and ledgers, payouts, platform invoices |
| `Earnings` | Abstract: what completion, settlement and payouts promise about the money of drivers and parks, without balances |
| `FinanceRefinement` | EXTENDS `Finance`, INSTANCEs `Earnings`: the refinement mapping |
| `Bookings` | EXTENDS `Fares`. A price from the estimate over the quote, the order and the driver's proposal to the charge, while tariffs change |
| `Scheduled` | Orders booked ahead and the worker that activates and expires them, beside orders placed at once |
| `Fleet` | Drivers of the parks: invitations, transfers, cars, shifts, what a park decides, and the orders that tie a driver to a park |
| `Sessions` | Sign-in with a code and rotation of refresh tokens, for users and passengers |
| `DispatchProofs` | Type correctness of the dispatch, safety of the order table, and the refinement of `Reservation` |
| `SearchProofs` | The mechanism in Redis: the accept lock, and the searches nobody drops |
| `Sums` | Sums over finite sets: the lemmas that `FinanceProofs` and `SessionsProofs` rest on |
| `FinanceProofs` | The safety properties of `Finance` and the refinement of `Earnings` |
| `BookingsProofs`, `ScheduledProofs`, `FleetProofs`, `SessionsProofs` | The safety properties of these modules |
| `MCDispatch`, `MCFinance`, `MCBookings`, `MCScheduled`, `MCFleet`, `MCSessions` | Model values, values of constants and symmetry for TLC |

The modules meet in the row of `orders`. `Dispatch` models it in full detail from
the search to the end of the trip. The other modules keep the columns their
question needs and summarise the rest of the life of an order by statements:
`Scheduled` and `Bookings` let dispatch assign or fail an order in one step,
`Fleet` also assigns it in one transaction on the driver's row, `Finance` begins
where `Dispatch` completes the trip. What a module so takes for granted of an
order (one driver at most, one order per driver) is what `Dispatch` and its
theorems show.

## 3. How the models correspond to the code

First the dispatch (`Orders`, `Dispatch`), then the other modules.

### Processes

A process is one goroutine of one instance. `Handlers` run HTTP requests,
`Dispatchers`, `Timers` and `Recoverers` are the loops `runDispatchWorker`,
`runOfferTimeoutWorker` and `runStaleOrderRecoveryWorker`. `job[p]` holds the
program counter and the local variables the process still needs: the order, the
driver, the task, and the drivers it has yet to save offers for. A step is one
transaction or one Redis operation. Requests that consist of one such operation
are actions without a process. Two neighbouring operations are one step where
nothing another process does can come between them to any effect (the timer
entry that goes with the last task, the delayed `lock.Release` after a failed
statement), and reads whose answer the following statement checks again are part
of that statement.

### State

| Variable | In the code |
|---|---|
| `ord[o]` | the row of `orders`: `status`, `driver_id`, `price_confirmation_state`, whether `price_confirmation_expires_at` has passed (`lapsed`), `declined_driver_ids` |
| `drv[d]` | `drivers.status` |
| `offer[o]`, `index[o]` | keys `order:<o>:driver:<d>:offer`; set `order:<o>:offers` |
| `dispatching` | keys `order:<o>:dispatching` |
| `lock[o]` | key `order:<o>:accept_lock`, with its holder |
| `queue` | the list the tasks are pushed to and popped from |
| `timeouts` | the sorted set `dispatch:timeouts` |
| `chains[o]`, `faults` | dispatches of an order and faults so far; they number tasks and bound the model |

### Actions

| Code | Actions |
|---|---|
| `CreatePassengerOrder` and the park's, then `EnqueueOrder` | `Submit`, `BeginDispatch`, `MarkSearching`, `Publish` |
| `ProcessTask` | `Consume`, `Search`, `SaveOffer` per driver, `Schedule`; `FailNoDriversFound`, `FinishDispatch` |
| `HandleOfferTimeout` | `TakeOfferTimeout`, `Sweep`, then `Publish` or `FailNoDriversFound`, `FinishDispatch` |
| `AcceptOffer` | `AcceptOffer`, `Assign`, `ArmConfirmation`, `MarkDriverBusy`, `ClearOffers`, `FinishDispatch` |
| `RejectOffer` | `RejectOffer` |
| `ConfirmOrderPrice` | `ConfirmOrderPrice` |
| `DeclineOrderPrice` | `DeclineOrderPrice`, `Release`, `RebeginDispatch`, `Republish` |
| `expirePriceConfirmation` (a timeout with attempt -1) | `TakeConfirmationTimeout`, then as a decline |
| `recoverSearchingOrders` | `RecoverExpired`, then as a decline; `RecoverSearch`, then as `EnqueueOrder` |
| `StopDispatch` after a cancellation by the park | `CancelByPark`, `ClearOffers`, `FinishDispatch` |
| `CancelPassengerOrder` | `CancelByPassenger` |
| the driver's requests on a trip | `MoveByDriver` |
| `markOnline`, `markOffline`, `MarkStaleDriversOffline` | `GoOnline`, `GoOffline`, `GoStale` |
| TTLs | `ExpireOffer`, `ExpireIndex`, `ExpireDispatching`, `ExpireLock`; the deadline of a price: `Lapse` |
| a Redis or PostgreSQL error; an instance dies | `IOError`, `Crash` |

### Abstractions

- *Time* is not measured. A TTL may run out and a timer may fall due at any
  moment, with two exceptions. A confirmation timer and the deadline it watches
  are the same instant (service.go:266-279), so the timer of the present
  reservation is due only when `lapsed`. The dispatching key (30 minutes) and
  the accept lock outlive the work they cover unless that work stalls; their
  expiry during the work is a fault.
- *Geography, tariffs, cars and ETAs*: `Search` finds any set of free online
  drivers; `Assign` may refuse for a reason outside the model.
- *RemoveOffers* and *SaveOffer* are several Redis commands and one step each.
  An offer saved between the commands of `RemoveOffers` survives, which the
  model shows already by an offer saved after it.
- *Events, logs and websocket messages* are left out; an error of one of them is
  an `IOError` at the step that precedes it.
- An order is inserted in `searching`, as passengers and parks do it. The
  status `created` is that of orders booked ahead (`Scheduled`).
- A crash gives back the processes as idle ones: the instance is started again
  by its supervisor. What Redis and PostgreSQL hold survives.

### The other modules

**Finance** (`finance/service.go`, `repository/finance_repository.go`,
`domain/finance.go`). PostgreSQL runs a transaction at READ COMMITTED: its
statements see what is committed, the rows it writes stay locked to the end, its
unique keys wait for, or fail on, what another one inserts, and `created_at` is
the time at which it began. A settlement is therefore a job of separate steps.

| Code | Model |
|---|---|
| completion by driver or park, then `SettleCompletedOrder` | `CompleteOrder`, `TakeSnapshot`, `BeginSettlement` |
| inserts and updates of `CreateOrderSettlement` | `PostSettlement`: waits for rows another settlement holds (`Holds`), answers with the row that is there if the unique keys were taken (`Conflicts`), and reads the latest rows of the ledgers (`LatestBalance`) |
| commit; the answer; any failure | `CommitSettlement`; `Answer`; `Fail` |
| `CreateDriverPayout`, `ApproveDriverPayout`, `MarkDriverPayoutPaid` | one step each, as they lock the balance first (`BalanceFree`) |
| `CreateTaxiParkPlatformInvoice` | `SumAccruals`, then `CreateTaxiParkPlatformInvoice`: the sum and the claim are two statements |
| `MarkAdminPlatformInvoicePaid` | `BeginInvoicePayment`, `PostInvoicePayment`, `MarkAdminPlatformInvoicePaid` |
| the park changes its commission | `UpdateTaxiParkDriverCommission` |

State: `status`, `settled`, `rate`, `balance`, `parkBalance`, `driverLedger` (a
sequence, in the order of commits), `ledger` (sets of rows with their time, as
nothing else orders them in the code), `payouts`, `invoices`, `clock`, `job`.

`Earnings` says what of this counts for a driver and a park: an order that is
completed earns once, at a commission the park may have set, and a payout is made
only out of what the driver has earned there and not been paid. It has no balance.
`FinanceRefinement` reads the orders completed, the settlements on record and the
payouts marked as paid off the state; that the balance the code compares a payout
with stands for earnings less payouts is what the refinement has to show.

**Fares** (`domain/trip_pricing.go`, `domain/finance.go`): operators in integers,
with the code's rounding, minimum, default rates and "no price" answers.

**Bookings** (`passenger/order_service.go`, `passenger_order_repository.go`,
`dispatch_order_repository.go`, tariffs of the park). A request is one statement
per step; tariffs change and other requests run in between.

| Code | Model |
|---|---|
| `EstimatePassengerOrder`, `SavePriceQuote` | the same names; any set of parks in `Reach` has free drivers |
| creation from a quote | `GetPriceQuote`, `CheckQuotedTerms` (the estimate of now), `CreatePassengerOrder` (consumes the quote, inserts the order) |
| acceptance by a driver | `GetCandidateFare`, `AssignDriver` (compares tariff and `updated_at` again) |
| consent, decline or expiry, cancellation, trip, completion | `ConfirmDriverPrice`, `ReleaseDriverReservation`, `CancelPassengerOrder`, `StartTrip`, `CompleteOrder` |
| changes of a tariff; the TTL of a quote | `UpdateTariff`; `QuoteExpires` |

The trip, its route, the class of the car and the fare mode stay the same.
`updated_at` is a count of changes.

**Scheduled** (`scheduled/`, `scheduled_order_repository.go`, the park's
scheduled orders). A round of the worker lists what is due (`ListDueOrderIDs`),
activates one order after the other (`ActivateOrder`), enqueues an active order
that has no driver (`EnqueueActivated`) and expires what is overdue, which reads
first and writes later (`ListOverdue`, `ExpirePendingOrders`). A round may fail at
any step (`RoundFails`) and the process may die (`Crash`). The park acts with
`CreateScheduledOrder`, `UpdateScheduledOrder`, `CancelScheduledOrder`; what
dispatch, passengers and drivers do to the same rows is `RideMoves`. One worker
is modelled; that several instances run one each is not covered.

**Fleet** (`driverinvite/`, `driver_park_invite_repository.go`,
`driver_mobile_repository.go`, the park's drivers and cars). A transaction that
takes the driver's row FOR UPDATE is a job of two steps, `...Begin` and the rest
with its commit; every statement on that row waits meanwhile (`Free`). Two
operations read without a lock and write later: `AttachBegin` with
`AssignCarToDriver`, and `OfflineBegin` with `MarkOffline`. `MarkDriverBusy` comes
late, after the transaction that assigned the order. A park's decisions are
`BlockDriver`, `UnblockDriver`, `VerifyDriver`, `ArchiveDriver`, `DetachCar` and
`SetParkActive`. The orders are summarised by creation, assignment, booking ahead,
activation, start and closing.

**Sessions** (`auth/`, `passenger/auth_service.go`, their repositories). A request
is a job of one statement per step: a code is invalidated, stored, checked,
counted as wrong or used, and only then a session opened; a refresh reads the
token and rotates it in a transaction that locks the row. Users and passengers
go through the same actions; where their statements differ the action says so
(`Consumable`). A user is looked up before the code is compared, a passenger
after it (`AdmitPassenger`): the wrong codes of a passenger who is blocked or not
yet created count too. A session is named by its first token.

## 4. The runs

| Run | Module | Instance | Properties | Shows |
|---|---|---|---|---|
| `dispatch_two_orders` | `MCDispatch` | a passenger's and a park's order, 1 driver who comes and goes, 2 handlers, dispatch and timeout loops, 1 radius, 1 dispatch each | `AcceptancesSerialised`, `OneActiveOrderPerDriver` | orders that compete for a driver: acceptances are serialised, and the driver never serves two |
| `dispatch_faults` | `MCDispatch` | 1 order, 1 driver, 2 handlers, both loops, 2 dispatches, all moves, one crash, error or early expiry anywhere | `TypeOK`, `ReservationConsistent`, `AgreementIsFinal`, `ImplementsReservation` | acceptance, confirmation, decline, expiry, cancellation and trip never mix up a row, also around a fault |
| `dispatch_live` | `MCDispatch` | 2 radii, 2 dispatches, fair, no faults | `NoLostSearch`, `SearchEnds`, `ReservationEnds` | tasks are dropped freely, never the last one; a search ends, and a lapsed reservation |
| `dispatch_recovery` | `MCDispatch` | a crash of both loops, recovery loop, 2 dispatches, fair | `LostSearchRecovered` | a popped task that dies with its process is replaced |
| `finance_settlement` | `MCFinance` | 3 orders (2 of a park, 1 of none), 2 drivers, 2 requests, 2 payouts, commissions of 0 and 10 % | `FinTypeOK`, `BooksBalance`, `AnswerIsOnRecord`, `DriverLedgerRuns`, `SettlementIsFinal`, `ImplementsEarnings` | repeated and concurrent settlements, payouts and failures: money appears once, and no payouts exceed what was earned |
| `finance_invoices` | `MCFinance` | 2 orders, 2 invoices, 3 periods that overlap, 2 requests | `NotOverbilled`, `BilledOnce` | no accrual is billed twice, no invoice asks for more than it claims |
| `bookings` | `MCBookings` | 1 passenger, 1 driver, 2 parks, 3 tariffs, 2 quotes, 2 orders, 2 requests, 1 change of a tariff | `BookTypeOK`, `QuoteIsSoldOnce`, `ChargedAsQuoted`, `AssignedAtCurrentFare` | stale quotes and fares never become orders or assignments, and the quoted price is charged |
| `scheduled` | `MCScheduled` | 2 orders, 2 passengers, 2 drivers, 4 instants, 1 change, 1 failed round or crash, fair | `SchedTypeOK`, `RidesAreSingle`, `NamedDriverServes`, `SchedulingIsFinal`, `LeavesSchedule` | a booking is activated once, for the driver named last, or ends; it does not wait for ever |
| `scheduled_slot` | `MCScheduled` | 1 passenger, 1 driver | `ClosedBookingFreesPassenger` (violated) | section 5 |
| `fleet` | `MCFleet` | 1 driver, 2 parks, a car of one, 1 order, 2 invitations, 2 transactions | `FleetTypeOK`, `ServesOwnPark`, `InvitesAreCurrent`, `HistoryIsAChain`, `AnsweredOnce` | transfers against orders, other invitations, shifts and decisions of the park |
| `fleet_cars` | `MCFleet` | the same | `OldCarsDetached` (violated) | section 5 |
| `sessions` | `MCSessions` | a user and a passenger, 3 tokens, 2 requests, 2 codes, 1 attempt | `SessTypeOK`, `OneLiveToken`, `CodeOpensOneSession`, `EndedStaysEnded` | concurrent uses of one code or token, and of a sign-out |

**Bounds.** Each is a constant of the module.

- *Dispatch*: `Attempts` radii, `MaxDrivers` offers at a time, `MaxChains` (no
  reservation ends in a new search once an order has had so many dispatches; 2
  lets the chains of two dispatches overlap, which is what the races between
  them need; 1 leaves releases out, where a run asks about acceptances),
  `MaxFaults` (1), `FaultKinds`, `Moves` (the statuses drivers ask for). One
  dispatch loop and one timer: a second one would only pop another task or
  another entry, and the handlers, the recovery loop and the other loop already
  interleave with it.
- *Finance*: `MaxClock` transactions take a time, 2 or 3, so that two of them
  can commit in the other order than they began; the amounts make every part of
  a split positive and the two commissions give different splits.
- *Bookings*: `MaxUpdates` 1: one change is what a quote, an estimate or a fare
  that was read earlier has to survive. Two tariffs of one park change places as
  its best, one of another park moves the average.
- *Scheduled*: the clock runs to 3 with activation one instant before and expiry
  one after the pick-up, so that an order can fall due, be missed in a round and
  become overdue; one change by the park and one failed round or crash.
- *Fleet*: two transactions at a time, which is what two requests on one driver
  need; two invitations are an accepted one and the one it must cancel.
- *Sessions*: three tokens, so that a session is rotated while its old token is
  used again; two codes, since a second one invalidates the first.

**Deadlock** is checked in the two finance runs, where a request can always be
repeated. The other systems may rest: every order is closed, nobody comes or
goes, the clock or the supply of codes and tokens has run out.

**Symmetry** is used for safety properties only, over things that are
interchangeable: handlers; requests, payouts and invoices; quotes, orders and
requests; invitations and transactions; tokens and requests.

**Fairness.** Two specifications state it.

`Dispatch!FairSpec`: the Go scheduler runs every runnable goroutine, so a process
inside a handler takes its next step (`WF`), and a dispatch loop that polls a
non-empty list pops it (`WF`). The timeout loop handles all due entries each
second and the recovery loop all listed orders each interval. Between two ticks
an entry may be rewritten and a listed order may change and change back, so
taking them is enabled again and again rather than continuously: `SF`, for each
order. Offers and locks in Redis expire (`WF`), dispatching keys too; `SF` for the
latter because an expiry that is no fault has to wait until the dispatch rests.
Nothing is assumed of people: no acceptance, answer, cancellation or trip move is
fair. `LostSearchRecovered` allows the recovery loop to have stopped: its first
error ends it (worker.go:119-121), and no instance restarts it.

`Scheduled!FairSpec`: the scheduled worker ticks as long as its process lives and
a round runs to its end or fails (`WF` of its steps), and time passes (`WF` of
`Tick`). Nothing else is fair: no passenger, park or driver need act, and the
driver whose ride stops the activation of the orders behind theirs may never
finish it. `LeavesSchedule` then holds because overdue orders expire.

**Mutants.** For each property of a passing run `PROJECT.json` names a plausible
slip in a statement or a handler that breaks it: a status missing from a WHERE, a
column not reset, a subquery or a row lock left out, a unique key dropped, a
balance read before it is credited, an interval with both ends, an attempt not
counted. The slips stand beside the definitions they replace
(`KeepDriver` beside `ReplaceDriver`, `TakeNothing` beside `Take`, ...).

## 5. Findings

Each is the only property of a run that TLC ends with a counterexample.

- **A cancelled booking keeps its passenger's slot** (`scheduled_slot`,
  `ClosedBookingFreesPassenger`). `CancelScheduledOrder`
  (taxi_park_settings_repository.go:807-816) and the expiry of pending bookings
  set `scheduled_status` and leave `status` at `created`. No later operation
  takes such a row further, and `idx_orders_one_active_per_passenger` counts it:
  the passenger is answered "passenger already has active order" for ever, and
  a driver named in the row cannot be transferred to another park.
- **A car stays with a driver who has left its park** (`fleet_cars`,
  `OldCarsDetached`). `AssignCarToDriver` checks without a lock that car and
  driver belong to the park (taxi_park_settings_repository.go:2825-2838) and
  inserts afterwards; a transfer that commits in between has already detached
  the cars it saw. `docs/driver-park-invites.md:42` says that it "detaches old
  park cars". An assignment of an order looks at the car's park again, which is
  why `ServesOwnPark` holds all the same.

Met while modelling, and not stated as properties because no line of the
repository promises otherwise or because the effect is benign:

- `releasePriceConfirmation` ignores whether `BeginDispatch` found the key set
  (service.go:420-425): two chains may search for one order, each with its own
  attempt. They end safely (`NoLostSearch`, `SearchEnds`), but either may fail
  the order while the other has radii left.
- An offer that is saved while another driver's acceptance removes the offers
  stays until it expires; accepting it is refused. The index of offers has the
  TTL of the offers and is normally gone when the timeout reads it, so drivers
  who did not answer are rarely excluded from the next attempt. A declined
  driver whose offer survived may take the order again.
- The recovery loop ends when it loses a race for a reservation (the loser's
  `ErrOfferNotAccepted` is an error like any other).
- The ledgers of park, fee and platform number their rows from the row that is
  latest by `created_at`, which is when a transaction began: the running
  balances of two concurrent ones may repeat, while their amounts stay right
  (`BooksBalance`).
- An invoice that is marked as paid twice is booked twice unless the debt would
  become negative. A commission of zero means the default of 1 %
  (domain/finance.go:92).
- A passenger's code is marked used unconditionally: of two requests that submit
  it together each opens a session. A user's code is claimed by a conditional
  statement, which `CodeOpensOneSession` is about.

## 6. The proofs

All theorems are about `Spec` of their module, for any values of the constants:
any sets of orders, drivers, parks, accounts and processes, any bounds and faults.
State predicates are shown to hold always, action properties of every step.

| Theorem | Property | What it establishes |
|---|---|---|
| `TypeCorrect` (`DispatchProofs`) | `TypeOK` | The state of dispatch is well typed in every behaviour, whatever the processes, orders, drivers and faults |
| `ReservationsConsistent` (`DispatchProofs`) | `ReservationConsistent` | Status, driver and price state of a row agree after every step of every handler, crash and expiry |
| `AgreementsFinal` (`DispatchProofs`) | `AgreementIsFinal` | No step takes the driver or the price of a confirmed reservation back |
| `DriversServeOneOrder` (`DispatchProofs`) | `OneActiveOrderPerDriver` | No driver ever serves two orders, however many orders, processes and instances there are and whether or not the accept locks hold |
| `DispatchImplementsReservation` (`DispatchProofs`) | `ImplementsReservation` | Every behaviour of dispatch is one of the abstract reservation under the refinement mapping |
| `LocksSerialise` (`SearchProofs`) | `AcceptancesSerialised` | However many processes accept an order at once, one at a time is between taking and releasing its lock, until something fails or the lock runs out |
| `SearchesCarried` (`SearchProofs`) | `NoLostSearch` | Until something fails, a search always has a task, a timer or a process that carries it on, whichever tasks are dropped |
| `SessionTypes` (`SessionsProofs`) | `SessTypeOK` | Accounts, tokens and codes are well typed and the wrong attempts of a code stay below the limit and the number of requests at work, which may all have read it before one is counted |
| `OneTokenWorks` (`SessionsProofs`) | `OneLiveToken` | However many requests rotate, repeat and revoke at once, of a session at most one refresh token works |
| `SessionsStayEnded` (`SessionsProofs`) | `EndedStaysEnded` | No request brings a session back whose tokens have all been revoked |
| `CodesOpenOneSession` (`SessionsProofs`) | `CodeOpensOneSession` | A code of a user opens one session, however many requests submit it |
| `BookTypeCorrect` (`BookingsProofs`) | `BookTypeOK` | Quotes, orders, tariffs and requests are well typed, a passenger has one open order at most and a driver serves one at most, for any parks and prices |
| `QuotesSoldOnce` (`BookingsProofs`) | `QuoteIsSoldOnce` | No two orders come from one quote, whatever the requests |
| `QuotedPriceCharged` (`BookingsProofs`) | `ChargedAsQuoted` | A completed order costs what its quote promised, whatever the park of its driver proposed in between |
| `CurrentFareAssigned` (`BookingsProofs`) | `AssignedAtCurrentFare` | A driver is assigned at the fare their park charges at that moment |
| `SchedTypeCorrect` (`ScheduledProofs`) | `SchedTypeOK` | Orders and the worker are well typed for any number of orders, passengers and drivers and any clock |
| `OneRideEach` (`ScheduledProofs`) | `RidesAreSingle` | No passenger has two open orders and no driver two rides, booked ahead or not |
| `NamedDriversServe` (`ScheduledProofs`) | `NamedDriverServes` | An activated booking is served by the driver named last |
| `SchedulingEnds` (`ScheduledProofs`) | `SchedulingIsFinal` | What has become of a booking is final; only an expiry that meets a cancellation overwrites it |
| `SettledOnce` (`FinanceProofs`) | `SettlementIsFinal` | Of all requests that settle an order one writes, and its settlement stays, whatever is repeated, fails or changes afterwards |
| `AnswersOnRecord` (`FinanceProofs`) | `AnswerIsOnRecord` | Every answer is the settlement on record, also that of a request whose own settlement came second |
| `FinanceTypes` (`FinanceProofs`) | `FinTypeOK` | Rows are well typed: commissions and fees are shares of what they are taken from, and no balance of a driver is ever negative |
| `BooksAlwaysBalance` (`FinanceProofs`) | `BooksBalance` | Every balance is the sum of the settlements less the payouts, and each ledger has booked each settlement once, for any orders, parks, commissions, requests and failures |
| `StatementsAddUp` (`FinanceProofs`) | `DriverLedgerRuns` | The lines of a driver's statement add up, in the order in which settlements and payouts commit |
| `NeverBilledTwice` (`FinanceProofs`) | `BilledOnce` | An accrual that an invoice has claimed stays with it |
| `NeverOverbilled` (`FinanceProofs`) | `NotOverbilled` | An invoice whose period no other invoice overlaps asks for no more than it has claimed, whatever commits between its sum and its claim |
| `FinanceImplementsEarnings` (`FinanceProofs`) | `ImplementsEarnings` | Every behaviour of finance is one of the abstract Earnings: an order earns once, when it is completed and at a commission of its park, and no payouts exceed what was earned |
| `LocksHeld` (`FleetProofs`) | - | What a transaction has read under the lock of a driver's row is true until it commits: the inductive invariant of the other theorems |
| `FleetTypeCorrect` (`FleetProofs`) | `FleetTypeOK` | Rows are well typed, a park's invitation to a driver is pending once, and a driver serves one order |
| `AnswersFinal` (`FleetProofs`) | `AnsweredOnce` | An invitation is answered once, whoever else answers, cancels or invites |
| `DriversServeOwnPark` (`FleetProofs`) | `ServesOwnPark` | No transfer, block, shift or assignment leaves an order that is not closed with a driver or car of another park |
| `InvitesCurrent` (`FleetProofs`) | `InvitesAreCurrent` | A pending invitation comes from the park its driver is in |
| `HistoriesAreChains` (`FleetProofs`) | `HistoryIsAChain` | The history of a driver is a chain of accepted invitations, each used once, from park to park up to the one they are in |

**Type correctness of the dispatch.** `TypeOK` is not inductive: `Publish` appends the task of a
process to the queue and `Assign` writes its driver into the row, and both are
in `TypeOK` even when they are null. `TypeInv` adds `JobsPrepared`: a process at
a step that uses its order, driver or task has one. The lemmas `StartTyped`,
`GotoTyped`, `DoneTyped` and `ErrorTyped` say so for the four ways a job
changes, and each group of actions has one lemma.

**The order table.** Everything else rests on `OrderSteps`: whichever process
or request takes a step, it writes at most one row, and by one of the nine
statements of `RowStep`, under that statement's own guard. The stores, locks and
queues disappear from the argument at this point, and so it is shown that
safety of the order table does not depend on them: not on the accept lock, not
on the dispatching key, not on a timer being handled once.

`RowInv` is `TypeInv` and `ReservationConsistent` for each row, extended to the
status `created`: `MarkOrderSearching` accepts such a row, and the new status
must not bring an older driver or price into a search. It is inductive because
each guard fixes the status its effect starts from and a move to a status of the
trip needs a confirmed price (`RowStepConsistent`). `AgreementsFinal` and the refinement follow from
`RowInv` by a case split on the nine statements. `OneActiveOrderPerDriver` is
inductive with `RowInv`: only `AssignDriver` makes a driver serve an order they
did not serve before (`NewlyServing`), and its guard says that they serve none.

**The refinement.** `EngagedDrivers` relates the abstract `Engaged` to
`Serves`; `StatementImplements` maps each statement to an action of
`Reservation` or to a stutter, and `StepImplements` all steps.

**The mechanism of dispatch.** `LocksSerialise` needs only `Guarded`: until
something fails, a process that has taken an order's lock and not released it
(`Inside`) is the one the lock names.

`SearchesCarried` has to say of every place where a task, a timer or a job is
dropped who else carries the search on, or why there is none. `SearchInv` adds two things to
`NoLostSearch` and `RowInv`. `TaskInv`: what stands for a search does carry a
task, with an attempt, and what handles a reservation carries the timer of its
confirmation and nothing else; so a task that is consumed as a timeout was not
the order's last. `Fresh`: an order that is not there has no dispatching key and
nobody about to begin it; so the process that inserts it finds no key and carries
its search, and one that finds the key set, and ends, was never the only one. Where a process drops its task because the order
has another status, `RowInv` shows that the order is then not searching; where a
statement brings an order back to searching, the process that does so goes on to
publish it.

**Bookings.** `BookingInv` adds to the types what requests have read and what
stays true of it: the row of a quote that was read keeps passenger and price
(`QuotesRead`), an order that was found is there (`OrdersRead`), and a fare that
was read is the tariff's as long as `updated_at` has not moved (`FaresRead`).
`Sold` says of each order that its quote names it, which carries both
`QuoteIsSoldOnce` and `ChargedAsQuoted`. `OneOrderEach`, the part of `BookTypeOK`
that says an order stands alone for its passenger and its driver, follows from
the types and `OrdersRead`: the two statements that give an order a passenger or
a driver test for others at the same instant (`CreatedAlone`, `AssignedAlone`),
and every other step leaves passengers and drivers what they had (`NobodyGains`).

**Scheduled.** Each step writes one row by one of the statements listed in
`Written`, or is the expiry of a round (`OrderSteps`). `Tracked` says what the
worker's list and the queue hold, and `DriversNamed` that an open row is held for
the driver named last; both are needed because the worker acts on a list that
was read before.

**Fleet.** `Held` is what the locks are for: a row has one holder and the holder
is at work on it (`Locked`), and what a transaction has read under the lock is
still true when it commits (`Current`). `DriversStep`, `InvitesStep` and
`OrdersStep` say what may become of a row of each table; `ServesOwnPark` and
`InvitesAreCurrent` follow from them with `Held`, and `Single` adds uniqueness
for `FleetTypeOK`. `Chained` is `HistoryIsAChain` with the cardinality spelled
out: an acceptance appends the one row that names its invitation (`ChainGrown`),
which no earlier row names because it was pending, and which starts at the park
of the last row because the transfer compares it with the row it holds; every
other step leaves the chains (`ChainKept`).

**Sums.** Balances are compared with sums over sets of orders, payouts and ledger
rows, written with `SumFunction` of the module `Functions`, a fold that picks the
elements in an order of its own. `Sums` shows what is needed of it: a sum grows by
the term that is added (`SumAdd`), whatever the order; sums over sets in
bijection are equal, and under an injection no larger (`SumBijection`,
`SumInjection`). These are inductions over finite sets. The library's induction
theorems take an operator, which the provers cannot instantiate; a *set* of
subsets does as well (`SubsetInduction`, `SetInduction`), by the minimal elements
of a well-founded relation (`WFMin`). A sum is unrolled to the recursive function
its definition chooses (`SumIsChosen`), and induction shows that the recursion has
a solution and any two agree.

**Finance: settlements.** `SettleInv` says of each request what it has computed and
what it holds. One that has posted its settlement holds the unique keys of its order
alone (`Keeps`): no settlement of the order is committed and no other request has
posted one, because `PostSettlement` waits for rows that are held and answers with
a row that is there. One that answers says what is on record. `CommitKeeps` shows
that a commit is therefore the first of its order. Computed amounts are whole
numbers and so never NULL (`TermsComputed`), whatever the rates.

**Finance: types and books.** `Known` is `SettleInv` with the types of the tables
(`Tables`) and of the requests (`Requests`), and with what sums need: only finitely
many orders are settled, payouts made and rows written, although the sets of
orders and payouts may be infinite. `Booked` says how ledgers and settlements
correspond: each settled order of a park has exactly one accrual in each ledger,
with the amount the settlement says, and there is no other accrual. It is
inductive because a commit is the first of its order, and a claim by an invoice
only changes the invoice of an accrual. `Credited` says that balances are sums of
settlements less payouts. `BooksBalance` follows from both: accruals and settled
orders of a park are in bijection (`AccrualsAddUp`).

`Stated` is `DriverLedgerRuns` for every driver and park together with the balance
being what the statement comes to: since the balance a transaction reads is locked
to its commit, the line it writes continues the statement.

**Finance: invoices.** `BilledOnce` needs `Known` alone: of the rows an invoice
touches it changes those without one. `NotOverbilled` has to relate the sum of an
invoice, taken by one statement, to the accruals claimed by a later one.
`Summed`: what a request has summed is no more than what all accruals of the period
amount to now, because accruals only become more (`AccrualsKept`). `Claimed`: an
accrual that is claimed lies in the period of the invoice that claims it. When the
invoice is inserted, each accrual of its period is then either claimed by it or
lies in the period of an earlier invoice as well, so that the periods overlap and
the property says nothing; afterwards claims stay with it (`ClaimedByGrows`).

**The refinement of Earnings.** `Earning` adds what requests know of the order
they settle: it is completed, and its price was split at a commission of its park.
`CommitImplements` then maps a commit to `Earn`. `PaymentImplements` maps a payout
that is marked as paid to `Pay`: the guard of the code compares the amount with the
balance, and by `Credited` the balance is what was earned less what was paid
(`SameSums` brings the sums of the abstract specification to those of the books).
Every other step completes an order or stutters.

**Sessions.** `SessionInv`: at most one live token per session, and the session
is named by a token that exists, so that a new session never meets an old one.
`CodesUsed`: the request that opens a session with a user's code has used it
alone. `SessTypeOK` bounds wrong attempts although the requests that count them
have all read the code before: `Counted` bounds the attempts counted together with
the requests that are still to count one, of which each has its place among the
processes (`CodeStepCounted`). A request to send a code keeps within `MaxCodes`
because the codes of one account are no more than those of all (`RoomForCode`).

**Assumptions.** The nulls are no members of the sets they complete; the four
kinds of dispatch processes are distinct where it matters and `Moves` are
statuses a driver may ask for; booked orders, tariffs, and the
accounts and processes of sign-in are finite where the model sums or counts them;
tariffs have terms and a strict rank within their park; an order
has a driver, a park or none, and a price that is no negative number, commissions
are basis points from 0 to 10000, and amounts of payouts are not negative. The `ASSUME`s are in the
modules and TLC evaluates them in the runs.

**Model-checked only.** Liveness under fairness (`SearchEnds`, `ReservationEnds`,
`LostSearchRecovered`, `LeavesSchedule`) is out of the prover's reach. Every safety
property a passing run checks is a theorem.

## 7. What is not modelled

Parts that are left out:

- transport, middleware, DTOs, websockets, metrics, audit and request logs:
  input, output and wiring; the handlers call the services one to one. The
  largest single file, `docs/docs.go` (14,824 lines), is a generated API
  description;
- routing, maps, geocoder and push: clients of external services, floating
  point, text;
- administration, legal texts and chat: CRUD or appending without an interaction;
- `internal/order`: transitions by version that `cmd/api` does not wire.

Left out of parts that are modelled:

- *dispatch*: the ranking of drivers, ETAs and events; several orders behind a
  bounded `Due`;
- *passenger orders*: lists and history, which are reads; a rating is answered as
  not implemented;
- *driver app*: points of the route, locations and presence;
- *taxi park*: creation and editing of drivers, cars, documents and staff,
  reports;
- *finance*: reports and documents;
- *authentication*: registration, cooldowns, password hashing, JWT, messengers;
- *fares*: the refusal of amounts beyond 64 bits, but for the sum that
  `Bookings` bounds by `MaxAmount`.

## 8. The plan

Done: the modules of section 2. What would add most next, in order:

1. Several orders behind a bounded `Due` in `Dispatch`, for timers that are
   retried for ever at the head of the set.
2. The summaries of the dispatch in `Bookings`, `Scheduled` and `Fleet` as
   implementations of `Reservation`, so that what they take for granted of an order
   is stated once.
3. Chat and the points of a route: participants and points against the life of the
   order, both written after a separate read of it.
