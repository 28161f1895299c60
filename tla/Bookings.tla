------------------------------ MODULE Bookings ------------------------------
(***************************************************************************)
(* Prices of a passenger's order, from the estimate to the charge: quotes, *)
(* the order a quote turns into, the fare a driver proposes, the           *)
(* passenger's consent to it and the price of the completed trip.          *)
(*                                                                         *)
(* A request is a sequence of statements, each atomic; tariffs change and  *)
(* other requests run in between.  The trip, its route, the car class and  *)
(* the fare mode are the same throughout.  Search and offers are those of  *)
(* Dispatch: here any driver may answer any order that searches.           *)
(***************************************************************************)
EXTENDS Fares

CONSTANTS
  Passenger, Driver, Park, Tariff, Order, Quote, Proc,
  None,           \* NULL
  DriverPark,     \* drivers.taxi_park_id
  TariffPark,     \* taxi_park_tariffs.taxi_park_id
  Priority,       \* and its rank: priority, then id
  TermsOf,        \* what each tariff charges at first
  OtherTerms,     \* and what its park may change it to
  Metres, Seconds, \* the route
  Reach,          \* the sets of parks that may have free drivers nearby
  MaxAmount,      \* the largest amount that 64 bits hold
  MaxUpdates      \* bound: changes of tariffs

\* A quote keeps the rates it was made of.
PriceQuote ==
  [passenger: Passenger, price: Nat, rates: SUBSET [tariff: Tariff, terms: FareTerms],
   expired: BOOLEAN, order: Order \union {None}]

Engaged == {"driver_assigned", "in_progress"}
Open == {"searching"} \union Engaged
Status == Open \union {"completed", "cancelled"}   \* cancelled stands for failed as well

PassengerOrder ==
  [passenger: Passenger, quote: Quote, status: Status, price: Nat,
   driver: Driver \union {None}, tariff: Tariff \union {None},
   confirmed: BOOLEAN, proposed: Nat, final: Nat \union {None}]

ASSUME BookingsAssumption ==
  /\ None \notin Order \union Driver \union Tariff \union PriceQuote \union PassengerOrder
  /\ DriverPark \in [Driver -> Park]
  /\ TariffPark \in [Tariff -> Park]
  /\ Priority \in [Tariff -> Nat]
  /\ \A t, u \in Tariff : TariffPark[t] = TariffPark[u] /\ Priority[t] = Priority[u] => t = u
  /\ IsFiniteSet(Tariff)
  /\ TermsOf \in [Tariff -> FareTerms]
  /\ \A t \in Tariff : OtherTerms[t] \subseteq FareTerms
  /\ Reach \subseteq SUBSET Park
  /\ Metres \in Nat /\ Seconds \in Nat /\ MaxAmount \in Nat /\ MaxUpdates \in Nat

VARIABLES
  tariffs,  \* taxi_park_tariffs: terms, is_active and updated_at, as a count
  quotes,   \* passenger_price_quotes
  orders,   \* orders
  job       \* what each request has read, and what it does next

vars == <<tariffs, quotes, orders, job>>

Idle == [pc |-> "idle"]

Request ==
  {Idle}
  \union [pc: {"estimated"}, passenger: Passenger,
          estimate: [price: Nat, rates: SUBSET [tariff: Tariff, terms: FareTerms]]]
  \union [pc: {"quoted", "ordering"}, quote: Quote, row: PriceQuote]
  \union [pc: {"accepting"}, order: Order, driver: Driver, tariff: Tariff, updated: Nat, price: Nat]

Answer(p) == job' = [job EXCEPT ![p] = Idle]

Updates == LET Count(t, n) == n + tariffs[t].updated IN FoldSet(Count, 0, Tariff)

\* Rows and requests have the shape the code gives them; an order that searches
\* keeps nothing of a driver who had it, however a decline meets a confirmation.
RowsTyped ==
  /\ tariffs \in [Tariff -> [terms: FareTerms, active: BOOLEAN, updated: Nat]]
  /\ quotes \in [Quote -> PriceQuote \union {None}]
  /\ orders \in [Order -> PassengerOrder \union {None}]
  /\ \A o \in Order : orders[o] # None /\ orders[o].status = "searching" =>
       orders[o].driver = None /\ ~orders[o].confirmed
  /\ job \in [Proc -> Request]

OpenFor(u, o) == orders[o] # None /\ orders[o].passenger = u /\ orders[o].status \in Open
Serves(d, o) == orders[o] # None /\ orders[o].driver = d /\ orders[o].status \in Engaged

\* A passenger has one open order and a driver serves one, although requests
\* read quotes and orders in statements before the one that writes.
OneOrderEach ==
  /\ \A u \in Passenger, o, e \in Order : OpenFor(u, o) /\ OpenFor(u, e) => o = e
  /\ \A d \in Driver, o, e \in Order : Serves(d, o) /\ Serves(d, e) => o = e

\* The tables are well formed: rows have their columns' values, and the orders of
\* one passenger and of one driver exclude each other (CreatePassengerOrder and
\* AssignDriver of the repositories).
BookTypeOK == RowsTyped /\ OneOrderEach

Init ==
  /\ tariffs = [t \in Tariff |-> [terms |-> TermsOf[t], active |-> TRUE, updated |-> 0]]
  /\ quotes = [q \in Quote |-> None]
  /\ orders = [o \in Order |-> None]
  /\ job = [p \in Proc |-> Idle]

-----------------------------------------------------------------------------
(* Tariffs and estimates.                                                  *)

\* The active tariff of highest rank of a park, as every query orders them.
IsBest(t, k) ==
  /\ TariffPark[t] = k /\ tariffs[t].active
  /\ \A u \in Tariff : TariffPark[u] = k /\ tariffs[u].active => Priority[u] <= Priority[t]

PriceOf(t) == CalculateTripPrice(tariffs[t].terms, Metres, Seconds)

\* A park changes what a tariff charges, withdraws it or restores it.
UpdateTariff(t, terms, active) ==
  /\ Updates < MaxUpdates
  /\ tariffs' = [tariffs EXCEPT ![t] =
                   [terms |-> terms, active |-> active, updated |-> @.updated + 1]]
  /\ UNCHANGED <<quotes, orders, job>>

\* The parks with free drivers nearby, each with its best tariff.
Available(near) == {t \in Tariff : IsBest(t, TariffPark[t]) /\ TariffPark[t] \in near}

Priced(near) == {t \in Available(near) : PriceOf(t) > 0}

TotalPrice(near) == LET Add(t, sum) == sum + PriceOf(t) IN FoldSet(Add, 0, Priced(near))

\* There are prices to average, and their sum does not overflow.
PriceAvailable(near) == Priced(near) # {} /\ TotalPrice(near) \in 1..MaxAmount

EstimatedPrice(near) == AveragePrice(TotalPrice(near), Cardinality(Priced(near)))

\* The terms a quote is made of: the average and the rates it averages.
Estimate(near) ==
  [price |-> EstimatedPrice(near),
   rates |-> {[tariff |-> t, terms |-> tariffs[t].terms] : t \in Priced(near)}]

\* Which drivers are near changes from one request to the next.
EstimatePassengerOrder(p, u, near) ==
  /\ job[p] = Idle
  /\ PriceAvailable(near)
  /\ job' = [job EXCEPT ![p] = [pc |-> "estimated", passenger |-> u,
                                estimate |-> Estimate(near)]]
  /\ UNCHANGED <<tariffs, quotes, orders>>

SavePriceQuote(p, q) ==
  /\ job[p].pc = "estimated"
  /\ quotes[q] = None
  /\ quotes' = [quotes EXCEPT ![q] =
                  [passenger |-> job[p].passenger, price |-> job[p].estimate.price,
                   rates |-> job[p].estimate.rates, expired |-> FALSE, order |-> None]]
  /\ Answer(p)
  /\ UNCHANGED <<tariffs, orders>>

\* Two minutes pass.  Of a quote that was consumed it does not matter.
QuoteExpires(q) ==
  /\ quotes[q] # None /\ ~quotes[q].expired /\ quotes[q].order = None
  /\ quotes' = [quotes EXCEPT ![q].expired = TRUE]
  /\ UNCHANGED <<tariffs, orders, job>>

-----------------------------------------------------------------------------
(* An order from a quote.                                                  *)

GetPriceQuote(p, q) ==
  /\ job[p] = Idle
  /\ quotes[q] # None
  /\ job' = [job EXCEPT ![p] = [pc |-> "quoted", quote |-> q, row |-> quotes[q]]]
  /\ UNCHANGED <<tariffs, quotes, orders>>

QuoteStale(row) == row.order # None \/ row.expired

SameQuotedTerms(row, estimate) == [price |-> row.price, rates |-> row.rates] = estimate

\* The estimate is made again.  When there is none the request ends; when the
\* terms have changed the passenger is answered a new quote.
CheckQuotedTerms(p, near) ==
  /\ job[p].pc = "quoted"
  /\ LET row == job[p].row
     IN \/ /\ ~PriceAvailable(near)
           /\ Answer(p)
        \/ /\ PriceAvailable(near)
           /\ QuoteStale(row) \/ ~SameQuotedTerms(row, Estimate(near))
           /\ job' = [job EXCEPT ![p] = [pc |-> "estimated", passenger |-> row.passenger,
                                         estimate |-> Estimate(near)]]
        \/ /\ PriceAvailable(near)
           /\ ~QuoteStale(row) /\ SameQuotedTerms(row, Estimate(near))
           /\ job' = [job EXCEPT ![p] = [pc |-> "ordering", quote |-> job[p].quote, row |-> row]]
  /\ UNCHANGED <<tariffs, quotes, orders>>

\* The partial unique index on passenger_id.
HasActiveOrder(u) == \E o \in Order : OpenFor(u, o)

\* As UPDATE passenger_price_quotes without consumed_order_id IS NULL.
UnexpiredQuote(q) == ~quotes[q].expired

\* WHERE consumed_order_id IS NULL AND expires_at > now()
UsableQuote(q) == quotes[q].order = None /\ ~quotes[q].expired

\* One transaction inserts the order and consumes the quote.
CreatePassengerOrder(p, o) ==
  /\ job[p].pc = "ordering"
  /\ orders[o] = None
  /\ LET q == job[p].quote
         row == job[p].row
     IN IF HasActiveOrder(row.passenger) \/ ~UsableQuote(q)
        THEN UNCHANGED <<quotes, orders>>
        ELSE /\ orders' = [orders EXCEPT ![o] =
                             [passenger |-> row.passenger, quote |-> q, status |-> "searching",
                              price |-> row.price, driver |-> None, tariff |-> None,
                              confirmed |-> FALSE, proposed |-> 0, final |-> None]]
             /\ quotes' = [quotes EXCEPT ![q].order = o]
  /\ Answer(p)
  /\ UNCHANGED tariffs

-----------------------------------------------------------------------------
(* The fare of a driver and the consent of the passenger.                  *)

\* A driver accepts: what the park charges is read before the order is taken.
GetCandidateFare(p, o, d) ==
  /\ job[p] = Idle
  /\ orders[o] # None /\ orders[o].status = "searching"
  /\ \E t \in Tariff :
       /\ IsBest(t, DriverPark[d]) /\ PriceOf(t) > 0
       /\ job' = [job EXCEPT ![p] = [pc |-> "accepting", order |-> o, driver |-> d, tariff |-> t,
                                     updated |-> tariffs[t].updated, price |-> PriceOf(t)]]
  /\ UNCHANGED <<tariffs, quotes, orders>>

DriverFree(d) == \A o \in Order : ~Serves(d, o)

\* As the EXISTS subquery without tariff.updated_at = $5.
FareIsBest(fare) == IsBest(fare.tariff, DriverPark[fare.driver])

\* The fare that was read is still that of the park's best tariff.
FareStands(fare) ==
  /\ IsBest(fare.tariff, DriverPark[fare.driver])
  /\ tariffs[fare.tariff].updated = fare.updated

AssignDriver(p) ==
  /\ job[p].pc = "accepting"
  /\ LET fare == job[p]
     IN IF orders[fare.order].status = "searching" /\ DriverFree(fare.driver) /\ FareStands(fare)
        THEN orders' = [orders EXCEPT ![fare.order] =
               [@ EXCEPT !.status = "driver_assigned", !.driver = fare.driver,
                         !.tariff = fare.tariff, !.proposed = fare.price, !.confirmed = FALSE]]
        ELSE UNCHANGED orders
  /\ Answer(p)
  /\ UNCHANGED <<tariffs, quotes>>

\* Without price_confirmation_state = 'pending'.
AnyReservation(o) == orders[o] # None /\ orders[o].status = "driver_assigned"

Pending(o) == orders[o] # None /\ orders[o].status = "driver_assigned" /\ ~orders[o].confirmed

\* The passenger agrees to the price that is pending, whichever it is: the
\* request names the order alone.
ConfirmDriverPrice(o) ==
  /\ Pending(o)
  /\ orders' = [orders EXCEPT ![o].confirmed = TRUE]
  /\ UNCHANGED <<tariffs, quotes, job>>

\* The passenger declines, or the time to answer is over.
ReleaseDriverReservation(o) ==
  /\ Pending(o)
  /\ orders' = [orders EXCEPT ![o] =
                  [@ EXCEPT !.status = "searching", !.driver = None, !.tariff = None,
                            !.proposed = 0]]
  /\ UNCHANGED <<tariffs, quotes, job>>

-----------------------------------------------------------------------------
(* The end of an order.                                                    *)

\* The passenger cancels, or the search fails.
CancelPassengerOrder(o) ==
  /\ orders[o] # None /\ orders[o].status \in {"searching", "driver_assigned"}
  /\ orders' = [orders EXCEPT ![o].status = "cancelled"]
  /\ UNCHANGED <<tariffs, quotes, job>>

\* The driver arrives and the trip starts, once the price is agreed.
StartTrip(o) ==
  /\ orders[o] # None /\ orders[o].status = "driver_assigned" /\ orders[o].confirmed
  /\ orders' = [orders EXCEPT ![o].status = "in_progress"]
  /\ UNCHANGED <<tariffs, quotes, job>>

\* The fare of the driver's park instead of the price of the order.
ProposedPrice(row) == row.proposed

\* COALESCE(final_price, estimated_price)
InitialOrderPrice(row) == IF row.final # None THEN row.final ELSE row.price

CompleteOrder(o) ==
  /\ orders[o] # None /\ orders[o].status \in {"in_progress", "completed"}
  /\ orders' = [orders EXCEPT ![o] = [@ EXCEPT !.status = "completed",
                                                    !.final = InitialOrderPrice(orders[o])]]
  /\ UNCHANGED <<tariffs, quotes, job>>

-----------------------------------------------------------------------------

Next ==
  \/ \E t \in Tariff, active \in BOOLEAN : \E terms \in OtherTerms[t] : UpdateTariff(t, terms, active)
  \/ \E q \in Quote : QuoteExpires(q)
  \/ \E p \in Proc :
       \/ \E u \in Passenger, near \in Reach : EstimatePassengerOrder(p, u, near)
       \/ \E q \in Quote : SavePriceQuote(p, q) \/ GetPriceQuote(p, q)
       \/ \E near \in Reach : CheckQuotedTerms(p, near)
       \/ \E o \in Order : CreatePassengerOrder(p, o)
       \/ \E o \in Order, d \in Driver : GetCandidateFare(p, o, d)
       \/ AssignDriver(p)
  \/ \E o \in Order :
       \/ ConfirmDriverPrice(o)
       \/ ReleaseDriverReservation(o)
       \/ CancelPassengerOrder(o)
       \/ StartTrip(o)
       \/ CompleteOrder(o)

Spec == Init /\ [][Next]_vars

-----------------------------------------------------------------------------
(* Properties.                                                             *)

\* A quote is sold once: every order consumed a quote of its passenger that no
\* other order consumed, and bears its price, however requests that read the
\* same quote interleave (GetPriceQuote and CreatePassengerOrder of the
\* passenger order repository).
QuoteIsSoldOnce ==
  \A o \in Order : orders[o] # None =>
    LET quote == quotes[orders[o].quote]
    IN quote.order = o /\ quote.passenger = orders[o].passenger /\ quote.price = orders[o].price

\* A driver is assigned at the fare their park charges at that moment, although
\* the fare was read in an earlier statement (GetCandidateFare, AssignDriver).
AssignedAtCurrentFare ==
  [][\A o \in Order :
       orders[o] # None /\ orders[o].driver = None /\ orders'[o].driver # None =>
         LET t == orders'[o].tariff
         IN IsBest(t, DriverPark[orders'[o].driver]) /\ orders'[o].proposed = PriceOf(t)]_vars

\* A completed order is charged what its quote promised, whatever the driver's
\* park proposed in between (initialOrderPrice of the driver app repository).
ChargedAsQuoted ==
  \A o \in Order : orders[o] # None /\ orders[o].status = "completed" =>
    orders[o].final = quotes[orders[o].quote].price
=============================================================================
