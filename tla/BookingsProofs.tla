--------------------------- MODULE BookingsProofs ---------------------------
(***************************************************************************)
(* What is proved of quotes, fares and charges, for any number of          *)
(* passengers, requests, tariffs and orders.                               *)
(***************************************************************************)
EXTENDS Bookings, FiniteSetTheorems, TLAPS

-----------------------------------------------------------------------------
(* Amounts.                                                                *)

\* A price that was calculated is an amount.
LEMMA PriceIsAmount ==
  ASSUME NEW terms \in FareTerms, NEW metres \in Nat, NEW seconds \in Nat
  PROVE  CalculateTripPrice(terms, metres, seconds) \in Nat
  <1>1. \A m, s \in Nat : MeasuredPrice(terms, m, s) \in Nat
    <2>. SUFFICES ASSUME NEW m \in Nat, NEW s \in Nat
                  PROVE  MeasuredPrice(terms, m, s) \in Nat
      OBVIOUS
    <2>. DEFINE byDistance == (m * terms.perKm + 500) \div 1000
                byTime == (s + 59) \div 60
    <2>1. terms.perKm \in Nat /\ terms.perMinute \in Nat /\ terms.base \in Nat /\ terms.minimum \in Nat
      BY DEF FareTerms
    <2>2. m * terms.perKm \in Nat
      BY <2>1
    <2>3. byDistance \in Nat /\ byTime \in Nat
      BY <2>2
    <2>. HIDE DEF byDistance, byTime
    <2>4. byTime * terms.perMinute \in Nat
      BY <2>1, <2>3
    <2>5. terms.base + byDistance + byTime * terms.perMinute \in Nat
      BY <2>1, <2>3, <2>4
    <2>. QED  BY <2>1, <2>5 DEF MeasuredPrice, AtLeast, byDistance, byTime
  <1>2. terms.fixed \in Nat /\ terms.minimum \in Nat /\ terms.mode \in PricingMode
    BY DEF FareTerms
  <1>. QED  BY <1>1, <1>2 DEF CalculateTripPrice, AtLeast, NoPrice, PricingMode

\* The average of an amount is an amount.
LEMMA AverageIsAmount ==
  ASSUME NEW total \in Nat, NEW count \in Nat \ {0}
  PROVE  AveragePrice(total, count) \in Nat
  <1>1. total \div count \in Nat /\ total % count \in Nat /\ count \div 2 \in Nat
    OBVIOUS
  <1>2. \A n \in Nat : n \div count \in Nat
    OBVIOUS
  <1>. QED  BY <1>1, <1>2 DEF AveragePrice

-----------------------------------------------------------------------------
(* Types.                                                                  *)

LEMMA NoneIsNoRow ==
  /\ None \notin Order /\ None \notin Driver /\ None \notin Tariff
  /\ None \notin PriceQuote /\ None \notin PassengerOrder
  BY BookingsAssumption

\* An estimate that is available is the price and the rates of a quote.
LEMMA EstimateTyped ==
  ASSUME RowsTyped, NEW near, PriceAvailable(near)
  PROVE  Estimate(near) \in [price: Nat, rates: SUBSET [tariff: Tariff, terms: FareTerms]]
  <1>1. Priced(near) \subseteq Tariff
    BY DEF Priced, Available
  <1>2. Cardinality(Priced(near)) \in Nat \ {0}
    BY <1>1, FS_Subset, FS_CardinalityType, FS_EmptySet, BookingsAssumption DEF PriceAvailable
  <1>3. TotalPrice(near) \in Nat
    BY BookingsAssumption DEF PriceAvailable
  <1>4. EstimatedPrice(near) \in Nat
    BY <1>2, <1>3, AverageIsAmount DEF EstimatedPrice
  <1>5. \A t \in Priced(near) : tariffs[t].terms \in FareTerms
    BY <1>1 DEF RowsTyped
  <1>. QED  BY <1>1, <1>4, <1>5 DEF Estimate

\* What a park charges for the route is an amount.
LEMMA FareTyped ==
  ASSUME RowsTyped, NEW t \in Tariff
  PROVE  PriceOf(t) \in Nat
  BY PriceIsAmount, BookingsAssumption DEF RowsTyped, PriceOf

LEMMA RowsTypedInit == Init => RowsTyped
  BY BookingsAssumption DEF Init, RowsTyped, Request, Idle

\* What a request has read of a quote is still true of it, but for its order
\* and its time.
QuotesRead ==
  \A p \in Proc : job[p].pc \in {"quoted", "ordering"} =>
    LET quote == quotes[job[p].quote]
    IN quote # None /\ quote.passenger = job[p].row.passenger /\ quote.price = job[p].row.price

\* A request that accepts an order has found it, and orders are not deleted.
OrdersRead == \A p \in Proc : job[p].pc = "accepting" => orders[job[p].order] # None

\* A row is replaced by another.
LEMMA OrderWritten ==
  ASSUME RowsTyped, NEW o \in Order, NEW row \in PassengerOrder,
         row.status = "searching" => row.driver = None /\ ~row.confirmed,
         orders' = [orders EXCEPT ![o] = row],
         tariffs' = tariffs, quotes' \in [Quote -> PriceQuote \union {None}], job' \in [Proc -> Request]
  PROVE  RowsTyped'
  BY DEF RowsTyped

\* An order that changes status, and its driver with it, stays an order.
LEMMA OrderChanged ==
  ASSUME NEW row \in PassengerOrder
  PROVE  /\ \A s \in Status : [row EXCEPT !.status = s] \in PassengerOrder
         /\ [row EXCEPT !.confirmed = TRUE] \in PassengerOrder
         /\ [row EXCEPT !.status = "searching", !.driver = None, !.tariff = None, !.proposed = 0] \in PassengerOrder
         /\ [row EXCEPT !.status = "completed", !.final = InitialOrderPrice(row)] \in PassengerOrder
         /\ \A d \in Driver, t \in Tariff, n \in Nat :
              [row EXCEPT !.status = "driver_assigned", !.driver = d, !.tariff = t, !.proposed = n,
                          !.confirmed = FALSE] \in PassengerOrder
  BY DEF PassengerOrder, Status, Open, Engaged, InitialOrderPrice

LEMMA RowsTypedStep ==
  ASSUME RowsTyped, QuotesRead, OrdersRead, [Next]_vars
  PROVE  RowsTyped'
  <1>. USE DEF RowsTyped
  <1>1. CASE UNCHANGED vars
    BY <1>1 DEF vars
  <1>2. ASSUME NEW t \in Tariff, NEW active \in BOOLEAN, NEW terms \in OtherTerms[t],
               UpdateTariff(t, terms, active)
        PROVE  RowsTyped'
    <2>1. terms \in FareTerms
      BY <1>2, BookingsAssumption
    <2>. QED  BY <1>2, <2>1 DEF UpdateTariff
  <1>3. ASSUME NEW q \in Quote, QuoteExpires(q) PROVE RowsTyped'
    <2>1. quotes[q] \in PriceQuote
      BY <1>3 DEF QuoteExpires
    <2>2. [quotes[q] EXCEPT !.expired = TRUE] \in PriceQuote
      BY <2>1 DEF PriceQuote
    <2>. QED  BY <1>3, <2>2 DEF QuoteExpires
  <1>4. ASSUME NEW p \in Proc, NEW u \in Passenger, NEW near \in Reach,
               EstimatePassengerOrder(p, u, near)
        PROVE  RowsTyped'
    <2>1. Estimate(near) \in [price: Nat, rates: SUBSET [tariff: Tariff, terms: FareTerms]]
      BY <1>4, EstimateTyped DEF EstimatePassengerOrder
    <2>. QED  BY <1>4, <2>1 DEF EstimatePassengerOrder, Request
  <1>5. ASSUME NEW p \in Proc, NEW q \in Quote, SavePriceQuote(p, q) PROVE RowsTyped'
    <2>1. job[p].passenger \in Passenger /\ job[p].estimate.price \in Nat
          /\ job[p].estimate.rates \in SUBSET [tariff: Tariff, terms: FareTerms]
      BY <1>5 DEF SavePriceQuote, Request, Idle
    <2>2. quotes' \in [Quote -> PriceQuote \union {None}]
      BY <1>5, <2>1 DEF SavePriceQuote, PriceQuote
    <2>3. job' \in [Proc -> Request]
      BY <1>5 DEF SavePriceQuote, Answer, Request
    <2>. QED  BY <1>5, <2>2, <2>3 DEF SavePriceQuote
  <1>6. ASSUME NEW p \in Proc, NEW q \in Quote, GetPriceQuote(p, q) PROVE RowsTyped'
    BY <1>6 DEF GetPriceQuote, Request
  <1>7. ASSUME NEW p \in Proc, NEW near \in Reach, CheckQuotedTerms(p, near) PROVE RowsTyped'
    <2>1. job[p].row \in PriceQuote /\ job[p].quote \in Quote
      BY <1>7 DEF CheckQuotedTerms, Request, Idle
    <2>2. PriceAvailable(near) =>
            Estimate(near) \in [price: Nat, rates: SUBSET [tariff: Tariff, terms: FareTerms]]
      BY EstimateTyped
    <2>3. job[p].row.passenger \in Passenger
      BY <2>1 DEF PriceQuote
    <2>4. job' \in [Proc -> Request]
      <3>1. CASE Answer(p)
        BY <3>1 DEF Answer, Request
      <3>2. CASE PriceAvailable(near) /\
                 job' = [job EXCEPT ![p] = [pc |-> "estimated", passenger |-> job[p].row.passenger,
                                            estimate |-> Estimate(near)]]
        BY <3>2, <2>2, <2>3 DEF Request
      <3>3. CASE job' = [job EXCEPT ![p] = [pc |-> "ordering", quote |-> job[p].quote, row |-> job[p].row]]
        BY <3>3, <2>1 DEF Request
      <3>. QED  BY <1>7, <3>1, <3>2, <3>3 DEF CheckQuotedTerms
    <2>. QED  BY <1>7, <2>4 DEF CheckQuotedTerms
  <1>8. ASSUME NEW p \in Proc, NEW o \in Order, CreatePassengerOrder(p, o) PROVE RowsTyped'
    <2>1. job[p].row \in PriceQuote /\ job[p].quote \in Quote
      BY <1>8 DEF CreatePassengerOrder, Request, Idle
    <2>2. job[p].row.passenger \in Passenger /\ job[p].row.price \in Nat
      BY <2>1 DEF PriceQuote
    <2>3. job' \in [Proc -> Request]
      BY <1>8 DEF CreatePassengerOrder, Answer, Request
    <2>4. CASE UNCHANGED <<quotes, orders>>
      BY <1>8, <2>3, <2>4 DEF CreatePassengerOrder
    <2>5. CASE ~UNCHANGED <<quotes, orders>>
      <3>. DEFINE row == [passenger |-> job[p].row.passenger, quote |-> job[p].quote,
                          status |-> "searching", price |-> job[p].row.price, driver |-> None,
                          tariff |-> None, confirmed |-> FALSE, proposed |-> 0, final |-> None]
      <3>1. row \in PassengerOrder
        BY <2>1, <2>2 DEF PassengerOrder, Status, Open
      <3>2. row.driver = None /\ row.confirmed = FALSE
        OBVIOUS
      <3>3. orders' = [orders EXCEPT ![o] = row] /\ quotes' = [quotes EXCEPT ![job[p].quote].order = o]
        BY <1>8, <2>5 DEF CreatePassengerOrder
      <3>. HIDE DEF row
      <3>4. orders' \in [Order -> PassengerOrder \union {None}]
        BY <3>1, <3>3
      <3>5. \A x \in Order : orders'[x] # None /\ orders'[x].status = "searching" =>
              orders'[x].driver = None /\ ~orders'[x].confirmed
        BY <3>2, <3>3
      <3>6. quotes[job[p].quote] \in PriceQuote
        BY <1>8, <2>1 DEF CreatePassengerOrder, QuotesRead
      <3>7. [quotes[job[p].quote] EXCEPT !.order = o] \in PriceQuote
        BY <3>6 DEF PriceQuote
      <3>8. quotes' \in [Quote -> PriceQuote \union {None}]
        BY <2>1, <3>3, <3>7
      <3>. QED  BY <1>8, <2>3, <3>4, <3>5, <3>8 DEF CreatePassengerOrder
    <2>. QED  BY <2>4, <2>5
  <1>9. ASSUME NEW p \in Proc, NEW o \in Order, NEW d \in Driver, GetCandidateFare(p, o, d)
        PROVE  RowsTyped'
    BY <1>9, FareTyped DEF GetCandidateFare, Request
  <1>10. ASSUME NEW p \in Proc, AssignDriver(p) PROVE RowsTyped'
    <2>1. job[p].order \in Order /\ job[p].driver \in Driver /\ job[p].tariff \in Tariff
          /\ job[p].price \in Nat
      BY <1>10 DEF AssignDriver, Request, Idle
    <2>2. job' \in [Proc -> Request]
      BY <1>10 DEF AssignDriver, Answer, Request
    <2>3. CASE UNCHANGED orders
      BY <1>10, <2>2, <2>3 DEF AssignDriver
    <2>4. CASE ~UNCHANGED orders
      <3>. DEFINE old == orders[job[p].order]
                  row == [old EXCEPT !.status = "driver_assigned", !.driver = job[p].driver,
                                     !.tariff = job[p].tariff, !.proposed = job[p].price, !.confirmed = FALSE]
      <3>1. old \in PassengerOrder
        BY <1>10, <2>1, <2>4 DEF AssignDriver, OrdersRead
      <3>2. row \in PassengerOrder
        BY <2>1, <3>1, OrderChanged
      <3>3. row.status = "driver_assigned"
        BY <3>1 DEF PassengerOrder
      <3>4. orders' = [orders EXCEPT ![job[p].order] = row]
        BY <1>10, <2>4 DEF AssignDriver
      <3>. HIDE DEF row
      <3>. QED  BY <1>10, <2>1, <2>2, <3>2, <3>3, <3>4, OrderWritten DEF AssignDriver
    <2>. QED  BY <2>3, <2>4
  <1>11. ASSUME NEW o \in Order,
                \/ ConfirmDriverPrice(o) \/ ReleaseDriverReservation(o)
                \/ CancelPassengerOrder(o) \/ StartTrip(o) \/ CompleteOrder(o)
         PROVE  RowsTyped'
    <2>. DEFINE old == orders[o]
    <2>1. old \in PassengerOrder
      BY <1>11 DEF ConfirmDriverPrice, ReleaseDriverReservation, CancelPassengerOrder, StartTrip, CompleteOrder, Pending
    <2>2. UNCHANGED <<tariffs, quotes, job>>
      BY <1>11 DEF ConfirmDriverPrice, ReleaseDriverReservation, CancelPassengerOrder, StartTrip, CompleteOrder
    <2>3. \E row \in PassengerOrder :
            /\ row.status = "searching" => row.driver = None /\ ~row.confirmed
            /\ orders' = [orders EXCEPT ![o] = row]
      <3>1. CASE ConfirmDriverPrice(o)
        <4>1. orders' = [orders EXCEPT ![o] = [old EXCEPT !.confirmed = TRUE]] /\ old.status = "driver_assigned"
          BY <3>1 DEF ConfirmDriverPrice, Pending
        <4>2. [old EXCEPT !.confirmed = TRUE].status = "driver_assigned"
          BY <2>1, <4>1 DEF PassengerOrder
        <4>. QED  BY <2>1, <4>1, <4>2, OrderChanged
      <3>2. CASE ReleaseDriverReservation(o)
        <4>. DEFINE row == [old EXCEPT !.status = "searching", !.driver = None, !.tariff = None, !.proposed = 0]
        <4>1. orders' = [orders EXCEPT ![o] = row] /\ ~old.confirmed
          BY <3>2 DEF ReleaseDriverReservation, Pending
        <4>2. row \in PassengerOrder
          BY <2>1, OrderChanged
        <4>3. row.driver = None /\ ~row.confirmed
          BY <2>1, <4>1 DEF PassengerOrder
        <4>. QED  BY <4>1, <4>2, <4>3
      <3>3. ASSUME NEW s \in Status \ {"searching"}, orders' = [orders EXCEPT ![o] = [old EXCEPT !.status = s]]
            PROVE  \E row \in PassengerOrder :
                     /\ row.status = "searching" => row.driver = None /\ ~row.confirmed
                     /\ orders' = [orders EXCEPT ![o] = row]
        <4>1. [old EXCEPT !.status = s].status = s
          BY <2>1 DEF PassengerOrder
        <4>. QED  BY <2>1, <3>3, <4>1, OrderChanged
      <3>4. CASE CompleteOrder(o)
        <4>. DEFINE row == [old EXCEPT !.status = "completed", !.final = InitialOrderPrice(old)]
        <4>1. orders' = [orders EXCEPT ![o] = row]
          BY <3>4 DEF CompleteOrder
        <4>2. row \in PassengerOrder
          BY <2>1, OrderChanged
        <4>3. row.status = "completed"
          BY <2>1 DEF PassengerOrder
        <4>. QED  BY <4>1, <4>2, <4>3
      <3>. QED
        BY <1>11, <3>1, <3>2, <3>3, <3>4 DEF CancelPassengerOrder, StartTrip, Status, Open, Engaged
    <2>. QED  BY <2>2, <2>3, OrderWritten
  <1>. QED
    BY <1>1, <1>2, <1>3, <1>4, <1>5, <1>6, <1>7, <1>8, <1>9, <1>10, <1>11 DEF Next

-----------------------------------------------------------------------------
(* Quotes.                                                                 *)

\* A quote that is stored keeps its passenger and its price, and the order that
\* has consumed it.
LEMMA QuotesKept ==
  ASSUME RowsTyped, QuotesRead, [Next]_vars, NEW q \in Quote, quotes[q] # None
  PROVE  /\ quotes'[q] # None
         /\ quotes'[q].passenger = quotes[q].passenger /\ quotes'[q].price = quotes[q].price
         /\ quotes[q].order # None => quotes'[q].order = quotes[q].order
  <1>. USE NoneIsNoRow
  <1>1. quotes[q] \in PriceQuote
    BY DEF RowsTyped
  <1>2. CASE UNCHANGED quotes
    BY <1>2
  <1>3. ASSUME NEW x \in Quote, QuoteExpires(x) PROVE 
           /\ quotes'[q] # None
           /\ quotes'[q].passenger = quotes[q].passenger /\ quotes'[q].price = quotes[q].price
           /\ quotes[q].order # None => quotes'[q].order = quotes[q].order
    <2>1. [quotes[q] EXCEPT !.expired = TRUE] \in PriceQuote
          /\ \A f \in {"passenger", "price", "order"} : [quotes[q] EXCEPT !.expired = TRUE][f] = quotes[q][f]
      BY <1>1 DEF PriceQuote
    <2>. QED  BY <1>1, <1>3, <2>1 DEF QuoteExpires, RowsTyped
  <1>4. ASSUME NEW p \in Proc, NEW x \in Quote, SavePriceQuote(p, x) PROVE 
           /\ quotes'[q] # None
           /\ quotes'[q].passenger = quotes[q].passenger /\ quotes'[q].price = quotes[q].price
           /\ quotes[q].order # None => quotes'[q].order = quotes[q].order
    BY <1>4 DEF SavePriceQuote, RowsTyped
  <1>5. ASSUME NEW p \in Proc, NEW o \in Order, CreatePassengerOrder(p, o), quotes' # quotes PROVE 
           /\ quotes'[q] # None
           /\ quotes'[q].passenger = quotes[q].passenger /\ quotes'[q].price = quotes[q].price
           /\ quotes[q].order # None => quotes'[q].order = quotes[q].order
    <2>1. [quotes[q] EXCEPT !.order = o] \in PriceQuote
          /\ \A f \in {"passenger", "price"} : [quotes[q] EXCEPT !.order = o][f] = quotes[q][f]
      BY <1>1 DEF PriceQuote
    <2>2. quotes' = [quotes EXCEPT ![job[p].quote] = [quotes[job[p].quote] EXCEPT !.order = o]]
          /\ quotes[job[p].quote].order = None
      BY <1>5 DEF CreatePassengerOrder, UsableQuote
    <2>. QED  BY <1>1, <2>1, <2>2 DEF RowsTyped
  <1>. QED
    BY <1>2, <1>3, <1>4, <1>5
    DEF Next, vars, UpdateTariff, EstimatePassengerOrder, GetPriceQuote, CheckQuotedTerms, GetCandidateFare,
        AssignDriver, ConfirmDriverPrice, ReleaseDriverReservation, CancelPassengerOrder, StartTrip,
        CompleteOrder, CreatePassengerOrder

\* A request reads a quote when it begins, and another row only for a new quote.
LEMMA QuotesReadStep ==
  ASSUME RowsTyped, RowsTyped', QuotesRead, [Next]_vars
  PROVE  QuotesRead'
  <1>. SUFFICES ASSUME NEW p \in Proc, job'[p].pc \in {"quoted", "ordering"}
                PROVE  /\ quotes'[job'[p].quote] # None
                       /\ quotes'[job'[p].quote].passenger = job'[p].row.passenger
                       /\ quotes'[job'[p].quote].price = job'[p].row.price
    BY DEF QuotesRead
  <1>1. job'[p].quote \in Quote
    BY DEF RowsTyped, Request, Idle
  <1>. DEFINE Reads ==
         \/ job'[p] = job[p]
         \/ \E q \in Quote : quotes[q] # None /\ job'[p] = [pc |-> "quoted", quote |-> q, row |-> quotes[q]]
         \/ /\ job[p].pc = "quoted"
            /\ job'[p] = [pc |-> "ordering", quote |-> job[p].quote, row |-> job[p].row]
  <1>2. Reads
    <2>. USE DEF RowsTyped
    <2>1. CASE UNCHANGED job
      BY <2>1
    <2>2. ASSUME NEW r \in Proc, NEW new, job' = [job EXCEPT ![r] = new],
                 \/ new.pc \notin {"quoted", "ordering"}
                 \/ \E q \in Quote : quotes[q] # None /\ new = [pc |-> "quoted", quote |-> q, row |-> quotes[q]]
                 \/ /\ job[r].pc = "quoted"
                    /\ new = [pc |-> "ordering", quote |-> job[r].quote, row |-> job[r].row]
          PROVE  Reads
      BY <2>2
    <2>. HIDE DEF Reads
    <2>3. ASSUME NEW r \in Proc, Answer(r) PROVE Reads
      BY <2>2, <2>3 DEF Answer, Idle
    <2>4. ASSUME NEW r \in Proc, NEW u \in Passenger, NEW near \in Reach, EstimatePassengerOrder(r, u, near)
          PROVE  Reads
      BY <2>2, <2>4 DEF EstimatePassengerOrder
    <2>5. ASSUME NEW r \in Proc, NEW q \in Quote, GetPriceQuote(r, q) PROVE Reads
      BY <2>2, <2>5 DEF GetPriceQuote
    <2>6. ASSUME NEW r \in Proc, NEW near \in Reach, CheckQuotedTerms(r, near) PROVE Reads
      BY <2>2, <2>3, <2>6 DEF CheckQuotedTerms
    <2>7. ASSUME NEW r \in Proc, NEW o \in Order, NEW d \in Driver, GetCandidateFare(r, o, d) PROVE Reads
      BY <2>2, <2>7 DEF GetCandidateFare
    <2>. QED
      BY <2>1, <2>3, <2>4, <2>5, <2>6, <2>7
      DEF Next, vars, UpdateTariff, QuoteExpires, SavePriceQuote, CreatePassengerOrder, AssignDriver, ConfirmDriverPrice, ReleaseDriverReservation,
          CancelPassengerOrder, StartTrip, CompleteOrder
  <1>3. CASE job'[p] = job[p]
    BY <1>1, <1>3, QuotesKept DEF QuotesRead
  <1>4. CASE \E q \in Quote : quotes[q] # None /\ job'[p] = [pc |-> "quoted", quote |-> q, row |-> quotes[q]]
    BY <1>4, QuotesKept
  <1>5. CASE job[p].pc = "quoted" /\ job'[p] = [pc |-> "ordering", quote |-> job[p].quote, row |-> job[p].row]
    BY <1>1, <1>5, QuotesKept DEF QuotesRead
  <1>. QED  BY <1>2, <1>3, <1>4, <1>5

-----------------------------------------------------------------------------
(* Orders.                                                                 *)

\* What a step does to the row of an order that was there: its status, driver
\* and fare may change, but not what it was sold for.
LEMMA OrderSteps ==
  ASSUME RowsTyped, [Next]_vars, NEW o \in Order, orders[o] # None
  PROVE  /\ orders'[o] # None
         /\ orders'[o].passenger = orders[o].passenger
         /\ orders'[o].quote = orders[o].quote /\ orders'[o].price = orders[o].price
         /\ \/ orders'[o].final = orders[o].final /\ (orders'[o].status = "completed" => orders[o].status = "completed")
            \/ orders'[o].final = InitialOrderPrice(orders[o]) /\ orders'[o].status = "completed"
  <1>. DEFINE Kept == /\ orders'[o] # None
                      /\ orders'[o].passenger = orders[o].passenger
                      /\ orders'[o].quote = orders[o].quote /\ orders'[o].price = orders[o].price
                      /\ \/ orders'[o].final = orders[o].final /\ (orders'[o].status = "completed" => orders[o].status = "completed")
                         \/ orders'[o].final = InitialOrderPrice(orders[o]) /\ orders'[o].status = "completed"
  <1>0. orders[o] \in PassengerOrder /\ orders \in [Order -> PassengerOrder \union {None}]
    BY DEF RowsTyped
  <1>1. ASSUME UNCHANGED orders PROVE Kept
    BY <1>1
  <1>2. ASSUME NEW p \in Proc, NEW x \in Order, CreatePassengerOrder(p, x) PROVE Kept
    BY <1>0, <1>2 DEF CreatePassengerOrder
  <1>3. ASSUME NEW p \in Proc, AssignDriver(p) PROVE Kept
    <2>1. job[p].driver \in Driver /\ job[p].tariff \in Tariff /\ job[p].price \in Nat
      BY <1>3 DEF AssignDriver, RowsTyped, Request, Idle
    <2>. DEFINE row == [orders[o] EXCEPT !.status = "driver_assigned", !.driver = job[p].driver,
                          !.tariff = job[p].tariff, !.proposed = job[p].price, !.confirmed = FALSE]
    <2>2. row \in PassengerOrder
      BY <1>0, <2>1, OrderChanged
    <2>3. row.passenger = orders[o].passenger /\ row.quote = orders[o].quote /\ row.price = orders[o].price
          /\ row.final = orders[o].final /\ row.status = "driver_assigned"
      BY <1>0 DEF PassengerOrder
    <2>4. orders'[o] \in {orders[o], row}
      BY <1>0, <1>3 DEF AssignDriver
    <2>. HIDE DEF row
    <2>. QED  BY <2>2, <2>3, <2>4, NoneIsNoRow
  <1>4. ASSUME NEW x \in Order, CompleteOrder(x) PROVE Kept
    <2>. DEFINE row == [orders[o] EXCEPT !.status = "completed", !.final = InitialOrderPrice(orders[o])]
    <2>1. row \in PassengerOrder
      BY <1>0, OrderChanged
    <2>2. row.passenger = orders[o].passenger /\ row.quote = orders[o].quote /\ row.price = orders[o].price
          /\ row.final = InitialOrderPrice(orders[o]) /\ row.status = "completed"
      BY <1>0 DEF PassengerOrder
    <2>3. orders'[o] \in {orders[o], row}
      BY <1>0, <1>4 DEF CompleteOrder
    <2>. HIDE DEF row
    <2>. QED  BY <2>1, <2>2, <2>3, NoneIsNoRow
  <1>5. ASSUME NEW x \in Order, ReleaseDriverReservation(x) PROVE Kept
    <2>. DEFINE row == [orders[o] EXCEPT !.status = "searching", !.driver = None, !.tariff = None, !.proposed = 0]
    <2>1. row \in PassengerOrder
      BY <1>0, OrderChanged
    <2>2. row.passenger = orders[o].passenger /\ row.quote = orders[o].quote /\ row.price = orders[o].price
          /\ row.final = orders[o].final /\ row.status = "searching"
      BY <1>0 DEF PassengerOrder
    <2>3. orders'[o] \in {orders[o], row}
      BY <1>0, <1>5 DEF ReleaseDriverReservation
    <2>. HIDE DEF row
    <2>. QED  BY <2>1, <2>2, <2>3, NoneIsNoRow
  <1>6. ASSUME NEW x \in Order, ConfirmDriverPrice(x) PROVE Kept
    <2>. DEFINE row == [orders[o] EXCEPT !.confirmed = TRUE]
    <2>1. row \in PassengerOrder
      BY <1>0, OrderChanged
    <2>2. row.passenger = orders[o].passenger /\ row.quote = orders[o].quote /\ row.price = orders[o].price
          /\ row.final = orders[o].final /\ row.status = orders[o].status
      BY <1>0 DEF PassengerOrder
    <2>3. orders'[o] \in {orders[o], row}
      BY <1>0, <1>6 DEF ConfirmDriverPrice
    <2>. HIDE DEF row
    <2>. QED  BY <2>1, <2>2, <2>3, NoneIsNoRow
  <1>7. ASSUME NEW x \in Order, NEW s \in {"cancelled", "in_progress"}, orders' = [orders EXCEPT ![x].status = s]
        PROVE  Kept
    <2>. DEFINE row == [orders[o] EXCEPT !.status = s]
    <2>1. row \in PassengerOrder
      BY <1>0, OrderChanged DEF Status, Open, Engaged
    <2>2. row.passenger = orders[o].passenger /\ row.quote = orders[o].quote /\ row.price = orders[o].price
          /\ row.final = orders[o].final /\ row.status = s
      BY <1>0 DEF PassengerOrder
    <2>3. orders'[o] \in {orders[o], row}
      BY <1>0, <1>7
    <2>. HIDE DEF row
    <2>. QED  BY <2>1, <2>2, <2>3, NoneIsNoRow
  <1>8. ASSUME NEW x \in Order, CancelPassengerOrder(x) \/ StartTrip(x) PROVE Kept
    <2>. HIDE DEF Kept
    <2>. QED  BY <1>7, <1>8 DEF CancelPassengerOrder, StartTrip
  <1>. HIDE DEF Kept
  <1>9. Kept
    <2>1. ASSUME NEW t \in Tariff, NEW active \in BOOLEAN, NEW terms \in OtherTerms[t],
                 UpdateTariff(t, terms, active)
          PROVE  Kept
      BY <1>1, <2>1 DEF UpdateTariff
    <2>2. ASSUME NEW q \in Quote, QuoteExpires(q) PROVE Kept
      BY <1>1, <2>2 DEF QuoteExpires
    <2>3. ASSUME NEW p \in Proc, NEW u \in Passenger, NEW near \in Reach, EstimatePassengerOrder(p, u, near)
          PROVE  Kept
      BY <1>1, <2>3 DEF EstimatePassengerOrder
    <2>4. ASSUME NEW p \in Proc, NEW q \in Quote, SavePriceQuote(p, q) \/ GetPriceQuote(p, q) PROVE Kept
      BY <1>1, <2>4 DEF SavePriceQuote, GetPriceQuote
    <2>5. ASSUME NEW p \in Proc, NEW near \in Reach, CheckQuotedTerms(p, near) PROVE Kept
      BY <1>1, <2>5 DEF CheckQuotedTerms
    <2>6. ASSUME NEW p \in Proc, NEW x \in Order, NEW d \in Driver, GetCandidateFare(p, x, d) PROVE Kept
      BY <1>1, <2>6 DEF GetCandidateFare
    <2>7. CASE UNCHANGED vars
      BY <1>1, <2>7 DEF vars
    <2>. QED
      BY <1>2, <1>3, <1>4, <1>5, <1>6, <1>8, <2>1, <2>2, <2>3, <2>4, <2>5, <2>6, <2>7 DEF Next
  <1>. QED  BY <1>9 DEF Kept

LEMMA OrdersReadStep ==
  ASSUME RowsTyped, OrdersRead, [Next]_vars
  PROVE  OrdersRead'
  <1>. SUFFICES ASSUME NEW p \in Proc, job'[p].pc = "accepting"
                PROVE  orders'[job'[p].order] # None
    BY DEF OrdersRead
  <1>. DEFINE Reads == \/ job'[p] = job[p]
                       \/ \E o \in Order : orders[o] # None /\ job'[p].order = o
  <1>1. Reads
    <2>. USE DEF RowsTyped
    <2>1. CASE UNCHANGED job
      BY <2>1
    <2>2. ASSUME NEW r \in Proc, NEW new, job' = [job EXCEPT ![r] = new],
                 new.pc # "accepting" \/ \E o \in Order : orders[o] # None /\ new.order = o
          PROVE  Reads
      BY <2>2
    <2>. HIDE DEF Reads
    <2>3. ASSUME NEW r \in Proc, Answer(r) PROVE Reads
      BY <2>2, <2>3 DEF Answer, Idle
    <2>4. ASSUME NEW r \in Proc, NEW u \in Passenger, NEW near \in Reach, EstimatePassengerOrder(r, u, near)
          PROVE  Reads
      BY <2>2, <2>4 DEF EstimatePassengerOrder
    <2>5. ASSUME NEW r \in Proc, NEW q \in Quote, GetPriceQuote(r, q) PROVE Reads
      BY <2>2, <2>5 DEF GetPriceQuote
    <2>6. ASSUME NEW r \in Proc, NEW near \in Reach, CheckQuotedTerms(r, near) PROVE Reads
      BY <2>2, <2>3, <2>6 DEF CheckQuotedTerms
    <2>7. ASSUME NEW r \in Proc, NEW o \in Order, NEW d \in Driver, GetCandidateFare(r, o, d) PROVE Reads
      BY <2>2, <2>7 DEF GetCandidateFare
    <2>. QED
      BY <2>1, <2>3, <2>4, <2>5, <2>6, <2>7
      DEF Next, vars, UpdateTariff, QuoteExpires, SavePriceQuote, CreatePassengerOrder, AssignDriver,
          ConfirmDriverPrice, ReleaseDriverReservation, CancelPassengerOrder, StartTrip, CompleteOrder
  <1>2. job[p].pc = "accepting" => job[p].order \in Order
    BY DEF RowsTyped, Request, Idle
  <1>. QED  BY <1>1, <1>2, OrderSteps DEF OrdersRead

-----------------------------------------------------------------------------
(* One open order of a passenger, one order that a driver serves.          *)

\* No order becomes open for a passenger or is given to a driver.
NobodyGains ==
  \A x \in Order : /\ \A u \in Passenger : OpenFor(u, x)' => OpenFor(u, x)
                   /\ \A d \in Driver : Serves(d, x)' => Serves(d, x)

LEMMA NobodyGainsKeeps ==
  ASSUME OneOrderEach, NobodyGains
  PROVE  OneOrderEach'
  BY DEF OneOrderEach, NobodyGains

\* A row that goes on towards its end, or back to the search.
LEMMA RowGoesOn ==
  ASSUME RowsTyped, NEW o \in Order, NEW row, orders[o] # None, orders' = [orders EXCEPT ![o] = row],
         row.passenger = orders[o].passenger,
         row.status \in Open => orders[o].status \in Open,
         row.status \in Engaged => orders[o].status \in Engaged /\ row.driver = orders[o].driver
  PROVE  NobodyGains
  <1>1. \A x \in Order : orders'[x] = IF x = o THEN row ELSE orders[x]
    BY DEF RowsTyped
  <1>. QED  BY <1>1 DEF NobodyGains, OpenFor, Serves

\* A new order is one that its passenger had room for.
LEMMA CreatedAlone ==
  ASSUME RowsTyped, OneOrderEach, NEW p \in Proc, NEW o \in Order, CreatePassengerOrder(p, o)
  PROVE  OneOrderEach'
  <1>1. CASE UNCHANGED orders
    BY <1>1 DEF OneOrderEach, OpenFor, Serves
  <1>2. CASE ~UNCHANGED orders
    <2>. DEFINE w == job[p].row.passenger
                row == [passenger |-> w, quote |-> job[p].quote, status |-> "searching",
                        price |-> job[p].row.price, driver |-> None, tariff |-> None,
                        confirmed |-> FALSE, proposed |-> 0, final |-> None]
    <2>1. /\ orders' = [orders EXCEPT ![o] = row]
          /\ row.passenger = w /\ row.status = "searching"
      BY <1>2 DEF CreatePassengerOrder
    <2>2. \A x \in Order : ~OpenFor(w, x)
      BY <1>2 DEF CreatePassengerOrder, HasActiveOrder
    <2>. HIDE DEF w, row
    <2>3. \A x \in Order : orders'[x] = IF x = o THEN row ELSE orders[x]
      BY <2>1 DEF RowsTyped
    <2>4. \A u \in Passenger, x \in Order : OpenFor(u, x)' => OpenFor(u, x) \/ (x = o /\ u = w)
      BY <2>1, <2>3 DEF OpenFor
    <2>5. \A d \in Driver, x \in Order : Serves(d, x)' => Serves(d, x)
      BY <2>1, <2>3 DEF Serves, Engaged
    <2>. QED  BY <2>2, <2>4, <2>5 DEF OneOrderEach
  <1>. QED  BY <1>1, <1>2

\* A driver who is assigned was free.
LEMMA AssignedAlone ==
  ASSUME RowsTyped, OneOrderEach, OrdersRead, NEW p \in Proc, AssignDriver(p)
  PROVE  OneOrderEach'
  <1>1. CASE UNCHANGED orders
    BY <1>1 DEF OneOrderEach, OpenFor, Serves
  <1>2. CASE ~UNCHANGED orders
    <2>. DEFINE fare == job[p]
                o == fare.order
                v == fare.driver
                old == orders[o]
                row == [old EXCEPT !.status = "driver_assigned", !.driver = v,
                                   !.tariff = fare.tariff, !.proposed = fare.price, !.confirmed = FALSE]
    <2>1. o \in Order /\ v \in Driver
      BY <1>2 DEF AssignDriver, RowsTyped, Request, Idle
    <2>2. old \in PassengerOrder /\ old.status = "searching" /\ old # None
      BY <1>2, <2>1 DEF AssignDriver, RowsTyped, OrdersRead
    <2>3. orders' = [orders EXCEPT ![o] = row]
      BY <1>2 DEF AssignDriver
    <2>4. row.passenger = old.passenger /\ row.status = "driver_assigned" /\ row.driver = v
      BY <2>2 DEF PassengerOrder
    <2>5. \A x \in Order : ~Serves(v, x)
      BY <1>2 DEF AssignDriver, DriverFree
    <2>. HIDE DEF o, v, old, row
    <2>6. \A x \in Order : orders'[x] = IF x = o THEN row ELSE orders[x]
      BY <2>3 DEF RowsTyped
    <2>7. \A u \in Passenger, x \in Order : OpenFor(u, x)' => OpenFor(u, x)
      BY <2>2, <2>4, <2>6 DEF OpenFor, Open, old
    <2>8. \A d \in Driver, x \in Order : Serves(d, x)' => Serves(d, x) \/ (x = o /\ d = v)
      BY <2>4, <2>6 DEF Serves
    <2>. QED  BY <2>5, <2>7, <2>8 DEF OneOrderEach
  <1>. QED  BY <1>1, <1>2

LEMMA OneOrderEachStep ==
  ASSUME RowsTyped, OneOrderEach, OrdersRead, [Next]_vars
  PROVE  OneOrderEach'
  <1>1. ASSUME UNCHANGED orders PROVE OneOrderEach'
    BY <1>1 DEF OneOrderEach, OpenFor, Serves
  <1>2. ASSUME NEW o \in Order,
               \/ ConfirmDriverPrice(o) \/ ReleaseDriverReservation(o)
               \/ CancelPassengerOrder(o) \/ StartTrip(o) \/ CompleteOrder(o)
        PROVE  OneOrderEach'
    <2>. DEFINE old == orders[o]
    <2>1. old \in PassengerOrder /\ old # None
      BY <1>2, NoneIsNoRow DEF RowsTyped, ConfirmDriverPrice, ReleaseDriverReservation, CancelPassengerOrder, StartTrip,
                  CompleteOrder, Pending
    <2>2. PICK row : /\ orders' = [orders EXCEPT ![o] = row] /\ row.passenger = old.passenger
                     /\ row.status \in Open => old.status \in Open
                     /\ row.status \in Engaged => old.status \in Engaged /\ row.driver = old.driver
      <3>1. CASE ConfirmDriverPrice(o)
        <4>. DEFINE row == [old EXCEPT !.confirmed = TRUE]
        <4>1. orders' = [orders EXCEPT ![o] = row]
          BY <3>1 DEF ConfirmDriverPrice
        <4>2. row.passenger = old.passenger /\ row.status = old.status /\ row.driver = old.driver
          BY <2>1 DEF PassengerOrder
        <4>. QED  BY <4>1, <4>2
      <3>2. CASE ReleaseDriverReservation(o)
        <4>. DEFINE row == [old EXCEPT !.status = "searching", !.driver = None, !.tariff = None, !.proposed = 0]
        <4>1. orders' = [orders EXCEPT ![o] = row] /\ old.status = "driver_assigned"
          BY <3>2 DEF ReleaseDriverReservation, Pending
        <4>2. row.passenger = old.passenger /\ row.status = "searching"
          BY <2>1 DEF PassengerOrder
        <4>3. old.status \in Open /\ "searching" \notin Engaged
          BY <4>1 DEF Open, Engaged
        <4>. QED  BY <4>1, <4>2, <4>3
      <3>3. ASSUME NEW s, orders' = [orders EXCEPT ![o] = [old EXCEPT !.status = s]],
                   s \in Engaged => old.status \in Engaged, s \in Open => old.status \in Open
            PROVE  \E row : /\ orders' = [orders EXCEPT ![o] = row] /\ row.passenger = old.passenger
                            /\ row.status \in Open => old.status \in Open
                            /\ row.status \in Engaged => old.status \in Engaged /\ row.driver = old.driver
        <4>. DEFINE row == [old EXCEPT !.status = s]
        <4>1. row.passenger = old.passenger /\ row.status = s /\ row.driver = old.driver
          BY <2>1 DEF PassengerOrder
        <4>. QED  BY <3>3, <4>1
      <3>4. CASE CancelPassengerOrder(o)
        BY <3>3, <3>4 DEF CancelPassengerOrder, Open, Engaged
      <3>5. CASE StartTrip(o)
        BY <3>3, <3>5 DEF StartTrip, Open, Engaged
      <3>6. CASE CompleteOrder(o)
        <4>. DEFINE row == [old EXCEPT !.status = "completed", !.final = InitialOrderPrice(old)]
        <4>1. orders' = [orders EXCEPT ![o] = row]
          BY <3>6 DEF CompleteOrder
        <4>2. row.passenger = old.passenger /\ row.status = "completed"
          BY <2>1 DEF PassengerOrder
        <4>3. "completed" \notin Open /\ "completed" \notin Engaged
          BY DEF Open, Engaged
        <4>. QED  BY <4>1, <4>2, <4>3
      <3>. QED  BY <1>2, <3>1, <3>2, <3>4, <3>5, <3>6
    <2>. QED  BY <2>1, <2>2, RowGoesOn, NobodyGainsKeeps
  <1>. QED
    BY <1>1, <1>2, CreatedAlone, AssignedAlone
    DEF Next, vars, UpdateTariff, QuoteExpires, EstimatePassengerOrder, SavePriceQuote, GetPriceQuote,
        CheckQuotedTerms, GetCandidateFare

\* An order has consumed its quote and is charged what the quote promised.
Sold ==
  \A o \in Order : orders[o] # None =>
    LET quote == quotes[orders[o].quote]
    IN /\ quote # None /\ quote.order = o
       /\ quote.passenger = orders[o].passenger /\ quote.price = orders[o].price
       /\ orders[o].final \in {None, orders[o].price}
       /\ orders[o].status = "completed" => orders[o].final = orders[o].price

LEMMA SoldStep ==
  ASSUME RowsTyped, QuotesRead, OrdersRead, Sold, [Next]_vars
  PROVE  Sold'
  <1>. USE NoneIsNoRow
  <1>. SUFFICES ASSUME NEW o \in Order, orders'[o] # None
                PROVE  LET quote == quotes'[orders'[o].quote]
                       IN /\ quote # None /\ quote.order = o
                          /\ quote.passenger = orders'[o].passenger /\ quote.price = orders'[o].price
                          /\ orders'[o].final \in {None, orders'[o].price}
                          /\ orders'[o].status = "completed" => orders'[o].final = orders'[o].price
    BY DEF Sold
  <1>1. CASE orders[o] # None
    <2>1. orders[o].quote \in Quote
      BY <1>1 DEF RowsTyped, PassengerOrder
    <2>2. InitialOrderPrice(orders[o]) = orders[o].price
      BY <1>1 DEF Sold, InitialOrderPrice
    <2>. QED  BY <1>1, <2>1, <2>2, OrderSteps, QuotesKept DEF Sold
  <1>2. CASE orders[o] = None
    <2>a. ASSUME NEW p \in Proc, AssignDriver(p) PROVE orders'[o] = None
      <3>1. job[p].order # o
        BY <1>2, <2>a DEF AssignDriver, OrdersRead
      <3>. QED  BY <1>2, <2>a, <3>1 DEF AssignDriver, RowsTyped
    <2>b. ASSUME NEW x \in Order,
                 \/ ConfirmDriverPrice(x) \/ ReleaseDriverReservation(x)
                 \/ CancelPassengerOrder(x) \/ StartTrip(x) \/ CompleteOrder(x)
          PROVE  orders'[o] = None
      BY <1>2, <2>b DEF RowsTyped, ConfirmDriverPrice, ReleaseDriverReservation, CancelPassengerOrder,
                        StartTrip, CompleteOrder, Pending
    <2>c. ASSUME NEW p \in Proc, NEW x \in Order, CreatePassengerOrder(p, x), x # o PROVE orders'[o] = None
      BY <1>2, <2>c DEF CreatePassengerOrder, RowsTyped
    <2>1. PICK p \in Proc : CreatePassengerOrder(p, o) /\ orders' # orders
      BY <1>2, <2>a, <2>b, <2>c
      DEF Next, vars, UpdateTariff, QuoteExpires, EstimatePassengerOrder, SavePriceQuote,
          GetPriceQuote, CheckQuotedTerms, GetCandidateFare
    <2>. DEFINE q == job[p].quote
                row == job[p].row
    <2>2. q \in Quote /\ row \in PriceQuote /\ quotes[q] \in PriceQuote
          /\ quotes[q].passenger = row.passenger /\ quotes[q].price = row.price
      BY <2>1 DEF CreatePassengerOrder, RowsTyped, Request, Idle, QuotesRead
    <2>3. /\ orders' = [orders EXCEPT ![o] =
                [passenger |-> row.passenger, quote |-> q, status |-> "searching",
                 price |-> row.price, driver |-> None, tariff |-> None,
                 confirmed |-> FALSE, proposed |-> 0, final |-> None]]
          /\ quotes' = [quotes EXCEPT ![q] = [quotes[q] EXCEPT !.order = o]]
      BY <2>1 DEF CreatePassengerOrder
    <2>4. [quotes[q] EXCEPT !.order = o] \in PriceQuote /\ [quotes[q] EXCEPT !.order = o].order = o
          /\ \A f \in {"passenger", "price"} : [quotes[q] EXCEPT !.order = o][f] = quotes[q][f]
      BY <2>2 DEF PriceQuote
    <2>5. orders'[o] = [passenger |-> row.passenger, quote |-> q, status |-> "searching",
                 price |-> row.price, driver |-> None, tariff |-> None,
                 confirmed |-> FALSE, proposed |-> 0, final |-> None]
          /\ quotes'[q] = [quotes[q] EXCEPT !.order = o]
      BY <2>2, <2>3 DEF RowsTyped
    <2>6. /\ orders'[o].quote = q /\ orders'[o].passenger = row.passenger /\ orders'[o].price = row.price
          /\ orders'[o].final = None /\ orders'[o].status = "searching"
      BY <2>5
    <2>7. /\ quotes'[q] # None /\ quotes'[q].order = o
          /\ quotes'[q].passenger = row.passenger /\ quotes'[q].price = row.price
      BY <2>2, <2>4, <2>5
    <2>. HIDE DEF q, row
    <2>. QED  BY <2>6, <2>7
  <1>. QED  BY <1>1, <1>2

-----------------------------------------------------------------------------
(* Fares.                                                                  *)

\* The fare an accepting driver has read is what the tariff charges, unless the
\* tariff has changed since, and then its updated_at tells.
FaresRead ==
  \A p \in Proc : job[p].pc = "accepting" =>
    LET fare == job[p]
    IN /\ fare.updated <= tariffs[fare.tariff].updated
       /\ fare.updated = tariffs[fare.tariff].updated => fare.price = PriceOf(fare.tariff)

LEMMA FaresReadStep ==
  ASSUME RowsTyped, RowsTyped', FaresRead, [Next]_vars
  PROVE  FaresRead'
  <1>. SUFFICES ASSUME NEW p \in Proc, job'[p].pc = "accepting"
                PROVE  /\ job'[p].updated <= tariffs'[job'[p].tariff].updated
                       /\ job'[p].updated = tariffs'[job'[p].tariff].updated =>
                            job'[p].price = CalculateTripPrice(tariffs'[job'[p].tariff].terms, Metres, Seconds)
    BY DEF FaresRead, PriceOf
  <1>. DEFINE Reads ==
        \/ job'[p] = job[p]
        \/ /\ tariffs' = tariffs
           /\ \E t \in Tariff : /\ job'[p].tariff = t /\ job'[p].updated = tariffs[t].updated
                                /\ job'[p].price = PriceOf(t)
  <1>1. Reads
    <2>. USE DEF RowsTyped
    <2>1. CASE UNCHANGED job
      BY <2>1
    <2>2. ASSUME NEW r \in Proc, NEW new, job' = [job EXCEPT ![r] = new],
                 \/ new.pc # "accepting"
                 \/ /\ tariffs' = tariffs
                    /\ \E t \in Tariff : /\ new.tariff = t /\ new.updated = tariffs[t].updated
                                         /\ new.price = PriceOf(t)
          PROVE  Reads
      BY <2>2
    <2>. HIDE DEF Reads
    <2>3. ASSUME NEW r \in Proc, Answer(r) PROVE Reads
      BY <2>2, <2>3 DEF Answer, Idle
    <2>4. ASSUME NEW r \in Proc, NEW u \in Passenger, NEW near \in Reach, EstimatePassengerOrder(r, u, near)
          PROVE  Reads
      BY <2>2, <2>4 DEF EstimatePassengerOrder
    <2>5. ASSUME NEW r \in Proc, NEW q \in Quote, GetPriceQuote(r, q) PROVE Reads
      BY <2>2, <2>5 DEF GetPriceQuote
    <2>6. ASSUME NEW r \in Proc, NEW near \in Reach, CheckQuotedTerms(r, near) PROVE Reads
      BY <2>2, <2>3, <2>6 DEF CheckQuotedTerms
    <2>7. ASSUME NEW r \in Proc, NEW o \in Order, NEW d \in Driver, GetCandidateFare(r, o, d) PROVE Reads
      BY <2>2, <2>7 DEF GetCandidateFare
    <2>8. ASSUME UNCHANGED job PROVE Reads
      BY <2>8 DEF Reads
    <2>. QED
      BY <2>3, <2>4, <2>5, <2>6, <2>7, <2>8
      DEF Next, vars, UpdateTariff, QuoteExpires, SavePriceQuote, CreatePassengerOrder, AssignDriver,
          ConfirmDriverPrice, ReleaseDriverReservation, CancelPassengerOrder, StartTrip, CompleteOrder
  <1>2. \A t \in Tariff : tariffs[t].updated \in Nat /\
          (tariffs'[t] = tariffs[t] \/ tariffs'[t].updated = tariffs[t].updated + 1)
    <2>1. ASSUME NEW u \in Tariff, NEW active \in BOOLEAN, NEW terms \in OtherTerms[u],
                 UpdateTariff(u, terms, active)
          PROVE  \A t \in Tariff : tariffs'[t] = tariffs[t] \/ tariffs'[t].updated = tariffs[t].updated + 1
      BY <2>1 DEF UpdateTariff, RowsTyped
    <2>2. CASE UNCHANGED tariffs
      BY <2>2 DEF RowsTyped
    <2>3. \A t \in Tariff : tariffs[t].updated \in Nat
      BY DEF RowsTyped
    <2>. QED
      BY <2>1, <2>2, <2>3
      DEF Next, vars, QuoteExpires, EstimatePassengerOrder, SavePriceQuote, GetPriceQuote, CheckQuotedTerms,
          CreatePassengerOrder, GetCandidateFare, AssignDriver, ConfirmDriverPrice, ReleaseDriverReservation,
          CancelPassengerOrder, StartTrip, CompleteOrder
  <1>3. CASE job'[p] = job[p]
    <2>1. job[p].tariff \in Tariff /\ job[p].updated \in Nat
      BY <1>3 DEF RowsTyped, Request, Idle
    <2>. QED  BY <1>2, <1>3, <2>1 DEF FaresRead, PriceOf
  <1>. QED  BY <1>1, <1>2, <1>3 DEF PriceOf

\* A driver is assigned at the fare their park charges at that moment.
LEMMA AssignedStep ==
  ASSUME RowsTyped, FaresRead, [Next]_vars, NEW o \in Order,
         orders[o] # None, orders[o].driver = None, orders'[o].driver # None
  PROVE  LET t == orders'[o].tariff
         IN IsBest(t, DriverPark[orders'[o].driver]) /\ orders'[o].proposed = PriceOf(t)
  <1>1. orders[o] \in PassengerOrder /\ orders \in [Order -> PassengerOrder \union {None}]
    BY DEF RowsTyped
  <1>2. PICK p \in Proc : AssignDriver(p) /\ orders'[o] # orders[o]
    <2>1. ASSUME NEW x \in Order,
                 \/ ConfirmDriverPrice(x) \/ ReleaseDriverReservation(x)
                 \/ CancelPassengerOrder(x) \/ StartTrip(x) \/ CompleteOrder(x)
          PROVE  orders'[o].driver = None
      <3>1. CASE x # o
        BY <1>1, <2>1, <3>1 DEF ConfirmDriverPrice, ReleaseDriverReservation, CancelPassengerOrder,
                                StartTrip, CompleteOrder
      <3>2. CASE x = o
        <4>1. \/ orders'[o] = [orders[o] EXCEPT !.confirmed = TRUE]
              \/ orders'[o] = [orders[o] EXCEPT !.status = "searching", !.driver = None, !.tariff = None, !.proposed = 0]
              \/ \E s \in Status : orders'[o] = [orders[o] EXCEPT !.status = s]
              \/ orders'[o] = [orders[o] EXCEPT !.status = "completed", !.final = InitialOrderPrice(orders[o])]
          BY <1>1, <2>1, <3>2 DEF ConfirmDriverPrice, ReleaseDriverReservation, CancelPassengerOrder,
                                  StartTrip, CompleteOrder, Status, Open, Engaged
        <4>. QED  BY <1>1, <4>1 DEF PassengerOrder
      <3>. QED  BY <3>1, <3>2
    <2>2. ASSUME NEW p \in Proc, NEW x \in Order, CreatePassengerOrder(p, x) PROVE orders'[o].driver = None
      BY <1>1, <2>2 DEF CreatePassengerOrder
    <2>. QED
      BY <2>1, <2>2
      DEF Next, vars, UpdateTariff, QuoteExpires, EstimatePassengerOrder, SavePriceQuote,
          GetPriceQuote, CheckQuotedTerms, GetCandidateFare
  <1>. DEFINE fare == job[p]
  <1>3. fare.pc = "accepting" /\ fare.tariff \in Tariff
    BY <1>2 DEF AssignDriver, RowsTyped, Request, Idle
  <1>4. fare.order = o /\ FareStands(fare)
        /\ orders' = [orders EXCEPT ![o] =
             [orders[o] EXCEPT !.status = "driver_assigned", !.driver = fare.driver,
                               !.tariff = fare.tariff, !.proposed = fare.price, !.confirmed = FALSE]]
    BY <1>1, <1>2 DEF AssignDriver
  <1>5. orders'[o].driver = fare.driver /\ orders'[o].tariff = fare.tariff /\ orders'[o].proposed = fare.price
    BY <1>1, <1>4 DEF PassengerOrder
  <1>. QED  BY <1>3, <1>4, <1>5 DEF FareStands, FaresRead

-----------------------------------------------------------------------------
(* The invariant, and what follows from it.                                *)

BookingInv == BookTypeOK /\ QuotesRead /\ OrdersRead /\ Sold /\ FaresRead

LEMMA BookingInit == Init => BookingInv
  BY RowsTypedInit DEF Init, BookingInv, BookTypeOK, OneOrderEach, OpenFor, Serves, QuotesRead, OrdersRead, Sold, FaresRead, Idle

LEMMA BookingStep == BookingInv /\ [Next]_vars => BookingInv'
  BY RowsTypedStep, OneOrderEachStep, QuotesReadStep, OrdersReadStep, SoldStep, FaresReadStep DEF BookingInv, BookTypeOK

\* Rows and requests have the shape the code gives them; a passenger has one
\* open order (idx_orders_one_active_per_passenger) and a driver serves one (the
\* condition of assignDriverQuery), whatever the requests have read before.
THEOREM BookTypeCorrect == Spec => []BookTypeOK
  BY BookingInit, BookingStep, PTL DEF Spec, BookingInv

\* A quote is sold once (CreatePassengerOrder consumes it where
\* consumed_order_id IS NULL), and never changes after it was read.
THEOREM QuotesSoldOnce == Spec => []QuoteIsSoldOnce
  <1>1. BookingInv => QuoteIsSoldOnce
    BY DEF BookingInv, Sold, QuoteIsSoldOnce
  <1>. QED  BY <1>1, BookingInit, BookingStep, PTL DEF Spec

\* A completed order is charged what its quote promised (initialOrderPrice).
THEOREM QuotedPriceCharged == Spec => []ChargedAsQuoted
  <1>1. BookingInv => ChargedAsQuoted
    BY DEF BookingInv, Sold, ChargedAsQuoted
  <1>. QED  BY <1>1, BookingInit, BookingStep, PTL DEF Spec

\* A driver is assigned at the fare their park charges at that moment, although
\* it was read before (AssignDriver compares updated_at).
THEOREM CurrentFareAssigned == Spec => AssignedAtCurrentFare
  <1>1. BookingInv /\ [Next]_vars =>
          [\A o \in Order :
             orders[o] # None /\ orders[o].driver = None /\ orders'[o].driver # None =>
               LET t == orders'[o].tariff
               IN IsBest(t, DriverPark[orders'[o].driver]) /\ orders'[o].proposed = PriceOf(t)]_vars
    BY AssignedStep DEF BookingInv, BookTypeOK
  <1>. QED  BY <1>1, BookingInit, BookingStep, PTL DEF Spec, AssignedAtCurrentFare
=============================================================================
