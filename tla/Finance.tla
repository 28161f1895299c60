------------------------------ MODULE Finance ------------------------------
(***************************************************************************)
(* Settlement of completed orders, payouts to drivers and invoices of the  *)
(* platform's fee.                                                         *)
(*                                                                         *)
(* A request completes its order in one transaction, reads the snapshot    *)
(* the settlement is computed from, and settles in a second transaction of *)
(* PostgreSQL at READ COMMITTED: statements see what is committed, rows    *)
(* written stay locked to the end, and created_at is the time at which the *)
(* transaction began (now()).  Whatever fails rolls back.                  *)
(***************************************************************************)
EXTENDS Fares, Functions, Sequences

CONSTANTS
  Order, Driver, Park, Proc, Payout, Invoice,
  NoPark,       \* the park of an order that belongs to none
  None,         \* NULL
  DriverOf,     \* of each order, its driver,
  ParkOf,       \* its park, if it has one,
  PriceOf,      \* and COALESCE(final_price, estimated_price)
  Rates,        \* commissions a park may set, in basis points
  InitialRate,  \* driver_commission_percent of a new park
  FeeRate,      \* platform_service_fee_percent
  Amounts,      \* amounts of payouts
  Periods,      \* periods <<from, to>> of invoices, from \leq t < to
  MaxClock      \* bound: transactions that take a time

\* Rows of order_financial_transactions, driver_payouts and platform_invoices.
Settlement == [gross: Nat, commission: Nat, net: Nat, fee: Nat]
PayoutRow == [driver: Driver, park: Park, amount: Nat, status: {"created", "approved", "paid"}]
InvoiceRow == [park: Park, amount: Nat, period: Periods, status: {"issued", "paid"}]

ASSUME NoneAssumption == None \notin Settlement \union PayoutRow \union InvoiceRow \union Invoice

ASSUME OrderAssumption ==
  /\ NoPark \notin Park
  /\ DriverOf \in [Order -> Driver]
  /\ ParkOf \in [Order -> Park \union {NoPark}]
  /\ PriceOf \in [Order -> Nat]

ASSUME RateAssumption == Rates \subseteq 0..10000 /\ InitialRate \in Rates /\ FeeRate \in 0..10000

ASSUME AmountAssumption == Amounts \subseteq Nat

ASSUME PeriodAssumption == Periods \subseteq Nat \X Nat

ASSUME ClockAssumption == MaxClock \in Nat

VARIABLES
  status,       \* orders.status, of orders on their last leg
  rate,         \* taxi_park_finance_settings.driver_commission_percent
  settled,      \* order_financial_transactions, one row per order
  balance,      \* driver_balances, per driver and park
  parkBalance,  \* taxi_parks.balance_cents
  driverLedger, \* driver_balance_ledger, in the order of commits
  ledger,       \* the ledgers that number themselves by their latest row
  payouts,      \* driver_payouts
  invoices,     \* platform_invoices
  clock,        \* now()
  job           \* what each request is at

vars == <<status, rate, settled, balance, parkBalance, driverLedger, ledger,
          payouts, invoices, clock, job>>

\* The balance of the park, what it owes and what the platform has to receive.
Ledger == {"park", "fee", "platform"}

Unfinished == {"in_progress", "completed"}

Entry == [source: Order \union Invoice, kind: {"accrual", "payment"}, park: Park,
          amount: Nat, after: Int, at: Nat, invoice: Invoice \union {None}]

Idle == [pc |-> "idle", order |-> None, invoice |-> None, period |-> None,
         terms |-> None, at |-> 0, after |-> [n \in Ledger |-> 0], sum |-> 0]

Goto(p, record) == job' = [job EXCEPT ![p] = record]

FinTypeOK ==
  /\ status \in [Order -> Unfinished]
  /\ rate \in [Park -> Rates]
  /\ settled \in [Order -> Settlement \union {None}]
  /\ balance \in [Driver -> [Park \union {NoPark} -> Nat]]
  /\ parkBalance \in [Park -> Nat]
  /\ \A i \in DOMAIN driverLedger :
       driverLedger[i] \in [driver: Driver, park: Park \union {NoPark},
                            kind: {"order_income", "payout"}, amount: Nat, after: Nat]
  /\ \A n \in Ledger : \A e \in ledger[n] : e \in Entry
  /\ payouts \in [Payout -> PayoutRow \union {None}]
  /\ invoices \in [Invoice -> InvoiceRow \union {None}]
  /\ clock \in 0..MaxClock
  /\ \A p \in Proc : job[p].pc \in {"idle", "completed", "priced", "settling", "settled",
                                    "answered", "billing", "paying", "paid"}

Init ==
  /\ status = [o \in Order |-> "in_progress"]
  /\ rate = [k \in Park |-> InitialRate]
  /\ settled = [o \in Order |-> None]
  /\ balance = [d \in Driver |-> [k \in Park \union {NoPark} |-> 0]]
  /\ parkBalance = [k \in Park |-> 0]
  /\ driverLedger = <<>>
  /\ ledger = [n \in Ledger |-> {}]
  /\ payouts = [y \in Payout |-> None]
  /\ invoices = [i \in Invoice |-> None]
  /\ clock = 0
  /\ job = [p \in Proc |-> Idle]

-----------------------------------------------------------------------------
(* Ledgers.                                                                *)

RowsOf(n, k) == {e \in ledger[n] : e.park = k}

\* The balance of the row that is latest by created_at, whoever committed last.
LatestBalance(n, k) ==
  IF RowsOf(n, k) = {} THEN 0
  ELSE (CHOOSE e \in RowsOf(n, k) : \A f \in RowsOf(n, k) : f.at <= e.at).after

\* The rows a transaction adds to the ledgers, at its own time.
Posting(p, source, kind, k, amount, invoice) ==
  [n \in Ledger |->
     [source |-> source, kind |-> kind, park |-> k, amount |-> amount[n],
      after |-> job[p].after[n], at |-> job[p].at, invoice |-> invoice]]

\* What a settlement adds to each ledger.
Due(terms) == [n \in Ledger |-> IF n = "park" THEN terms.commission ELSE terms.fee]

AfterSettling(k, terms) ==
  [n \in Ledger |-> IF k \in Park THEN LatestBalance(n, k) + Due(terms)[n] ELSE 0]

\* What a paid invoice leaves of the debt, and what the platform has then received.
AfterPaying(invoice) ==
  [n \in Ledger |-> CASE n = "fee" -> LatestBalance(n, invoice.park) - invoice.amount
                      [] n = "platform" -> LatestBalance(n, invoice.park) + invoice.amount
                      [] n = "park" -> 0]

DriverLedgerRow(d, k, kind, amount, after) ==
  [driver |-> d, park |-> k, kind |-> kind, amount |-> amount, after |-> after]

\* The balance read before it is credited.
DriverBalanceBefore(d, k, amount) == balance[d][k]

\* The balance after a credit, as the transaction that credits it sees the row.
DriverBalanceAfter(d, k, amount) == balance[d][k] + amount

-----------------------------------------------------------------------------
(* Completion and settlement.                                              *)

\* A driver or the park completes the order.  A completed order passes again
\* (from = to), which is how a request whose settlement failed is repeated.
CompleteOrder(p, o) ==
  /\ job[p] = Idle
  /\ status' = [status EXCEPT ![o] = "completed"]
  /\ Goto(p, [Idle EXCEPT !.pc = "completed", !.order = o])
  /\ UNCHANGED <<rate, settled, balance, parkBalance, driverLedger, ledger, payouts, invoices, clock>>

\* The rate a settlement charges: that of the settings.
CommissionRate(o) == IF ParkOf[o] \in Park THEN rate[ParkOf[o]] ELSE 0

TakeSnapshot(p) ==
  /\ job[p].pc = "completed"
  /\ LET o == job[p].order
     IN Goto(p, [job[p] EXCEPT !.pc = "priced", !.terms = Terms(PriceOf[o], CommissionRate(o), FeeRate)])
  /\ UNCHANGED <<status, rate, settled, balance, parkBalance, driverLedger, ledger, payouts, invoices, clock>>

Answered(p, terms) == Goto(p, [Idle EXCEPT !.pc = "answered", !.order = job[p].order, !.terms = terms])

\* What the request has computed, as if the insert had succeeded.
AnswerComputed(p) == Answered(p, job[p].terms)

\* The answer of a repeated request is the row that is there.
AnswerCommitted(p) == Answered(p, settled[job[p].order])

\* A transaction begins, and a settlement that exists is the answer.
BeginSettlement(p) ==
  /\ job[p].pc = "priced"
  /\ IF settled[job[p].order] # None
     THEN AnswerCommitted(p) /\ UNCHANGED clock
     ELSE /\ clock < MaxClock
          /\ clock' = clock + 1
          /\ Goto(p, [job[p] EXCEPT !.pc = "settling", !.at = clock])
  /\ UNCHANGED <<status, rate, settled, balance, parkBalance, driverLedger, ledger, payouts, invoices>>

\* Another settlement holds a row this one writes: its order's keys, the balance
\* of the driver in the park, or the park.
Holds(q, o) ==
  /\ job[q].pc = "settled"
  /\ \/ job[q].order = o
     \/ DriverOf[job[q].order] = DriverOf[o] /\ ParkOf[job[q].order] = ParkOf[o]
     \/ ParkOf[o] \in Park /\ ParkOf[job[q].order] = ParkOf[o]

\* Without the unique keys of the order.
NeverConflicts(o) == o \notin Order

\* The unique keys of the order were taken by a settlement committed meanwhile.
Conflicts(o) == settled[o] # None

\* The inserts and updates, once the rows are free.  They become visible at the
\* commit; what they read of the ledgers is read here.
PostSettlement(p) ==
  /\ job[p].pc = "settling"
  /\ LET o == job[p].order
     IN /\ \A q \in Proc \ {p} : ~Holds(q, o)
        /\ IF Conflicts(o) THEN AnswerCommitted(p)
           ELSE Goto(p, [job[p] EXCEPT !.pc = "settled", !.after = AfterSettling(ParkOf[o], job[p].terms)])
  /\ UNCHANGED <<status, rate, settled, balance, parkBalance, driverLedger, ledger, payouts, invoices, clock>>

CommitSettlement(p) ==
  /\ job[p].pc = "settled"
  /\ LET o == job[p].order
         d == DriverOf[o]
         k == ParkOf[o]
         terms == job[p].terms
         posting == Posting(p, o, "accrual", k, Due(terms), None)
     IN /\ settled' = [settled EXCEPT ![o] = terms]
        /\ balance' = [balance EXCEPT ![d][k] = @ + terms.net]
        /\ driverLedger' = Append(driverLedger,
             DriverLedgerRow(d, k, "order_income", terms.net, DriverBalanceAfter(d, k, terms.net)))
        /\ parkBalance' = IF k \in Park THEN [parkBalance EXCEPT ![k] = @ + terms.commission]
                          ELSE parkBalance
        /\ ledger' = IF k \in Park THEN [n \in Ledger |-> ledger[n] \union {posting[n]}]
                     ELSE ledger
  /\ Answered(p, job[p].terms)
  /\ UNCHANGED <<status, rate, payouts, invoices, clock>>

\* The request has its answer.
Answer(p) ==
  /\ job[p].pc = "answered"
  /\ Goto(p, Idle)
  /\ UNCHANGED <<status, rate, settled, balance, parkBalance, driverLedger, ledger, payouts, invoices, clock>>

\* The process or the database fails: an open transaction is rolled back.
Fail(p) ==
  /\ job[p] # Idle
  /\ Goto(p, Idle)
  /\ UNCHANGED <<status, rate, settled, balance, parkBalance, driverLedger, ledger, payouts, invoices, clock>>

UpdateTaxiParkDriverCommission(k, bps) ==
  /\ rate' = [rate EXCEPT ![k] = bps]
  /\ UNCHANGED <<status, settled, balance, parkBalance, driverLedger, ledger, payouts, invoices, clock, job>>

-----------------------------------------------------------------------------
(* Payouts.  Each is one transaction that locks the balance it reads.      *)

BalanceFree(d, k) ==
  \A q \in Proc : job[q].pc = "settled" =>
    ~(DriverOf[job[q].order] = d /\ ParkOf[job[q].order] = k)

\* A payout is created against the balance, which it does not reduce.
CreateDriverPayout(y, d, k, amount) ==
  /\ payouts[y] = None
  /\ amount > 0
  /\ BalanceFree(d, k)
  /\ balance[d][k] >= amount
  /\ payouts' = [payouts EXCEPT ![y] =
       [driver |-> d, park |-> k, amount |-> amount, status |-> "created"]]
  /\ UNCHANGED <<status, rate, settled, balance, parkBalance, driverLedger, ledger, invoices, clock, job>>

Payable(y) == payouts[y] # None /\ payouts[y].status \in {"created", "approved"}

ApproveDriverPayout(y) ==
  /\ Payable(y)
  /\ payouts' = [payouts EXCEPT ![y].status = "approved"]
  /\ UNCHANGED <<status, rate, settled, balance, parkBalance, driverLedger, ledger, invoices, clock, job>>

\* Trusting the check made when the payout was created.
CoveredOnCreation(payout) == payout.amount > 0

\* WHERE available_balance_cents >= amount.
Covered(payout) == balance[payout.driver][payout.park] >= payout.amount

MarkDriverPayoutPaid(y) ==
  /\ Payable(y)
  /\ LET d == payouts[y].driver
         k == payouts[y].park
         amount == payouts[y].amount
     IN /\ BalanceFree(d, k)
        /\ Covered(payouts[y])
        /\ payouts' = [payouts EXCEPT ![y].status = "paid"]
        /\ balance' = [balance EXCEPT ![d][k] = @ - amount]
        /\ driverLedger' = Append(driverLedger,
             DriverLedgerRow(d, k, "payout", amount, DriverBalanceAfter(d, k, -amount)))
  /\ UNCHANGED <<status, rate, settled, parkBalance, ledger, invoices, clock, job>>

-----------------------------------------------------------------------------
(* Invoices of the platform's fee.                                         *)

\* With both ends.
WithinInclusive(at, period) == period[1] <= at /\ at <= period[2]

\* created_at >= from AND created_at < to.
Within(at, period) == period[1] <= at /\ at < period[2]

\* Without invoice_id IS NULL.
AnyAccrual(k, period) == {e \in RowsOf("fee", k) : e.kind = "accrual" /\ Within(e.at, period)}

\* The accruals an invoice of the period would claim.
Unbilled(k, period) ==
  {e \in RowsOf("fee", k) : e.kind = "accrual" /\ e.invoice = None /\ Within(e.at, period)}

AmountOf(entries) == SumFunction([e \in entries |-> e.amount])

\* The transaction sums what is committed now ...
SumAccruals(p, i, k, period) ==
  /\ job[p] = Idle
  /\ invoices[i] = None
  /\ Goto(p, [Idle EXCEPT !.pc = "billing", !.invoice = i, !.period = <<k, period>>,
                          !.sum = AmountOf(Unbilled(k, period))])
  /\ UNCHANGED <<status, rate, settled, balance, parkBalance, driverLedger, ledger, payouts, invoices, clock>>

\* ... inserts the invoice, unique in its park and period, and claims what is
\* committed by then.
CreateTaxiParkPlatformInvoice(p) ==
  /\ job[p].pc = "billing"
  /\ LET i == job[p].invoice
         k == job[p].period[1]
         period == job[p].period[2]
         claimed == Unbilled(k, period)
     IN /\ invoices[i] = None
        /\ \A j \in Invoice : invoices[j] # None => <<invoices[j].park, invoices[j].period>> # <<k, period>>
        /\ invoices' = [invoices EXCEPT ![i] =
             [park |-> k, amount |-> job[p].sum, period |-> period, status |-> "issued"]]
        /\ ledger' = [ledger EXCEPT !["fee"] =
             (@ \ claimed) \union {[e EXCEPT !.invoice = i] : e \in claimed}]
  /\ Goto(p, Idle)
  /\ UNCHANGED <<status, rate, settled, balance, parkBalance, driverLedger, payouts, clock>>

\* An administrator marks the invoice as paid, whatever its status.
BeginInvoicePayment(p, i) ==
  /\ job[p] = Idle
  /\ invoices[i] # None
  /\ clock < MaxClock
  /\ clock' = clock + 1
  /\ Goto(p, [Idle EXCEPT !.pc = "paying", !.invoice = i, !.at = clock])
  /\ UNCHANGED <<status, rate, settled, balance, parkBalance, driverLedger, ledger, payouts, invoices>>

\* The row of the invoice is locked, the latest rows of two ledgers are read.  A
\* negative debt violates a CHECK and fails the transaction.
PostInvoicePayment(p) ==
  /\ job[p].pc = "paying"
  /\ LET i == job[p].invoice
     IN /\ \A q \in Proc \ {p} : ~(job[q].pc = "paid" /\ job[q].invoice = i)
        /\ AfterPaying(invoices[i])["fee"] >= 0
        /\ Goto(p, [job[p] EXCEPT !.pc = "paid", !.after = AfterPaying(invoices[i])])
  /\ UNCHANGED <<status, rate, settled, balance, parkBalance, driverLedger, ledger, payouts, invoices, clock>>

MarkAdminPlatformInvoicePaid(p) ==
  /\ job[p].pc = "paid"
  /\ LET i == job[p].invoice
         amount == [n \in Ledger |-> invoices[i].amount]
         posting == Posting(p, i, "payment", invoices[i].park, amount, i)
     IN /\ invoices' = [invoices EXCEPT ![i].status = "paid"]
        /\ ledger' = [n \in Ledger |-> IF n = "park" THEN ledger[n] ELSE ledger[n] \union {posting[n]}]
  /\ Goto(p, Idle)
  /\ UNCHANGED <<status, rate, settled, balance, parkBalance, driverLedger, payouts, clock>>

-----------------------------------------------------------------------------
Settle(p) ==
  \/ \E o \in Order : CompleteOrder(p, o)
  \/ TakeSnapshot(p) \/ BeginSettlement(p) \/ PostSettlement(p) \/ CommitSettlement(p)
  \/ Answer(p) \/ Fail(p)

PayOut ==
  \E y \in Payout :
    \/ \E d \in Driver, k \in Park, amount \in Amounts : CreateDriverPayout(y, d, k, amount)
    \/ ApproveDriverPayout(y)
    \/ MarkDriverPayoutPaid(y)

Bill(p) ==
  \/ \E i \in Invoice, k \in Park, period \in Periods : SumAccruals(p, i, k, period)
  \/ CreateTaxiParkPlatformInvoice(p)
  \/ \E i \in Invoice : BeginInvoicePayment(p, i)
  \/ PostInvoicePayment(p)
  \/ MarkAdminPlatformInvoicePaid(p)

Next ==
  \/ \E p \in Proc : Settle(p) \/ Bill(p)
  \/ \E k \in Park, bps \in Rates : UpdateTaxiParkDriverCommission(k, bps)
  \/ PayOut

Spec == Init /\ [][Next]_vars

-----------------------------------------------------------------------------
(* Properties.                                                             *)

SettledOf(d, k) == {o \in Order : settled[o] # None /\ DriverOf[o] = d /\ ParkOf[o] = k}
PaidTo(d, k) == {y \in Payout : payouts[y] # None /\ payouts[y].status = "paid"
                                /\ payouts[y].driver = d /\ payouts[y].park = k}
SettledIn(k) == {o \in Order : settled[o] # None /\ ParkOf[o] = k}
Accruals(n, k) == {e \in RowsOf(n, k) : e.kind = "accrual"}

(* However often an order is completed and settled, and whatever fails in    *)
(* between, money appears once: a driver's balance is the income of the      *)
(* settled orders less the payouts made, a park's the commissions, and each  *)
(* ledger has booked the same (finance_repository.go, CreateOrderSettlement). *)
BooksBalance ==
  /\ \A d \in Driver, k \in Park \union {NoPark} :
       balance[d][k] = SumFunction([o \in SettledOf(d, k) |-> settled[o].net])
                       - SumFunction([y \in PaidTo(d, k) |-> payouts[y].amount])
  /\ \A k \in Park :
       /\ parkBalance[k] = SumFunction([o \in SettledIn(k) |-> settled[o].commission])
       /\ AmountOf(Accruals("park", k)) = parkBalance[k]
       /\ \A n \in {"fee", "platform"} :
            AmountOf(Accruals(n, k)) = SumFunction([o \in SettledIn(k) |-> settled[o].fee])

(* A request that is told of a settlement is told of the one on record, also *)
(* when it computed another because the commission changed while two         *)
(* requests settled the order (getCommittedOrderSettlement).                 *)
AnswerIsOnRecord ==
  \A p \in Proc : job[p].pc = "answered" => settled[job[p].order] = job[p].terms

Lines(d, k, kind, i) ==
  {j \in 1..i : driverLedger[j].driver = d /\ driverLedger[j].park = k /\ driverLedger[j].kind = kind}
Total(lines) == SumFunction([j \in lines |-> driverLedger[j].amount])
Statement(d, k, i) == Total(Lines(d, k, "order_income", i)) - Total(Lines(d, k, "payout", i))

(* The lines of a driver's statement add up in the order they were written,  *)
(* with settlements and payouts in parallel (driverParkBalanceInTransaction). *)
DriverLedgerRuns ==
  \A i \in DOMAIN driverLedger :
    driverLedger[i].after = Statement(driverLedger[i].driver, driverLedger[i].park, i)

(* No later completion, commission or failure changes a settlement.          *)
SettlementIsFinal ==
  [][\A o \in Order : settled[o] # None => settled'[o] = settled[o]]_vars

(* An accrual that one invoice has claimed is never claimed by another, with  *)
(* invoices of any periods issued at once (CreateTaxiParkPlatformInvoice).    *)
BilledOnce ==
  [][\A e \in ledger["fee"] : e.invoice # None => e \in ledger'["fee"]]_vars

Overlap(a, b) == a[1] < b[2] /\ b[1] < a[2]

(* An invoice whose period no other invoice of the park overlaps asks for no  *)
(* more than the accruals it has claimed.                                    *)
NotOverbilled ==
  \A i \in Invoice :
    ( /\ invoices[i] # None
      /\ \A j \in Invoice \ {i} : invoices[j] # None /\ invoices[j].park = invoices[i].park
           => ~Overlap(invoices[i].period, invoices[j].period) )
    => invoices[i].amount <=
         AmountOf({e \in Accruals("fee", invoices[i].park) : e.invoice = i})
=============================================================================
