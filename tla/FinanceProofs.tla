--------------------------- MODULE FinanceProofs ---------------------------
(***************************************************************************)
(* What is proved of the money, for any orders, prices, commissions, parks *)
(* and any number of requests at once: an order is settled once and        *)
(* whoever asks is told of that settlement; every balance is that of the   *)
(* books; a statement adds up; an accrual is billed once and an invoice    *)
(* asks for no more than it claims; and no payouts exceed what was earned  *)
(* (Earnings).                                                             *)
(***************************************************************************)
EXTENDS FinanceRefinement, Sums

\* What a request is at is a record of these columns.
IsJob(j) ==
  j = [pc |-> j.pc, order |-> j.order, invoice |-> j.invoice, period |-> j.period,
       terms |-> j.terms, at |-> j.at, after |-> j.after, sum |-> j.sum]

LEMMA Columns ==
  ASSUME NEW pc, NEW o, NEW i, NEW k, NEW terms, NEW at, NEW after, NEW sum,
         NEW r \in [pc: {pc}, order: {o}, invoice: {i}, period: {k},
                    terms: {terms}, at: {at}, after: {after}, sum: {sum}]
  PROVE  /\ IsJob(r) /\ r.pc = pc /\ r.order = o /\ r.terms = terms
         /\ r.invoice = i /\ r.period = k /\ r.at = at /\ r.after = after /\ r.sum = sum
  BY DEF IsJob

Nothing == [m \in Ledger |-> 0]

LEMMA IdleColumns ==
  Idle \in [pc: {"idle"}, order: {None}, invoice: {None}, period: {None},
            terms: {None}, at: {0}, after: {Nothing}, sum: {0}]
  BY DEF Idle, Nothing

LEMMA JobColumns ==
  ASSUME NEW j, IsJob(j)
  PROVE  j \in [pc: {j.pc}, order: {j.order}, invoice: {j.invoice}, period: {j.period},
                terms: {j.terms}, at: {j.at}, after: {j.after}, sum: {j.sum}]
  BY DEF IsJob

-----------------------------------------------------------------------------
(* The invariant: what a request has computed and what it holds.           *)

\* The unique keys of an order that p holds: no settlement is there, and no other
\* request holds them.
Keeps(p, o) ==
  /\ settled[o] = None
  /\ \A q \in Proc \ {p} : job[q].pc = "settled" => job[q].order # o

\* A request that is at j.
Fit(p, j) ==
  /\ IsJob(j)
  /\ j.pc \in {"completed", "priced", "settling", "settled", "answered"} => j.order \in Order
  /\ j.pc \in {"priced", "settling", "settled", "answered"} => j.terms # None
  /\ j.pc = "settled" => Keeps(p, j.order)
  /\ j.pc = "answered" => settled[j.order] = j.terms

SettleInv ==
  /\ settled = [o \in Order |-> settled[o]]
  /\ job = [p \in Proc |-> job[p]]
  /\ rate \in [Park -> Rates]
  /\ \A p \in Proc : Fit(p, job[p])

BasisPoints == 0..10000

\* A share of an amount is a whole amount, and no more than the amount.
LEMMA ShareOfAmount ==
  ASSUME NEW amount \in Nat, NEW bps \in BasisPoints
  PROVE  Share(amount, bps) \in Nat /\ Share(amount, bps) <= amount
  <1>. DEFINE part == amount * bps
              rest == amount * (10000 - bps)
  <1>1. part \in Nat /\ rest \in Nat
    <2>1. \A m, n \in Nat : m * n \in Nat
      OBVIOUS
    <2>2. bps \in Nat /\ 10000 - bps \in Nat
      BY DEF BasisPoints
    <2>. QED  BY <2>1, <2>2
  <1>2. part + rest = amount * 10000
    <2>1. bps \in Int
      BY DEF BasisPoints
    <2>. QED  BY <2>1
  <1>. HIDE DEF part, rest
  <1>3. part <= amount * 10000
    BY <1>1, <1>2
  <1>4. (part + 5000) \div 10000 \in Nat /\ (part + 5000) \div 10000 <= amount
    BY <1>1, <1>3
  <1>. QED  BY <1>4 DEF part, Share

\* What a price is split into are whole amounts.
LEMMA TermsComputed ==
  ASSUME rate \in [Park -> Rates], NEW o \in Order
  PROVE  Terms(PriceOf[o], CommissionRate(o), FeeRate) \in Settlement
  <1>0. PriceOf[o] \in Nat /\ FeeRate \in BasisPoints /\ Rates \subseteq BasisPoints
    BY OrderAssumption, RateAssumption DEF BasisPoints
  <1>1. CommissionRate(o) \in BasisPoints
    <2>1. CASE ParkOf[o] \in Park
      BY <1>0, <2>1 DEF CommissionRate
    <2>2. CASE ParkOf[o] \notin Park
      BY <2>2 DEF CommissionRate, BasisPoints
    <2>. QED  BY <2>1, <2>2
  <1>2. \A bps \in BasisPoints : ResolveCommissionRate(bps) \in BasisPoints
    BY DEF ResolveCommissionRate, DefaultCommission, BasisPoints
  <1>3. \A amount \in Nat : \A bps \in BasisPoints : Share(amount, bps) \in Nat /\ Share(amount, bps) <= amount
    BY ShareOfAmount
  <1>. DEFINE c == CalculateCommission(PriceOf[o], CommissionRate(o))
              f == CalculatePlatformFee(c, FeeRate)
  <1>4. c \in Nat /\ c <= PriceOf[o]
    BY <1>0, <1>1, <1>2, <1>3 DEF CalculateCommission
  <1>. HIDE DEF c
  <1>5. f \in Nat
    BY <1>0, <1>2, <1>3, <1>4 DEF CalculatePlatformFee
  <1>6. Terms(PriceOf[o], CommissionRate(o), FeeRate) =
          [gross |-> PriceOf[o], commission |-> c, net |-> PriceOf[o] - c, fee |-> f]
    BY DEF Terms, c
  <1>. HIDE DEF f
  <1>7. PriceOf[o] - c \in Nat
    BY <1>0, <1>4
  <1>. QED  BY <1>0, <1>4, <1>5, <1>6, <1>7 DEF Settlement

\* A request goes on, and no settlement is written.
LEMMA JobStepped ==
  ASSUME SettleInv, NEW p \in Proc, NEW j, Fit(p, j), job' = [job EXCEPT ![p] = j],
         settled' = settled, rate' = rate
  PROVE  SettleInv'
  <1>1. job' = [q \in Proc |-> IF q = p THEN j ELSE job[q]]
    BY DEF SettleInv
  <1>2. ASSUME NEW q \in Proc  PROVE Fit(q, job[q])'
    <2>1. CASE q = p
      <3>1. job'[q] = j
        BY <1>1, <2>1
      <3>2. \A r \in Proc \ {p} : job'[r] = job[r]
        BY <1>1
      <3>. QED  BY <2>1, <3>1, <3>2 DEF Fit, Keeps
    <2>2. CASE q # p
      <3>1. job'[q] = job[q] /\ job'[p] = j /\ Fit(q, job[q])
        BY <1>1, <2>2 DEF SettleInv
      <3>2. job[q].pc = "settled" /\ j.pc = "settled" => j.order # job[q].order
        BY <2>2 DEF Fit, Keeps
      <3>3. \A r \in Proc \ {q} : job'[r] = job[r] \/ job'[r] = j
        BY <1>1
      <3>. QED  BY <3>1, <3>2, <3>3 DEF Fit, Keeps
    <2>. QED  BY <2>1, <2>2
  <1>3. job' = [q \in Proc |-> job'[q]]
    BY <1>1
  <1>. QED  BY <1>2, <1>3 DEF SettleInv

\* Whatever is told of a settlement on record fits.
LEMMA Told ==
  ASSUME SettleInv, NEW p \in Proc, NEW o \in Order, NEW terms, terms # None, settled[o] = terms
  PROVE  Fit(p, [Idle EXCEPT !.pc = "answered", !.order = o, !.terms = terms])
  <1>. DEFINE j == [Idle EXCEPT !.pc = "answered", !.order = o, !.terms = terms]
  <1>1. j \in [pc: {"answered"}, order: {o}, invoice: {None}, period: {None},
            terms: {terms}, at: {0}, after: {Nothing}, sum: {0}]
    BY IdleColumns
  <1>. HIDE DEF j
  <1>2. IsJob(j) /\ j.pc = "answered" /\ j.order = o /\ j.terms = terms
    BY <1>1, Columns
  <1>3. Fit(p, j)
    BY <1>2 DEF Fit
  <1>. QED  BY <1>3 DEF j

\* So does a request that is idle,
LEMMA IdleFits ==
  ASSUME NEW p \in Proc
  PROVE  Fit(p, Idle)
  <1>1. IsJob(Idle) /\ Idle.pc = "idle"
    BY IdleColumns, Columns
  <1>. QED  BY <1>1 DEF Fit

\* one that has completed its order,
LEMMA Completed ==
  ASSUME SettleInv, NEW p \in Proc, NEW o \in Order
  PROVE  Fit(p, [Idle EXCEPT !.pc = "completed", !.order = o])
  <1>. DEFINE j == [Idle EXCEPT !.pc = "completed", !.order = o]
  <1>1. j \in [pc: {"completed"}, order: {o}, invoice: {None}, period: {None},
            terms: {None}, at: {0}, after: {Nothing}, sum: {0}]
    BY IdleColumns
  <1>. HIDE DEF j
  <1>2. IsJob(j) /\ j.pc = "completed" /\ j.order = o
    BY <1>1, Columns
  <1>3. Fit(p, j)
    BY <1>2 DEF Fit
  <1>. QED  BY <1>3 DEF j

\* one that bills,
LEMMA Billing ==
  ASSUME SettleInv, NEW p \in Proc, NEW i, NEW k, NEW n
  PROVE  Fit(p, [Idle EXCEPT !.pc = "billing", !.invoice = i, !.period = k, !.sum = n])
  <1>. DEFINE j == [Idle EXCEPT !.pc = "billing", !.invoice = i, !.period = k, !.sum = n]
  <1>1. j \in [pc: {"billing"}, order: {None}, invoice: {i}, period: {k},
            terms: {None}, at: {0}, after: {Nothing}, sum: {n}]
    BY IdleColumns
  <1>. HIDE DEF j
  <1>2. IsJob(j) /\ j.pc = "billing"
    BY <1>1, Columns
  <1>3. Fit(p, j)
    BY <1>2 DEF Fit
  <1>. QED  BY <1>3 DEF j

\* and one that pays an invoice.
LEMMA Paying ==
  ASSUME SettleInv, NEW p \in Proc, NEW i, NEW n
  PROVE  Fit(p, [Idle EXCEPT !.pc = "paying", !.invoice = i, !.at = n])
  <1>. DEFINE j == [Idle EXCEPT !.pc = "paying", !.invoice = i, !.at = n]
  <1>1. j \in [pc: {"paying"}, order: {None}, invoice: {i}, period: {None},
            terms: {None}, at: {n}, after: {Nothing}, sum: {0}]
    BY IdleColumns
  <1>. HIDE DEF j
  <1>2. IsJob(j) /\ j.pc = "paying"
    BY <1>1, Columns
  <1>3. Fit(p, j)
    BY <1>2 DEF Fit
  <1>. QED  BY <1>3 DEF j

\* A request goes on with what it has computed,
LEMMA Priced ==
  ASSUME SettleInv, NEW p \in Proc, NEW terms, terms # None, job[p].pc = "completed"
  PROVE  Fit(p, [job[p] EXCEPT !.pc = "priced", !.terms = terms])
  <1>. DEFINE j == [job[p] EXCEPT !.pc = "priced", !.terms = terms]
  <1>0. IsJob(job[p]) /\ Fit(p, job[p])
    BY DEF SettleInv, Fit
  <1>1. j \in [pc: {"priced"}, order: {job[p].order}, invoice: {job[p].invoice}, period: {job[p].period},
            terms: {terms}, at: {job[p].at}, after: {job[p].after}, sum: {job[p].sum}]
    BY <1>0, JobColumns, ZenonT(60)
  <1>. HIDE DEF j
  <1>2. IsJob(j) /\ j.pc = "priced" /\ j.order = job[p].order /\ j.terms = terms
    BY <1>1, Columns
  <1>3. Fit(p, j)
    BY <1>0, <1>2 DEF Fit
  <1>. QED  BY <1>3 DEF j

\* begins its transaction,
LEMMA Settling ==
  ASSUME SettleInv, NEW p \in Proc, NEW n, job[p].pc = "priced"
  PROVE  Fit(p, [job[p] EXCEPT !.pc = "settling", !.at = n])
  <1>. DEFINE j == [job[p] EXCEPT !.pc = "settling", !.at = n]
  <1>0. IsJob(job[p]) /\ Fit(p, job[p])
    BY DEF SettleInv, Fit
  <1>1. j \in [pc: {"settling"}, order: {job[p].order}, invoice: {job[p].invoice}, period: {job[p].period},
            terms: {job[p].terms}, at: {n}, after: {job[p].after}, sum: {job[p].sum}]
    BY <1>0, JobColumns, ZenonT(60)
  <1>. HIDE DEF j
  <1>2. IsJob(j) /\ j.pc = "settling" /\ j.order = job[p].order /\ j.terms = job[p].terms
    BY <1>1, Columns
  <1>3. Fit(p, j)
    BY <1>0, <1>2 DEF Fit
  <1>. QED  BY <1>3 DEF j

\* and takes the keys of its order.
LEMMA Settled ==
  ASSUME SettleInv, NEW p \in Proc, NEW after, job[p].pc = "settling", Keeps(p, job[p].order)
  PROVE  Fit(p, [job[p] EXCEPT !.pc = "settled", !.after = after])
  <1>. DEFINE j == [job[p] EXCEPT !.pc = "settled", !.after = after]
  <1>0. IsJob(job[p]) /\ Fit(p, job[p])
    BY DEF SettleInv, Fit
  <1>1. j \in [pc: {"settled"}, order: {job[p].order}, invoice: {job[p].invoice}, period: {job[p].period},
            terms: {job[p].terms}, at: {job[p].at}, after: {after}, sum: {job[p].sum}]
    BY <1>0, JobColumns, ZenonT(60)
  <1>. HIDE DEF j
  <1>2. IsJob(j) /\ j.pc = "settled" /\ j.order = job[p].order /\ j.terms = job[p].terms
    BY <1>1, Columns
  <1>3. Fit(p, j)
    BY <1>0, <1>2 DEF Fit
  <1>. QED  BY <1>3 DEF j

\* A payment of an invoice goes on.
LEMMA Paid ==
  ASSUME SettleInv, NEW p \in Proc, NEW after, job[p].pc = "paying"
  PROVE  Fit(p, [job[p] EXCEPT !.pc = "paid", !.after = after])
  <1>. DEFINE j == [job[p] EXCEPT !.pc = "paid", !.after = after]
  <1>0. IsJob(job[p]) /\ Fit(p, job[p])
    BY DEF SettleInv, Fit
  <1>1. j \in [pc: {"paid"}, order: {job[p].order}, invoice: {job[p].invoice}, period: {job[p].period},
            terms: {job[p].terms}, at: {job[p].at}, after: {after}, sum: {job[p].sum}]
    BY <1>0, JobColumns, ZenonT(60)
  <1>. HIDE DEF j
  <1>2. IsJob(j) /\ j.pc = "paid"
    BY <1>1, Columns
  <1>3. Fit(p, j)
    BY <1>0, <1>2 DEF Fit
  <1>. QED  BY <1>3 DEF j

-----------------------------------------------------------------------------
(* The steps of a request.                                                 *)

LEMMA CompleteKeeps ==
  ASSUME SettleInv, NEW p \in Proc, NEW o \in Order, CompleteOrder(p, o)
  PROVE  SettleInv'
  <1>1. /\ job' = [job EXCEPT ![p] = [Idle EXCEPT !.pc = "completed", !.order = o]]
        /\ settled' = settled /\ rate' = rate
    BY DEF CompleteOrder, Goto
  <1>2. Fit(p, [Idle EXCEPT !.pc = "completed", !.order = o])
    BY Completed
  <1>. QED  BY <1>1, <1>2, JobStepped

LEMMA SnapshotKeeps ==
  ASSUME SettleInv, NEW p \in Proc, TakeSnapshot(p)
  PROVE  SettleInv'
  <1>. DEFINE terms == Terms(PriceOf[job[p].order], CommissionRate(job[p].order), FeeRate)
  <1>1. /\ job' = [job EXCEPT ![p] = [job[p] EXCEPT !.pc = "priced", !.terms = terms]]
        /\ settled' = settled /\ rate' = rate /\ job[p].pc = "completed"
    BY DEF TakeSnapshot, Goto
  <1>2. job[p].order \in Order
    BY <1>1 DEF SettleInv, Fit
  <1>3. terms # None
    BY <1>2, TermsComputed, NoneAssumption DEF SettleInv
  <1>. HIDE DEF terms
  <1>4. Fit(p, [job[p] EXCEPT !.pc = "priced", !.terms = terms])
    BY <1>1, <1>3, Priced
  <1>. QED  BY <1>1, <1>4, JobStepped

\* A request is told of the settlement on record.
LEMMA TellingKeeps ==
  ASSUME SettleInv, NEW p \in Proc, AnswerCommitted(p), job[p].order \in Order, settled[job[p].order] # None,
         settled' = settled, rate' = rate
  PROVE  SettleInv'
  <1>. DEFINE o == job[p].order
              terms == settled[o]
  <1>1. job' = [job EXCEPT ![p] = [Idle EXCEPT !.pc = "answered", !.order = o, !.terms = terms]]
    BY DEF AnswerCommitted, Answered, Goto
  <1>2. o \in Order /\ terms # None /\ settled[o] = terms
    OBVIOUS
  <1>. HIDE DEF o, terms
  <1>3. Fit(p, [Idle EXCEPT !.pc = "answered", !.order = o, !.terms = terms])
    BY <1>2, Told
  <1>. QED  BY <1>1, <1>3, JobStepped

LEMMA BeginKeeps ==
  ASSUME SettleInv, NEW p \in Proc, BeginSettlement(p)
  PROVE  SettleInv'
  <1>1. settled' = settled /\ rate' = rate /\ job[p].pc = "priced"
    BY DEF BeginSettlement
  <1>2. job[p].order \in Order
    BY <1>1 DEF SettleInv, Fit
  <1>3. CASE settled[job[p].order] # None
    <2>1. AnswerCommitted(p)
      BY <1>3 DEF BeginSettlement
    <2>. QED  BY <1>1, <1>2, <1>3, <2>1, TellingKeeps
  <1>4. CASE settled[job[p].order] = None
    <2>1. job' = [job EXCEPT ![p] = [job[p] EXCEPT !.pc = "settling", !.at = clock]]
      BY <1>4 DEF BeginSettlement, Goto
    <2>2. Fit(p, [job[p] EXCEPT !.pc = "settling", !.at = clock])
      BY <1>1, Settling
    <2>. QED  BY <1>1, <2>1, <2>2, JobStepped
  <1>. QED  BY <1>3, <1>4

LEMMA PostKeeps ==
  ASSUME SettleInv, NEW p \in Proc, PostSettlement(p)
  PROVE  SettleInv'
  <1>1. settled' = settled /\ rate' = rate /\ job[p].pc = "settling"
    BY DEF PostSettlement
  <1>2. job[p].order \in Order
    BY <1>1 DEF SettleInv, Fit
  <1>3. CASE settled[job[p].order] # None
    <2>1. AnswerCommitted(p)
      BY <1>3 DEF PostSettlement, Conflicts
    <2>. QED  BY <1>1, <1>2, <1>3, <2>1, TellingKeeps
  <1>4. CASE settled[job[p].order] = None
    <2>. DEFINE after == AfterSettling(ParkOf[job[p].order], job[p].terms)
    <2>1. job' = [job EXCEPT ![p] = [job[p] EXCEPT !.pc = "settled", !.after = after]]
      BY <1>4 DEF PostSettlement, Conflicts, Goto
    <2>2. Keeps(p, job[p].order)
      BY <1>4 DEF PostSettlement, Holds, Keeps
    <2>. HIDE DEF after
    <2>3. Fit(p, [job[p] EXCEPT !.pc = "settled", !.after = after])
      BY <1>1, <2>2, Settled
    <2>. QED  BY <1>1, <2>1, <2>3, JobStepped
  <1>. QED  BY <1>3, <1>4

\* The settlement that is committed is the first of its order.
LEMMA CommitKeeps ==
  ASSUME SettleInv, NEW p \in Proc, CommitSettlement(p)
  PROVE  /\ SettleInv'
         /\ \A o \in Order : settled[o] # None => settled'[o] = settled[o]
  <1>. DEFINE o == job[p].order
              terms == job[p].terms
              j == [Idle EXCEPT !.pc = "answered", !.order = o, !.terms = terms]
  <1>1. /\ settled' = [settled EXCEPT ![o] = terms] /\ rate' = rate
        /\ job' = [job EXCEPT ![p] = j]
        /\ job[p].pc = "settled"
    BY DEF CommitSettlement, Answered, Goto
  <1>2. o \in Order /\ terms # None /\ Keeps(p, o)
    BY <1>1 DEF SettleInv, Fit
  <1>3. j \in [pc: {"answered"}, order: {o}, invoice: {None}, period: {None},
               terms: {terms}, at: {0}, after: {Nothing}, sum: {0}]
    BY IdleColumns
  <1>. HIDE DEF o, terms, j
  <1>4. IsJob(j) /\ j.pc = "answered" /\ j.order = o /\ j.terms = terms
    BY <1>3, Columns
  <1>5. /\ settled' = [q \in Order |-> IF q = o THEN terms ELSE settled[q]]
        /\ job' = [q \in Proc |-> IF q = p THEN j ELSE job[q]]
    BY <1>1, <1>2 DEF SettleInv
  <1>6. settled[o] = None /\ settled'[o] = terms /\ \A q \in Order \ {o} : settled'[q] = settled[q]
    BY <1>2, <1>5 DEF Keeps
  <1>7. ASSUME NEW q \in Proc  PROVE Fit(q, job[q])'
    <2>1. CASE q = p
      <3>1. job'[q] = j
        BY <1>5, <2>1
      <3>. QED  BY <1>2, <1>4, <1>6, <3>1 DEF Fit
    <2>2. CASE q # p
      <3>1. job'[q] = job[q] /\ Fit(q, job[q]) /\ (job[q].pc = "settled" => job[q].order # o)
        BY <1>2, <1>5, <2>2 DEF SettleInv, Keeps
      <3>2. \A r \in Proc : job'[r].pc = "settled" => job'[r] = job[r]
        BY <1>4, <1>5
      <3>3. job[q].pc = "settled" => Keeps(q, job[q].order)'
        BY <1>6, <3>1, <3>2 DEF Keeps, Fit
      <3>4. job[q].pc = "answered" => settled'[job[q].order] = job[q].terms
        BY <1>6, <3>1 DEF Fit
      <3>. QED  BY <3>1, <3>3, <3>4 DEF Fit
    <2>. QED  BY <2>1, <2>2
  <1>8. settled' = [q \in Order |-> settled'[q]] /\ job' = [q \in Proc |-> job'[q]]
    BY <1>5
  <1>. QED  BY <1>1, <1>6, <1>7, <1>8 DEF SettleInv

\* A request that has its answer, fails or has dealt with an invoice is idle.
LEMMA IdleKeeps ==
  ASSUME SettleInv, NEW p \in Proc, job' = [job EXCEPT ![p] = Idle], settled' = settled, rate' = rate
  PROVE  SettleInv'
  BY IdleFits, JobStepped

LEMMA SumKeeps ==
  ASSUME SettleInv, NEW p \in Proc, NEW i \in Invoice, NEW k \in Park, NEW period \in Periods, SumAccruals(p, i, k, period)
  PROVE  SettleInv'
  <1>1. /\ job' = [job EXCEPT ![p] = [Idle EXCEPT !.pc = "billing", !.invoice = i, !.period = <<k, period>>, !.sum = AmountOf(Unbilled(k, period))]]
        /\ settled' = settled /\ rate' = rate
    BY DEF SumAccruals, Goto
  <1>2. Fit(p, [Idle EXCEPT !.pc = "billing", !.invoice = i, !.period = <<k, period>>, !.sum = AmountOf(Unbilled(k, period))])
    BY Billing
  <1>. QED  BY <1>1, <1>2, JobStepped

LEMMA PayBeginKeeps ==
  ASSUME SettleInv, NEW p \in Proc, NEW i \in Invoice, BeginInvoicePayment(p, i)
  PROVE  SettleInv'
  <1>1. /\ job' = [job EXCEPT ![p] = [Idle EXCEPT !.pc = "paying", !.invoice = i, !.at = clock]]
        /\ settled' = settled /\ rate' = rate
    BY DEF BeginInvoicePayment, Goto
  <1>2. Fit(p, [Idle EXCEPT !.pc = "paying", !.invoice = i, !.at = clock])
    BY Paying
  <1>. QED  BY <1>1, <1>2, JobStepped

LEMMA PayPostKeeps ==
  ASSUME SettleInv, NEW p \in Proc, PostInvoicePayment(p)
  PROVE  SettleInv'
  <1>1. /\ job' = [job EXCEPT ![p] = [job[p] EXCEPT !.pc = "paid", !.after = AfterPaying(invoices[job[p].invoice])]]
        /\ settled' = settled /\ rate' = rate /\ job[p].pc = "paying"
    BY DEF PostInvoicePayment, Goto
  <1>2. Fit(p, [job[p] EXCEPT !.pc = "paid", !.after = AfterPaying(invoices[job[p].invoice])])
    BY <1>1, Paid
  <1>. QED  BY <1>1, <1>2, JobStepped

LEMMA OthersKeep ==
  ASSUME SettleInv, job' = job, settled' = settled, rate' \in [Park -> Rates]
  PROVE  SettleInv'
  BY DEF SettleInv, Fit, Keeps

LEMMA SettleInit == Init => SettleInv
  <1>. SUFFICES ASSUME Init  PROVE SettleInv
    OBVIOUS
  <1>1. /\ settled = [o \in Order |-> None] /\ job = [p \in Proc |-> Idle]
        /\ rate = [k \in Park |-> InitialRate]
    BY DEF Init
  <1>2. \A p \in Proc : Fit(p, job[p])
    BY <1>1, IdleFits
  <1>3. rate \in [Park -> Rates]
    BY <1>1, RateAssumption
  <1>. QED  BY <1>1, <1>2, <1>3 DEF SettleInv

\* A step keeps the invariant, and what has been settled.
LEMMA SettleStep ==
  ASSUME SettleInv, [Next]_vars
  PROVE  SettleInv' /\ \A o \in Order : settled[o] # None => settled'[o] = settled[o]
  <1>1. ASSUME NEW p \in Proc, NEW o \in Order, CompleteOrder(p, o)
        PROVE  SettleInv' /\ settled' = settled
    BY <1>1, CompleteKeeps DEF CompleteOrder
  <1>2. ASSUME NEW p \in Proc, TakeSnapshot(p)
        PROVE  SettleInv' /\ settled' = settled
    BY <1>2, SnapshotKeeps DEF TakeSnapshot
  <1>3. ASSUME NEW p \in Proc, BeginSettlement(p)
        PROVE  SettleInv' /\ settled' = settled
    BY <1>3, BeginKeeps DEF BeginSettlement
  <1>4. ASSUME NEW p \in Proc, PostSettlement(p)
        PROVE  SettleInv' /\ settled' = settled
    BY <1>4, PostKeeps DEF PostSettlement
  <1>5. ASSUME NEW p \in Proc, Answer(p) \/ Fail(p) \/ CreateTaxiParkPlatformInvoice(p) \/ MarkAdminPlatformInvoicePaid(p)
        PROVE  SettleInv' /\ settled' = settled
    BY <1>5, IdleKeeps DEF Answer, Fail, CreateTaxiParkPlatformInvoice, MarkAdminPlatformInvoicePaid, Goto
  <1>6. ASSUME NEW p \in Proc, NEW i \in Invoice, NEW k \in Park, NEW period \in Periods, SumAccruals(p, i, k, period)
        PROVE  SettleInv' /\ settled' = settled
    BY <1>6, SumKeeps DEF SumAccruals
  <1>7. ASSUME NEW p \in Proc, NEW i \in Invoice, BeginInvoicePayment(p, i)
        PROVE  SettleInv' /\ settled' = settled
    BY <1>7, PayBeginKeeps DEF BeginInvoicePayment
  <1>8. ASSUME NEW p \in Proc, PostInvoicePayment(p)
        PROVE  SettleInv' /\ settled' = settled
    BY <1>8, PayPostKeeps DEF PostInvoicePayment
  <1>9. ASSUME NEW k \in Park, NEW bps \in Rates, UpdateTaxiParkDriverCommission(k, bps)
        PROVE  SettleInv' /\ settled' = settled
    <2>1. job' = job /\ settled' = settled /\ rate' \in [Park -> Rates]
      BY <1>9 DEF UpdateTaxiParkDriverCommission, SettleInv
    <2>. QED  BY <2>1, OthersKeep
  <1>10. ASSUME PayOut
         PROVE  SettleInv' /\ settled' = settled
    <2>1. job' = job /\ settled' = settled /\ rate' = rate
      BY <1>10 DEF PayOut, CreateDriverPayout, ApproveDriverPayout, MarkDriverPayoutPaid
    <2>. QED  BY <2>1, OthersKeep DEF SettleInv
  <1>11. ASSUME UNCHANGED vars
         PROVE  SettleInv' /\ settled' = settled
    BY <1>11, OthersKeep DEF vars, SettleInv
  <1>12. CASE \E p \in Proc : CommitSettlement(p)
    BY <1>12, CommitKeeps
  <1>13. CASE ~\E p \in Proc : CommitSettlement(p)
    BY <1>1, <1>2, <1>3, <1>4, <1>5, <1>6, <1>7, <1>8, <1>9, <1>10, <1>11, <1>13 DEF Next, Settle, Bill
  <1>. QED  BY <1>12, <1>13

-----------------------------------------------------------------------------
\* Of all requests that settle an order one writes, and its settlement stays,
\* whatever is repeated, fails or changes afterwards (CreateOrderSettlement).
THEOREM SettledOnce == Spec => SettlementIsFinal
  <1>1. Init => SettleInv
    BY SettleInit
  <1>2. SettleInv /\ [Next]_vars => SettleInv'
    BY SettleStep
  <1>3. SettleInv /\ [Next]_vars => [\A o \in Order : settled[o] # None => settled'[o] = settled[o]]_vars
    BY SettleStep
  <1>. QED  BY <1>1, <1>2, <1>3, PTL DEF Spec, SettlementIsFinal

\* Every answer is the settlement on record, also that of a request whose own
\* settlement came second (getCommittedOrderSettlement).
THEOREM AnswersOnRecord == Spec => []AnswerIsOnRecord
  <1>1. Init => SettleInv
    BY SettleInit
  <1>2. SettleInv /\ [Next]_vars => SettleInv'
    BY SettleStep
  <1>3. SettleInv => AnswerIsOnRecord
    BY DEF SettleInv, Fit, AnswerIsOnRecord
  <1>. QED  BY <1>1, <1>2, <1>3, PTL DEF Spec

-----------------------------------------------------------------------------
(* The tables: their columns, and that they are finite.                    *)

Line == [driver: Driver, park: Park \union {NoPark}, kind: {"order_income", "payout"}, amount: Nat, after: Nat]

SettledOrders == {o \in Order : settled[o] # None}
PayoutsMade == {y \in Payout : payouts[y] # None}

Tables ==
  /\ settled \in [Order -> Settlement \union {None}] /\ IsFiniteSet(SettledOrders)
  /\ balance \in [Driver -> [Park \union {NoPark} -> Nat]]
  /\ parkBalance \in [Park -> Nat]
  /\ driverLedger \in Seq(Line)
  /\ ledger \in [Ledger -> SUBSET Entry] /\ \A n \in Ledger : IsFiniteSet(ledger[n])
  /\ payouts \in [Payout -> PayoutRow \union {None}] /\ IsFiniteSet(PayoutsMade)
  /\ invoices \in [Invoice -> InvoiceRow \union {None}]

\* A finite ledger has a row that is latest.
LEMMA LatestRow ==
  ASSUME NEW S, IsFiniteSet(S), S # {}, S \subseteq Entry
  PROVE  \E e \in S : \A f \in S : f.at <= e.at
  <1>. DEFINE G == {U \in SUBSET S : U = {} \/ \E e \in U : \A f \in U : f.at <= e.at}
  <1>0. \A e \in S : e.at \in Nat
    BY DEF Entry
  <1>1. {} \in G
    OBVIOUS
  <1>2. ASSUME NEW U \in SUBSET S, NEW x \in S \ U, U \in G  PROVE U \union {x} \in G
    <2>1. CASE U = {}
      <3>1. \A f \in U \union {x} : f.at <= x.at
        BY <1>0, <2>1
      <3>. QED  BY <3>1
    <2>2. CASE U # {}
      <3>1. PICK e \in U : \A f \in U : f.at <= e.at
        BY <1>2, <2>2
      <3>2. CASE x.at <= e.at
        <4>1. \A f \in U \union {x} : f.at <= e.at
          BY <3>1, <3>2
        <4>. QED  BY <4>1
      <3>3. CASE ~(x.at <= e.at)
        <4>1. \A f \in U \union {x} : f.at <= x.at
          <5>1. x.at \in Nat /\ e.at \in Nat /\ \A f \in U : f.at \in Nat
            BY <1>0
          <5>. QED  BY <3>1, <3>3, <5>1
        <4>. QED  BY <4>1
      <3>. QED  BY <3>2, <3>3
    <2>. QED  BY <2>1, <2>2
  <1>. HIDE DEF G
  <1>3. S \in G
    BY <1>1, <1>2, SetInduction
  <1>. QED  BY <1>3 DEF G

\* Its balance is a number.
LEMMA LatestBalanceInt ==
  ASSUME Tables, NEW n \in Ledger, NEW k
  PROVE  LatestBalance(n, k) \in Int
  <1>. DEFINE S == RowsOf(n, k)
  <1>1. S \subseteq ledger[n] /\ ledger[n] \subseteq Entry
    BY DEF RowsOf, Tables
  <1>2. IsFiniteSet(S)
    BY <1>1, FS_Subset DEF Tables
  <1>3. CASE S = {}
    BY <1>3 DEF LatestBalance
  <1>4. CASE S # {}
    <2>1. LatestBalance(n, k) = (CHOOSE e \in S : \A f \in S : f.at <= e.at).after
      BY <1>4 DEF LatestBalance
    <2>. HIDE DEF S
    <2>2. \E e \in S : \A f \in S : f.at <= e.at
      BY <1>1, <1>2, <1>4, LatestRow
    <2>3. (CHOOSE e \in S : \A f \in S : f.at <= e.at) \in Entry
      BY <1>1, <2>2
    <2>. QED  BY <2>1, <2>3 DEF Entry
  <1>. QED  BY <1>3, <1>4

-----------------------------------------------------------------------------
(* What requests are at.                                                   *)

Pcs == {"idle", "completed", "priced", "settling", "settled", "answered", "billing", "paying", "paid"}

\* The columns of a request that is at j.
Typed(j) ==
  /\ j.pc \in Pcs /\ j.at \in Nat /\ j.after \in [Ledger -> Int] /\ j.sum \in Nat
  /\ j.pc \in {"priced", "settling", "settled"} => j.terms \in Settlement
  /\ j.pc = "billing" => j.invoice \in Invoice /\ j.period \in Park \X Periods
  /\ j.pc \in {"paying", "paid"} => j.invoice \in Invoice /\ invoices[j.invoice] # None

Requests ==
  /\ status \in [Order -> Unfinished]
  /\ clock \in 0..MaxClock
  /\ \A p \in Proc : Typed(job[p])

LEMMA NothingIsNumbers == Nothing \in [Ledger -> Int]
  BY DEF Nothing

LEMMA IdleTyped == Typed(Idle)
  <1>1. /\ Idle.pc = "idle" /\ Idle.at = 0 /\ Idle.after = Nothing /\ Idle.sum = 0
    BY IdleColumns, Columns
  <1>. QED  BY <1>1, NothingIsNumbers DEF Typed, Pcs

LEMMA CompletedTyped ==
  ASSUME NEW o
  PROVE  Typed([Idle EXCEPT !.pc = "completed", !.order = o])
  <1>. DEFINE j == [Idle EXCEPT !.pc = "completed", !.order = o]
  <1>1. j \in [pc: {"completed"}, order: {o}, invoice: {None}, period: {None},
            terms: {None}, at: {0}, after: {Nothing}, sum: {0}]
    BY IdleColumns
  <1>. HIDE DEF j
  <1>2. j.pc = "completed" /\ j.at = 0 /\ j.after = Nothing /\ j.sum = 0
    BY <1>1, Columns
  <1>3. Typed(j)
    BY <1>2, NothingIsNumbers DEF Typed, Pcs
  <1>. QED  BY <1>3 DEF j

LEMMA AnsweredTyped ==
  ASSUME NEW o, NEW terms
  PROVE  Typed([Idle EXCEPT !.pc = "answered", !.order = o, !.terms = terms])
  <1>. DEFINE j == [Idle EXCEPT !.pc = "answered", !.order = o, !.terms = terms]
  <1>1. j \in [pc: {"answered"}, order: {o}, invoice: {None}, period: {None},
            terms: {terms}, at: {0}, after: {Nothing}, sum: {0}]
    BY IdleColumns
  <1>. HIDE DEF j
  <1>2. j.pc = "answered" /\ j.at = 0 /\ j.after = Nothing /\ j.sum = 0
    BY <1>1, Columns
  <1>3. Typed(j)
    BY <1>2, NothingIsNumbers DEF Typed, Pcs
  <1>. QED  BY <1>3 DEF j

LEMMA BillingTyped ==
  ASSUME NEW i \in Invoice, NEW k \in Park \X Periods, NEW n \in Nat
  PROVE  Typed([Idle EXCEPT !.pc = "billing", !.invoice = i, !.period = k, !.sum = n])
  <1>. DEFINE j == [Idle EXCEPT !.pc = "billing", !.invoice = i, !.period = k, !.sum = n]
  <1>1. j \in [pc: {"billing"}, order: {None}, invoice: {i}, period: {k},
            terms: {None}, at: {0}, after: {Nothing}, sum: {n}]
    BY IdleColumns
  <1>. HIDE DEF j
  <1>2. j.pc = "billing" /\ j.invoice = i /\ j.period = k /\ j.at = 0 /\ j.after = Nothing /\ j.sum = n
    BY <1>1, Columns
  <1>3. Typed(j)
    BY <1>2, NothingIsNumbers DEF Typed, Pcs
  <1>. QED  BY <1>3 DEF j

LEMMA PayingTyped ==
  ASSUME NEW i \in Invoice, invoices[i] # None, NEW n \in Nat
  PROVE  Typed([Idle EXCEPT !.pc = "paying", !.invoice = i, !.at = n])
  <1>. DEFINE j == [Idle EXCEPT !.pc = "paying", !.invoice = i, !.at = n]
  <1>1. j \in [pc: {"paying"}, order: {None}, invoice: {i}, period: {None},
            terms: {None}, at: {n}, after: {Nothing}, sum: {0}]
    BY IdleColumns
  <1>. HIDE DEF j
  <1>2. j.pc = "paying" /\ j.invoice = i /\ j.at = n /\ j.after = Nothing /\ j.sum = 0
    BY <1>1, Columns
  <1>3. Typed(j)
    BY <1>2, NothingIsNumbers DEF Typed, Pcs
  <1>. QED  BY <1>3 DEF j

LEMMA PricedTyped ==
  ASSUME NEW r, IsJob(r), Typed(r), NEW terms \in Settlement
  PROVE  Typed([r EXCEPT !.pc = "priced", !.terms = terms])
  <1>. DEFINE j == [r EXCEPT !.pc = "priced", !.terms = terms]
  <1>1. j \in [pc: {"priced"}, order: {r.order}, invoice: {r.invoice}, period: {r.period},
            terms: {terms}, at: {r.at}, after: {r.after}, sum: {r.sum}]
    BY JobColumns
  <1>. HIDE DEF j
  <1>2. j.pc = "priced" /\ j.terms = terms /\ j.at = r.at /\ j.after = r.after /\ j.sum = r.sum
    BY <1>1, Columns
  <1>3. Typed(j)
    BY <1>2 DEF Typed, Pcs
  <1>. QED  BY <1>3 DEF j

LEMMA SettlingTyped ==
  ASSUME NEW r, IsJob(r), Typed(r), r.pc = "priced", NEW n \in Nat
  PROVE  Typed([r EXCEPT !.pc = "settling", !.at = n])
  <1>. DEFINE j == [r EXCEPT !.pc = "settling", !.at = n]
  <1>1. j \in [pc: {"settling"}, order: {r.order}, invoice: {r.invoice}, period: {r.period},
            terms: {r.terms}, at: {n}, after: {r.after}, sum: {r.sum}]
    BY JobColumns
  <1>. HIDE DEF j
  <1>2. j.pc = "settling" /\ j.terms = r.terms /\ j.at = n /\ j.after = r.after /\ j.sum = r.sum
    BY <1>1, Columns
  <1>3. Typed(j)
    BY <1>2 DEF Typed, Pcs
  <1>. QED  BY <1>3 DEF j

\* A transaction has read the latest rows.
LEMMA PostedTyped ==
  ASSUME NEW r, IsJob(r), Typed(r), NEW after \in [Ledger -> Int], NEW pc,
         \/ r.pc = "settling" /\ pc = "settled"
         \/ r.pc = "paying" /\ pc = "paid"
  PROVE  Typed([r EXCEPT !.pc = pc, !.after = after])
  <1>. DEFINE j == [r EXCEPT !.pc = pc, !.after = after]
  <1>1. j \in [pc: {pc}, order: {r.order}, invoice: {r.invoice}, period: {r.period},
            terms: {r.terms}, at: {r.at}, after: {after}, sum: {r.sum}]
    BY JobColumns
  <1>. HIDE DEF j
  <1>2. /\ j.pc = pc /\ j.terms = r.terms /\ j.invoice = r.invoice
        /\ j.at = r.at /\ j.after = after /\ j.sum = r.sum
    BY <1>1, Columns
  <1>3. Typed(j)
    BY <1>2 DEF Typed, Pcs
  <1>. QED  BY <1>3 DEF j

-----------------------------------------------------------------------------
(* The steps on the tables.                                                *)

Known == SettleInv /\ Tables /\ Requests

LEMMA Constants ==
  /\ DriverOf \in [Order -> Driver] /\ ParkOf \in [Order -> Park \union {NoPark}] /\ NoPark \notin Park
  /\ Amounts \subseteq Nat /\ Periods \subseteq Nat \X Nat /\ MaxClock \in Nat
  BY OrderAssumption, AmountAssumption, PeriodAssumption, ClockAssumption

LEMMA NoneIsNoRow == None \notin Settlement /\ None \notin PayoutRow /\ None \notin InvoiceRow /\ None \notin Invoice
  BY NoneAssumption

\* The balance of one driver in one park changes.
BalanceSet(d, k, v) ==
  /\ d \in Driver /\ k \in Park \union {NoPark} /\ v \in Nat
  /\ balance' = [balance EXCEPT ![d][k] = v]

LEMMA BalanceChanges ==
  ASSUME Tables, NEW d, NEW k, NEW v, BalanceSet(d, k, v)
  PROVE  /\ balance' \in [Driver -> [Park \union {NoPark} -> Nat]] /\ balance'[d][k] = v
         /\ \A dd \in Driver, kk \in Park \union {NoPark} :
              dd # d \/ kk # k => balance'[dd][kk] = balance[dd][kk]
  <1>. USE DEF BalanceSet
  <1>1. balance \in [Driver -> [Park \union {NoPark} -> Nat]]
    BY DEF Tables
  <1>. DEFINE row == [balance[d] EXCEPT ![k] = v]
  <1>2. balance[d] \in [Park \union {NoPark} -> Nat]
    BY <1>1
  <1>3. row \in [Park \union {NoPark} -> Nat] /\ row[k] = v /\ \A kk \in Park \union {NoPark} : kk # k => row[kk] = balance[d][kk]
    BY <1>2
  <1>4. balance' = [balance EXCEPT ![d] = row]
    OBVIOUS
  <1>. HIDE DEF row
  <1>5. balance' \in [Driver -> [Park \union {NoPark} -> Nat]] /\ balance'[d] = row /\ \A dd \in Driver : dd # d => balance'[dd] = balance[dd]
    BY <1>1, <1>3, <1>4
  <1>. QED  BY <1>3, <1>5

\* A row of a ledger.
LEMMA PostingIsEntry ==
  ASSUME NEW p \in Proc, NEW source \in Order \union Invoice, NEW kind \in {"accrual", "payment"}, NEW k \in Park,
         NEW amount \in [Ledger -> Nat], NEW i \in Invoice \union {None},
         job[p].after \in [Ledger -> Int], job[p].at \in Nat, NEW n \in Ledger
  PROVE  /\ Posting(p, source, kind, k, amount, i)[n] \in Entry
         /\ Posting(p, source, kind, k, amount, i)[n] =
              [source |-> source, kind |-> kind, park |-> k, amount |-> amount[n],
               after |-> job[p].after[n], at |-> job[p].at, invoice |-> i]
  BY DEF Posting, Entry

\* The settlement that is committed.
LEMMA CommitFacts ==
  ASSUME Known, NEW p \in Proc, CommitSettlement(p)
  PROVE  /\ job[p].order \in Order /\ job[p].terms \in Settlement /\ settled[job[p].order] = None
         /\ ParkOf[job[p].order] \in Park \union {NoPark} /\ DriverOf[job[p].order] \in Driver
         /\ Due(job[p].terms) \in [Ledger -> Nat]
         /\ job[p].after \in [Ledger -> Int] /\ job[p].at \in Nat
  <1>1. job[p].pc = "settled"
    BY DEF CommitSettlement
  <1>2. job[p].order \in Order /\ settled[job[p].order] = None
    BY <1>1 DEF Known, SettleInv, Fit, Keeps
  <1>3. job[p].terms \in Settlement /\ job[p].after \in [Ledger -> Int] /\ job[p].at \in Nat
    BY <1>1 DEF Known, Requests, Typed
  <1>4. Due(job[p].terms) \in [Ledger -> Nat]
    BY <1>3 DEF Due, Settlement
  <1>. QED  BY <1>2, <1>3, <1>4, Constants

LEMMA CommitTables ==
  ASSUME Known, NEW p \in Proc, CommitSettlement(p)
  PROVE  Tables'
  <1>. DEFINE o == job[p].order
              d == DriverOf[o]
              k == ParkOf[o]
              terms == job[p].terms
              posting == Posting(p, o, "accrual", k, Due(terms), None)
  <1>0. /\ o \in Order /\ terms \in Settlement /\ settled[o] = None /\ k \in Park \union {NoPark} /\ d \in Driver
        /\ Due(terms) \in [Ledger -> Nat] /\ job[p].after \in [Ledger -> Int] /\ job[p].at \in Nat
    BY CommitFacts
  <1>1. /\ settled' = [settled EXCEPT ![o] = terms]
        /\ balance' = [balance EXCEPT ![d][k] = @ + terms.net]
        /\ driverLedger' = Append(driverLedger,
             DriverLedgerRow(d, k, "order_income", terms.net, DriverBalanceAfter(d, k, terms.net)))
        /\ parkBalance' = (IF k \in Park THEN [parkBalance EXCEPT ![k] = @ + terms.commission] ELSE parkBalance)
        /\ ledger' = (IF k \in Park THEN [n \in Ledger |-> ledger[n] \union {posting[n]}] ELSE ledger)
        /\ payouts' = payouts /\ invoices' = invoices
    BY DEF CommitSettlement
  <1>2. terms.net \in Nat /\ terms.commission \in Nat
    BY <1>0 DEF Settlement
  <1>3. k \in Park => \A n \in Ledger : posting[n] \in Entry
    BY <1>0, PostingIsEntry
  <1>. HIDE DEF posting, o, d, k, terms
  <1>4. settled' \in [Order -> Settlement \union {None}]
    BY <1>0, <1>1 DEF Known, Tables
  <1>5. IsFiniteSet(SettledOrders')
    <2>1. SettledOrders' = SettledOrders \union {o}
      <3>1. terms # None
        BY <1>0, NoneIsNoRow
      <3>. QED  BY <1>0, <1>1, <3>1 DEF Known, Tables, SettledOrders
    <2>. QED  BY <2>1, FS_AddElement DEF Known, Tables
  <1>6. balance[d][k] \in Nat /\ balance' \in [Driver -> [Park \union {NoPark} -> Nat]]
    <2>1. balance[d][k] \in Nat
      BY <1>0 DEF Known, Tables
    <2>2. balance' = [balance EXCEPT ![d][k] = balance[d][k] + terms.net] /\ balance[d][k] + terms.net \in Nat
      BY <1>1, <1>2, <2>1
    <2>3. BalanceSet(d, k, balance[d][k] + terms.net)
      BY <1>0, <2>2 DEF BalanceSet
    <2>. QED  BY <1>0, <2>1, <2>3, BalanceChanges DEF Known
  <1>7. parkBalance' \in [Park -> Nat]
    BY <1>0, <1>1, <1>2, SMTT(40) DEF Known, Tables
  <1>8. driverLedger' \in Seq(Line)
    <2>1. DriverLedgerRow(d, k, "order_income", terms.net, DriverBalanceAfter(d, k, terms.net)) \in Line
      BY <1>0, <1>2, <1>6 DEF DriverLedgerRow, DriverBalanceAfter, Line
    <2>. QED  BY <1>1, <2>1 DEF Known, Tables
  <1>9. ledger' \in [Ledger -> SUBSET Entry] /\ \A n \in Ledger : IsFiniteSet(ledger'[n])
    <2>1. CASE k \in Park
      <3>1. ledger' = [n \in Ledger |-> ledger[n] \union {posting[n]}]
        BY <1>1, <2>1
      <3>2. \A n \in Ledger : ledger[n] \subseteq Entry /\ IsFiniteSet(ledger[n])
        BY DEF Known, Tables
      <3>3. \A n \in Ledger : IsFiniteSet(ledger'[n])
        BY <3>1, <3>2, FS_AddElement
      <3>. QED  BY <1>3, <2>1, <3>1, <3>2, <3>3
    <2>2. CASE k \notin Park
      BY <1>1, <2>2 DEF Known, Tables
    <2>. QED  BY <2>1, <2>2
  <1>10. PayoutsMade' = PayoutsMade
    BY <1>1 DEF PayoutsMade
  <1>. QED  BY <1>1, <1>4, <1>5, <1>6, <1>7, <1>8, <1>9, <1>10 DEF Known, Tables

LEMMA CreatePayoutTables ==
  ASSUME Known, NEW y \in Payout, NEW d \in Driver, NEW k \in Park, NEW amount \in Amounts, CreateDriverPayout(y, d, k, amount)
  PROVE  Tables'
  <1>. DEFINE row == [driver |-> d, park |-> k, amount |-> amount, status |-> "created"]
  <1>1. row \in PayoutRow
    BY Constants DEF PayoutRow
  <1>2. /\ payouts' = [payouts EXCEPT ![y] = row]
        /\ UNCHANGED <<settled, balance, parkBalance, driverLedger, ledger, invoices>>
    BY DEF CreateDriverPayout
  <1>. HIDE DEF row
  <1>3. payouts' \in [Payout -> PayoutRow \union {None}]
    BY <1>1, <1>2 DEF Known, Tables
  <1>4. PayoutsMade' = PayoutsMade \union {y}
    <2>1. row # None
      BY <1>1, NoneIsNoRow
    <2>. QED  BY <1>2, <2>1 DEF Known, Tables, PayoutsMade
  <1>5. IsFiniteSet(PayoutsMade')
    BY <1>4, FS_AddElement DEF Known, Tables
  <1>. QED  BY <1>2, <1>3, <1>5 DEF Known, Tables, SettledOrders

\* The status of a payout that has been made changes.
LEMMA PayoutGoesOn ==
  ASSUME Known, NEW y \in Payout, payouts[y] # None, NEW s \in {"approved", "paid"},
         payouts' = [payouts EXCEPT ![y].status = s]
  PROVE  /\ payouts' \in [Payout -> PayoutRow \union {None}] /\ PayoutsMade' = PayoutsMade
         /\ payouts'[y] # None /\ payouts'[y].status = s /\ payouts'[y].amount = payouts[y].amount
         /\ payouts'[y].driver = payouts[y].driver /\ payouts'[y].park = payouts[y].park
         /\ \A z \in Payout \ {y} : payouts'[z] = payouts[z]
  <1>1. payouts[y] \in PayoutRow /\ payouts \in [Payout -> PayoutRow \union {None}]
    BY DEF Known, Tables
  <1>. DEFINE row == [payouts[y] EXCEPT !.status = s]
  <1>2. /\ row \in PayoutRow /\ row.status = s /\ row.amount = payouts[y].amount
        /\ row.driver = payouts[y].driver /\ row.park = payouts[y].park
    BY <1>1 DEF PayoutRow
  <1>3. payouts' = [payouts EXCEPT ![y] = row]
    OBVIOUS
  <1>. HIDE DEF row
  <1>4. row # None
    BY <1>2, NoneIsNoRow
  <1>5. payouts'[y] = row /\ \A z \in Payout \ {y} : payouts'[z] = payouts[z]
    BY <1>1, <1>3
  <1>6. payouts' \in [Payout -> PayoutRow \union {None}]
    BY <1>1, <1>2, <1>3
  <1>7. PayoutsMade' = PayoutsMade
    BY <1>4, <1>5 DEF PayoutsMade
  <1>. QED  BY <1>2, <1>4, <1>5, <1>6, <1>7

LEMMA ApproveTables ==
  ASSUME Known, NEW y \in Payout, ApproveDriverPayout(y)
  PROVE  Tables'
  <1>1. /\ payouts[y] # None /\ payouts' = [payouts EXCEPT ![y].status = "approved"]
        /\ UNCHANGED <<settled, balance, parkBalance, driverLedger, ledger, invoices>>
    BY DEF ApproveDriverPayout, Payable
  <1>2. payouts' \in [Payout -> PayoutRow \union {None}] /\ PayoutsMade' = PayoutsMade
    BY <1>1, PayoutGoesOn
  <1>. QED  BY <1>1, <1>2 DEF Known, Tables, SettledOrders

LEMMA MarkPaidTables ==
  ASSUME Known, NEW y \in Payout, MarkDriverPayoutPaid(y)
  PROVE  Tables'
  <1>. DEFINE d == payouts[y].driver
              k == payouts[y].park
              amount == payouts[y].amount
  <1>1. /\ payouts[y] # None /\ payouts' = [payouts EXCEPT ![y].status = "paid"]
        /\ balance' = [balance EXCEPT ![d][k] = @ - amount] /\ balance[d][k] >= amount
        /\ driverLedger' = Append(driverLedger,
             DriverLedgerRow(d, k, "payout", amount, DriverBalanceAfter(d, k, -amount)))
        /\ UNCHANGED <<settled, parkBalance, ledger, invoices>>
    BY DEF MarkDriverPayoutPaid, Payable, Covered
  <1>2. payouts' \in [Payout -> PayoutRow \union {None}] /\ PayoutsMade' = PayoutsMade
    BY <1>1, PayoutGoesOn
  <1>3. d \in Driver /\ k \in Park /\ amount \in Nat
    <2>1. payouts[y] \in PayoutRow
      BY <1>1 DEF Known, Tables
    <2>. QED  BY <2>1 DEF PayoutRow
  <1>. HIDE DEF d, k, amount
  <1>4. balance[d][k] \in Nat /\ balance[d][k] - amount \in Nat
    BY <1>1, <1>3 DEF Known, Tables
  <1>5. balance' \in [Driver -> [Park \union {NoPark} -> Nat]]
    BY <1>1, <1>3, <1>4 DEF Known, Tables
  <1>6. driverLedger' \in Seq(Line)
    <2>1. DriverLedgerRow(d, k, "payout", amount, DriverBalanceAfter(d, k, -amount)) \in Line
      BY <1>3, <1>4 DEF DriverLedgerRow, DriverBalanceAfter, Line
    <2>. QED  BY <1>1, <2>1 DEF Known, Tables
  <1>. QED  BY <1>1, <1>2, <1>5, <1>6 DEF Known, Tables, SettledOrders

\* An accrual is claimed.
LEMMA Relabelled ==
  ASSUME NEW e \in Entry, NEW i \in Invoice
  PROVE  /\ [e EXCEPT !.invoice = i] \in Entry /\ [e EXCEPT !.invoice = i].invoice = i
         /\ [e EXCEPT !.invoice = i].source = e.source /\ [e EXCEPT !.invoice = i].kind = e.kind
         /\ [e EXCEPT !.invoice = i].park = e.park /\ [e EXCEPT !.invoice = i].amount = e.amount
         /\ [e EXCEPT !.invoice = i].at = e.at
  BY DEF Entry

\* The invoice that is issued, and the ledger it leaves.
LEMMA IssueFacts ==
  ASSUME Known, NEW p \in Proc, CreateTaxiParkPlatformInvoice(p),
         NEW i, i = job[p].invoice, NEW k, k = job[p].period[1], NEW period, period = job[p].period[2],
         NEW row, row = [park |-> k, amount |-> job[p].sum, period |-> period, status |-> "issued"]
  PROVE  /\ job[p].pc = "billing" /\ i \in Invoice /\ k \in Park /\ period \in Periods /\ invoices[i] = None
         /\ job[p].sum \in Nat /\ job[p].period = <<k, period>>
         /\ row \in InvoiceRow /\ row # None
         /\ invoices' = [invoices EXCEPT ![i] = row]
         /\ invoices' \in [Invoice -> InvoiceRow \union {None}]
         /\ invoices'[i] = row /\ \A j \in Invoice \ {i} : invoices'[j] = invoices[j]
         /\ UNCHANGED <<settled, balance, parkBalance, driverLedger, payouts>>
         /\ Unbilled(k, period) \subseteq ledger["fee"]
         /\ ledger'["fee"] = (ledger["fee"] \ Unbilled(k, period)) \union {[e EXCEPT !.invoice = i] : e \in Unbilled(k, period)}
         /\ \A n \in Ledger \ {"fee"} : ledger'[n] = ledger[n]
         /\ DOMAIN ledger' = Ledger
  <1>1. /\ job[p].pc = "billing" /\ invoices[i] = None
        /\ invoices' = [invoices EXCEPT ![i] = row]
        /\ ledger' = [ledger EXCEPT !["fee"] =
             (@ \ Unbilled(k, period)) \union {[e EXCEPT !.invoice = i] : e \in Unbilled(k, period)}]
        /\ UNCHANGED <<settled, balance, parkBalance, driverLedger, payouts>>
    BY DEF CreateTaxiParkPlatformInvoice
  <1>2. i \in Invoice /\ job[p].period \in Park \X Periods /\ job[p].sum \in Nat
    BY <1>1 DEF Known, Requests, Typed
  <1>3. k \in Park /\ period \in Periods /\ job[p].period = <<k, period>>
    BY <1>2
  <1>4. row \in InvoiceRow
    BY <1>2, <1>3 DEF InvoiceRow
  <1>5. row # None
    BY <1>4, NoneIsNoRow
  <1>6. /\ invoices' \in [Invoice -> InvoiceRow \union {None}]
        /\ invoices'[i] = row /\ \A j \in Invoice \ {i} : invoices'[j] = invoices[j]
    BY <1>1, <1>2, <1>4 DEF Known, Tables
  <1>7. Unbilled(k, period) \subseteq ledger["fee"]
    BY DEF Unbilled, RowsOf
  <1>8. ledger \in [Ledger -> SUBSET Entry] /\ "fee" \in Ledger
    BY DEF Known, Tables, Ledger
  <1>. QED  BY <1>1, <1>2, <1>3, <1>4, <1>5, <1>6, <1>7, <1>8

LEMMA IssueTables ==
  ASSUME Known, NEW p \in Proc, CreateTaxiParkPlatformInvoice(p)
  PROVE  Tables'
  <1>. DEFINE i == job[p].invoice
              k == job[p].period[1]
              period == job[p].period[2]
              row == [park |-> k, amount |-> job[p].sum, period |-> period, status |-> "issued"]
              claimed == Unbilled(k, period)
              relabelled == {[e EXCEPT !.invoice = i] : e \in claimed}
  <1>1. /\ i \in Invoice /\ invoices' \in [Invoice -> InvoiceRow \union {None}]
        /\ UNCHANGED <<settled, balance, parkBalance, driverLedger, payouts>>
        /\ claimed \subseteq ledger["fee"] /\ ledger'["fee"] = (ledger["fee"] \ claimed) \union relabelled
        /\ \A n \in Ledger \ {"fee"} : ledger'[n] = ledger[n]
        /\ DOMAIN ledger' = Ledger /\ ledger' = [ledger EXCEPT !["fee"] = ledger'["fee"]]
    <2>1. /\ i \in Invoice /\ invoices' \in [Invoice -> InvoiceRow \union {None}]
          /\ UNCHANGED <<settled, balance, parkBalance, driverLedger, payouts>>
          /\ claimed \subseteq ledger["fee"] /\ ledger'["fee"] = (ledger["fee"] \ claimed) \union relabelled
          /\ \A n \in Ledger \ {"fee"} : ledger'[n] = ledger[n]
          /\ DOMAIN ledger' = Ledger
      <3>1. /\ i = job[p].invoice /\ k = job[p].period[1] /\ period = job[p].period[2]
            /\ row = [park |-> k, amount |-> job[p].sum, period |-> period, status |-> "issued"]
        OBVIOUS
      <3>. HIDE DEF i, k, period, row
      <3>. QED  BY <3>1, IssueFacts
    <2>2. ledger \in [Ledger -> SUBSET Entry] /\ "fee" \in Ledger
      BY DEF Known, Tables, Ledger
    <2>3. ledger' = [ledger EXCEPT !["fee"] = (ledger["fee"] \ claimed) \union relabelled]
      BY DEF CreateTaxiParkPlatformInvoice
    <2>. HIDE DEF claimed, relabelled, i, row
    <2>. QED  BY <2>1, <2>2, <2>3
  <1>2. ledger \in [Ledger -> SUBSET Entry] /\ "fee" \in Ledger /\ \A n \in Ledger : IsFiniteSet(ledger[n])
    BY DEF Known, Tables, Ledger
  <1>3. \A e \in claimed : e \in Entry /\ [e EXCEPT !.invoice = i] \in Entry
    BY <1>1, <1>2, Relabelled
  <1>4. IsFiniteSet(claimed) /\ IsFiniteSet(ledger["fee"] \ claimed)
    BY <1>1, <1>2, FS_Subset
  <1>. HIDE DEF claimed, i, row
  <1>5. IsFiniteSet(relabelled)
    <2>. DEFINE f == [e \in claimed |-> [e EXCEPT !.invoice = i]]
    <2>1. f \in Surjection(claimed, relabelled)
      BY DEF Surjection
    <2>. QED  BY <1>4, <2>1, FS_Surjection
  <1>6. relabelled \subseteq Entry
    BY <1>3
  <1>. HIDE DEF relabelled
  <1>7. ledger'["fee"] \subseteq Entry /\ IsFiniteSet(ledger'["fee"])
    <2>1. IsFiniteSet((ledger["fee"] \ claimed) \union relabelled)
      BY <1>4, <1>5, FS_Union
    <2>. QED  BY <1>1, <1>2, <1>6, <2>1
  <1>8. ledger' \in [Ledger -> SUBSET Entry]
    BY <1>1, <1>2, <1>7
  <1>9. \A n \in Ledger : IsFiniteSet(ledger'[n])
    BY <1>1, <1>2, <1>7
  <1>. QED  BY <1>1, <1>8, <1>9 DEF Known, Tables, SettledOrders, PayoutsMade

\* The invoice that is paid.
LEMMA PaymentFacts ==
  ASSUME Known, NEW p \in Proc, MarkAdminPlatformInvoicePaid(p), NEW i, i = job[p].invoice
  PROVE  /\ i \in Invoice /\ invoices[i] \in InvoiceRow
         /\ invoices' \in [Invoice -> InvoiceRow \union {None}]
         /\ invoices'[i] # None /\ invoices'[i].park = invoices[i].park
         /\ invoices'[i].amount = invoices[i].amount /\ invoices'[i].period = invoices[i].period
         /\ \A j \in Invoice \ {i} : invoices'[j] = invoices[j]
         /\ UNCHANGED <<settled, balance, parkBalance, driverLedger, payouts>>
         /\ \E posting \in [Ledger -> Entry] :
              /\ \A n \in Ledger : posting[n].kind = "payment"
              /\ ledger' = [n \in Ledger |-> IF n = "park" THEN ledger[n] ELSE ledger[n] \union {posting[n]}]
  <1>1. /\ job[p].pc = "paid" /\ invoices' = [invoices EXCEPT ![i].status = "paid"]
        /\ UNCHANGED <<settled, balance, parkBalance, driverLedger, payouts>>
    BY DEF MarkAdminPlatformInvoicePaid
  <1>2. /\ i \in Invoice /\ invoices[i] # None /\ job[p].after \in [Ledger -> Int] /\ job[p].at \in Nat
        /\ invoices \in [Invoice -> InvoiceRow \union {None}]
    BY <1>1 DEF Known, Requests, Typed, Tables
  <1>3. invoices[i] \in InvoiceRow
    BY <1>2
  <1>. DEFINE row == [invoices[i] EXCEPT !.status = "paid"]
  <1>4. row \in InvoiceRow /\ row.park = invoices[i].park /\ row.amount = invoices[i].amount /\ row.period = invoices[i].period
    BY <1>3 DEF InvoiceRow
  <1>5. invoices' = [invoices EXCEPT ![i] = row]
    BY <1>1
  <1>. HIDE DEF row
  <1>6. row # None
    BY <1>4, NoneIsNoRow
  <1>7. /\ invoices' \in [Invoice -> InvoiceRow \union {None}] /\ invoices'[i] = row
        /\ \A j \in Invoice \ {i} : invoices'[j] = invoices[j]
    BY <1>2, <1>4, <1>5
  <1>. DEFINE amount == [n \in Ledger |-> invoices[i].amount]
              posting == Posting(p, i, "payment", invoices[i].park, amount, i)
  <1>8. amount \in [Ledger -> Nat] /\ invoices[i].park \in Park
    BY <1>3 DEF InvoiceRow
  <1>9. ledger' = [n \in Ledger |-> IF n = "park" THEN ledger[n] ELSE ledger[n] \union {posting[n]}]
    BY DEF MarkAdminPlatformInvoicePaid
  <1>. HIDE DEF amount
  <1>10. \A n \in Ledger : posting[n] \in Entry /\ posting[n].kind = "payment"
    <2>1. i \in Order \union Invoice /\ i \in Invoice \union {None} /\ "payment" \in {"accrual", "payment"}
      BY <1>2
    <2>. SUFFICES ASSUME NEW n \in Ledger  PROVE posting[n] \in Entry /\ posting[n].kind = "payment"
      OBVIOUS
    <2>2. /\ posting[n] \in Entry
          /\ posting[n] = [source |-> i, kind |-> "payment", park |-> invoices[i].park, amount |-> amount[n],
                           after |-> job[p].after[n], at |-> job[p].at, invoice |-> i]
      BY <1>2, <1>8, <2>1, PostingIsEntry
    <2>. QED  BY <2>2
  <1>11. posting = [n \in Ledger |-> posting[n]]
    BY DEF Posting
  <1>. HIDE DEF posting
  <1>12. posting \in [Ledger -> Entry]
    BY <1>10, <1>11
  <1>. QED  BY <1>1, <1>2, <1>3, <1>4, <1>6, <1>7, <1>9, <1>10, <1>12

LEMMA PaymentTables ==
  ASSUME Known, NEW p \in Proc, MarkAdminPlatformInvoicePaid(p)
  PROVE  Tables'
  <1>1. /\ invoices' \in [Invoice -> InvoiceRow \union {None}]
        /\ UNCHANGED <<settled, balance, parkBalance, driverLedger, payouts>>
    BY PaymentFacts
  <1>2. PICK posting \in [Ledger -> Entry] :
          ledger' = [n \in Ledger |-> IF n = "park" THEN ledger[n] ELSE ledger[n] \union {posting[n]}]
    BY PaymentFacts
  <1>3. \A n \in Ledger : ledger[n] \subseteq Entry /\ IsFiniteSet(ledger[n]) /\ IsFiniteSet(ledger[n] \union {posting[n]})
    BY FS_AddElement DEF Known, Tables
  <1>4. ledger' \in [Ledger -> SUBSET Entry] /\ \A n \in Ledger : IsFiniteSet(ledger'[n])
    BY <1>2, <1>3
  <1>. QED  BY <1>1, <1>4 DEF Known, Tables, SettledOrders, PayoutsMade

-----------------------------------------------------------------------------
(* The steps of requests.                                                  *)

\* No row is written.
Quiet == UNCHANGED <<settled, balance, parkBalance, driverLedger, ledger, payouts, invoices>>

LEMMA QuietTables ==
  ASSUME Tables, Quiet
  PROVE  Tables'
  BY DEF Tables, Quiet, SettledOrders, PayoutsMade

LEMMA TypedStays ==
  ASSUME NEW j, Typed(j), \A i \in Invoice : invoices[i] # None => invoices'[i] # None
  PROVE  Typed(j)'
  BY DEF Typed

LEMMA JobsTyped ==
  ASSUME Known, NEW p \in Proc, NEW j, Typed(j), job' = [job EXCEPT ![p] = j],
         \A i \in Invoice : invoices[i] # None => invoices'[i] # None
  PROVE  \A q \in Proc : Typed(job[q])'
  <1>. SUFFICES ASSUME NEW q \in Proc  PROVE Typed(job[q])'
    OBVIOUS
  <1>1. job' = [r \in Proc |-> IF r = p THEN j ELSE job[r]]
    BY DEF Known, SettleInv
  <1>2. CASE q = p
    <2>1. job'[q] = j
      BY <1>1, <1>2
    <2>. QED  BY <2>1 DEF Typed
  <1>3. CASE q # p
    <2>1. job'[q] = job[q] /\ Typed(job[q])
      BY <1>1, <1>3 DEF Known, Requests
    <2>. QED  BY <2>1 DEF Typed
  <1>. QED  BY <1>2, <1>3

\* A sum of entries is a whole amount.
LEMMA AmountNat ==
  ASSUME NEW S, IsFiniteSet(S), S \subseteq Entry
  PROVE  AmountOf(S) \in Nat /\ [e \in S |-> e.amount] \in [S -> Nat]
  <1>1. [e \in S |-> e.amount] \in [S -> Nat]
    BY DEF Entry
  <1>. QED  BY <1>1, SumNat DEF AmountOf

LEMMA RequestStep ==
  ASSUME Known, NEW p \in Proc, Settle(p) \/ Bill(p), ~CommitSettlement(p),
         ~CreateTaxiParkPlatformInvoice(p), ~MarkAdminPlatformInvoicePaid(p)
  PROVE  Quiet /\ Requests'
  <1>0. /\ IsJob(job[p]) /\ Fit(p, job[p]) /\ Typed(job[p]) /\ rate \in [Park -> Rates]
        /\ clock \in 0..MaxClock /\ MaxClock \in Nat /\ status \in [Order -> Unfinished]
    BY Constants DEF Known, SettleInv, Fit, Requests
  <1>1. ASSUME NEW o \in Order, CompleteOrder(p, o)  PROVE Quiet /\ Requests'
    <2>1. /\ Quiet /\ clock' = clock /\ invoices' = invoices /\ status' = [status EXCEPT ![o] = "completed"]
          /\ job' = [job EXCEPT ![p] = [Idle EXCEPT !.pc = "completed", !.order = o]]
      BY <1>1 DEF CompleteOrder, Quiet, Goto
    <2>2. \A q \in Proc : Typed(job[q])'
      BY <2>1, CompletedTyped, JobsTyped
    <2>3. status' \in [Order -> Unfinished]
      BY <1>0, <2>1 DEF Unfinished
    <2>. QED  BY <1>0, <2>1, <2>2, <2>3 DEF Requests
  <1>2. ASSUME TakeSnapshot(p)  PROVE Quiet /\ Requests'
    <2>. DEFINE terms == Terms(PriceOf[job[p].order], CommissionRate(job[p].order), FeeRate)
    <2>1. /\ Quiet /\ clock' = clock /\ invoices' = invoices /\ status' = status
          /\ job' = [job EXCEPT ![p] = [job[p] EXCEPT !.pc = "priced", !.terms = terms]]
      BY <1>2 DEF TakeSnapshot, Quiet, Goto
    <2>2. terms \in Settlement
      BY <1>0, <1>2, TermsComputed DEF TakeSnapshot, Fit
    <2>. HIDE DEF terms
    <2>3. Typed([job[p] EXCEPT !.pc = "priced", !.terms = terms])
      BY <1>0, <2>2, PricedTyped
    <2>4. \A q \in Proc : Typed(job[q])'
      BY <2>1, <2>3, JobsTyped
    <2>. QED  BY <1>0, <2>1, <2>4 DEF Requests
  <1>3. ASSUME AnswerCommitted(p), Quiet, status' = status, clock' = clock  PROVE Quiet /\ Requests'
    <2>1. /\ invoices' = invoices
          /\ job' = [job EXCEPT ![p] = [Idle EXCEPT !.pc = "answered", !.order = job[p].order, !.terms = settled[job[p].order]]]
      BY <1>3 DEF AnswerCommitted, Answered, Quiet, Goto
    <2>2. Typed([Idle EXCEPT !.pc = "answered", !.order = job[p].order, !.terms = settled[job[p].order]])
      BY AnsweredTyped
    <2>3. \A q \in Proc : Typed(job[q])'
      BY <2>1, <2>2, JobsTyped
    <2>. QED  BY <1>0, <1>3, <2>3 DEF Requests
  <1>4. ASSUME BeginSettlement(p)  PROVE Quiet /\ Requests'
    <2>1. Quiet /\ status' = status /\ job[p].pc = "priced"
      BY <1>4 DEF BeginSettlement, Quiet
    <2>2. CASE settled[job[p].order] # None
      BY <1>3, <1>4, <2>1, <2>2 DEF BeginSettlement
    <2>3. CASE settled[job[p].order] = None
      <3>1. /\ clock < MaxClock /\ clock' = clock + 1 /\ invoices' = invoices
            /\ job' = [job EXCEPT ![p] = [job[p] EXCEPT !.pc = "settling", !.at = clock]]
        BY <1>4, <2>3 DEF BeginSettlement, Goto
      <3>2. clock \in Nat /\ clock' \in 0..MaxClock
        BY <1>0, <3>1
      <3>3. Typed([job[p] EXCEPT !.pc = "settling", !.at = clock])
        BY <1>0, <2>1, <3>2, SettlingTyped
      <3>4. \A q \in Proc : Typed(job[q])'
        BY <3>1, <3>3, JobsTyped
      <3>. QED  BY <1>0, <2>1, <3>2, <3>4 DEF Requests
    <2>. QED  BY <2>2, <2>3
  <1>5. ASSUME PostSettlement(p)  PROVE Quiet /\ Requests'
    <2>1. Quiet /\ status' = status /\ clock' = clock /\ job[p].pc = "settling" /\ invoices' = invoices
      BY <1>5 DEF PostSettlement, Quiet
    <2>2. CASE settled[job[p].order] # None
      BY <1>3, <1>5, <2>1, <2>2 DEF PostSettlement, Conflicts
    <2>3. CASE settled[job[p].order] = None
      <3>. DEFINE after == AfterSettling(ParkOf[job[p].order], job[p].terms)
      <3>1. job' = [job EXCEPT ![p] = [job[p] EXCEPT !.pc = "settled", !.after = after]]
        BY <1>5, <2>3 DEF PostSettlement, Conflicts, Goto
      <3>2. after \in [Ledger -> Int]
        <4>1. job[p].terms \in Settlement
          BY <1>0, <2>1 DEF Typed
        <4>2. \A n \in Ledger : Due(job[p].terms)[n] \in Int
          BY <4>1 DEF Due, Settlement
        <4>3. \A n \in Ledger : LatestBalance(n, ParkOf[job[p].order]) \in Int
          BY LatestBalanceInt DEF Known
        <4>. QED  BY <4>2, <4>3 DEF AfterSettling
      <3>. HIDE DEF after
      <3>3. Typed([job[p] EXCEPT !.pc = "settled", !.after = after])
        BY <1>0, <2>1, <3>2, PostedTyped
      <3>4. \A q \in Proc : Typed(job[q])'
        BY <2>1, <3>1, <3>3, JobsTyped
      <3>. QED  BY <1>0, <2>1, <3>4 DEF Requests
    <2>. QED  BY <2>2, <2>3
  <1>6. ASSUME Answer(p) \/ Fail(p)  PROVE Quiet /\ Requests'
    <2>1. /\ Quiet /\ clock' = clock /\ invoices' = invoices /\ status' = status
          /\ job' = [job EXCEPT ![p] = Idle]
      BY <1>6 DEF Answer, Fail, Quiet, Goto
    <2>2. \A q \in Proc : Typed(job[q])'
      BY <2>1, IdleTyped, JobsTyped
    <2>. QED  BY <1>0, <2>1, <2>2 DEF Requests
  <1>7. ASSUME NEW i \in Invoice, NEW k \in Park, NEW period \in Periods, SumAccruals(p, i, k, period)
        PROVE  Quiet /\ Requests'
    <2>. DEFINE sum == AmountOf(Unbilled(k, period))
    <2>1. /\ Quiet /\ clock' = clock /\ invoices' = invoices /\ status' = status
          /\ job' = [job EXCEPT ![p] = [Idle EXCEPT !.pc = "billing", !.invoice = i, !.period = <<k, period>>, !.sum = sum]]
      BY <1>7 DEF SumAccruals, Quiet, Goto
    <2>2. sum \in Nat
      <3>1. "fee" \in Ledger /\ ledger \in [Ledger -> SUBSET Entry] /\ IsFiniteSet(ledger["fee"])
        BY DEF Known, Tables, Ledger
      <3>2. Unbilled(k, period) \subseteq ledger["fee"]
        BY DEF Unbilled, RowsOf
      <3>3. Unbilled(k, period) \subseteq Entry /\ IsFiniteSet(Unbilled(k, period))
        BY <3>1, <3>2, FS_Subset
      <3>. QED  BY <3>3, AmountNat
    <2>. HIDE DEF sum
    <2>3. Typed([Idle EXCEPT !.pc = "billing", !.invoice = i, !.period = <<k, period>>, !.sum = sum])
      <3>1. <<k, period>> \in Park \X Periods
        OBVIOUS
      <3>. QED  BY <2>2, <3>1, BillingTyped
    <2>4. \A q \in Proc : Typed(job[q])'
      BY <2>1, <2>3, JobsTyped
    <2>. QED  BY <1>0, <2>1, <2>4 DEF Requests
  <1>8. ASSUME NEW i \in Invoice, BeginInvoicePayment(p, i)  PROVE Quiet /\ Requests'
    <2>1. /\ Quiet /\ clock < MaxClock /\ clock' = clock + 1 /\ invoices' = invoices /\ status' = status /\ invoices[i] # None
          /\ job' = [job EXCEPT ![p] = [Idle EXCEPT !.pc = "paying", !.invoice = i, !.at = clock]]
      BY <1>8 DEF BeginInvoicePayment, Quiet, Goto
    <2>2. clock \in Nat /\ clock' \in 0..MaxClock
      BY <1>0, <2>1
    <2>3. Typed([Idle EXCEPT !.pc = "paying", !.invoice = i, !.at = clock])
      BY <2>1, <2>2, PayingTyped
    <2>4. \A q \in Proc : Typed(job[q])'
      BY <2>1, <2>3, JobsTyped
    <2>. QED  BY <1>0, <2>1, <2>2, <2>4 DEF Requests
  <1>9. ASSUME PostInvoicePayment(p)  PROVE Quiet /\ Requests'
    <2>. DEFINE invoice == invoices[job[p].invoice]
                after == AfterPaying(invoice)
    <2>1. /\ Quiet /\ clock' = clock /\ invoices' = invoices /\ status' = status /\ job[p].pc = "paying"
          /\ job' = [job EXCEPT ![p] = [job[p] EXCEPT !.pc = "paid", !.after = after]]
      BY <1>9 DEF PostInvoicePayment, Quiet, Goto
    <2>2. after \in [Ledger -> Int]
      <3>1. invoice \in InvoiceRow
        BY <1>0, <2>1 DEF Typed, Known, Tables
      <3>2. invoice.amount \in Int
        BY <3>1 DEF InvoiceRow
      <3>3. \A n \in Ledger : LatestBalance(n, invoice.park) \in Int
        BY LatestBalanceInt DEF Known
      <3>. HIDE DEF invoice
      <3>4. ASSUME NEW n \in Ledger  PROVE after[n] \in Int
        <4>1. CASE n = "fee"
          BY <3>2, <3>3, <4>1 DEF AfterPaying, Ledger
        <4>2. CASE n = "platform"
          BY <3>2, <3>3, <4>2 DEF AfterPaying, Ledger
        <4>3. CASE n = "park"
          BY <4>3 DEF AfterPaying, Ledger
        <4>. QED  BY <4>1, <4>2, <4>3 DEF Ledger
      <3>. QED  BY <3>4 DEF AfterPaying
    <2>. HIDE DEF after
    <2>3. Typed([job[p] EXCEPT !.pc = "paid", !.after = after])
      BY <1>0, <2>1, <2>2, PostedTyped
    <2>4. \A q \in Proc : Typed(job[q])'
      BY <2>1, <2>3, JobsTyped
    <2>. QED  BY <1>0, <2>1, <2>4 DEF Requests
  <1>. QED  BY <1>1, <1>2, <1>4, <1>5, <1>6, <1>7, <1>8, <1>9 DEF Settle, Bill

\* Steps that write rows, as the steps on the tables name them.
LEMMA Steps ==
  ASSUME Known, [Next]_vars
  PROVE  \/ Quiet /\ Requests'
         \/ \E p \in Proc : CommitSettlement(p) \/ CreateTaxiParkPlatformInvoice(p) \/ MarkAdminPlatformInvoicePaid(p)
         \/ \E y \in Payout, d \in Driver, k \in Park, amount \in Amounts : CreateDriverPayout(y, d, k, amount)
         \/ \E y \in Payout : ApproveDriverPayout(y) \/ MarkDriverPayoutPaid(y)
  <1>1. ASSUME UNCHANGED vars  PROVE Quiet /\ Requests'
    BY <1>1 DEF vars, Quiet, Known, Requests, Typed
  <1>2. ASSUME NEW k \in Park, NEW bps \in Rates, UpdateTaxiParkDriverCommission(k, bps)  PROVE Quiet /\ Requests'
    BY <1>2 DEF UpdateTaxiParkDriverCommission, Quiet, Known, Requests, Typed
  <1>3. ASSUME NEW p \in Proc, Settle(p) \/ Bill(p), ~CommitSettlement(p), ~CreateTaxiParkPlatformInvoice(p), ~MarkAdminPlatformInvoicePaid(p)
        PROVE  Quiet /\ Requests'
    BY <1>3, RequestStep
  <1>. QED  BY <1>1, <1>2, <1>3 DEF Next, PayOut

LEMMA WritingRequests ==
  ASSUME Known, NEW p \in Proc, CommitSettlement(p) \/ CreateTaxiParkPlatformInvoice(p) \/ MarkAdminPlatformInvoicePaid(p)
  PROVE  Requests'
  <1>0. clock \in 0..MaxClock /\ status \in [Order -> Unfinished]
    BY DEF Known, Requests
  <1>1. clock' = clock /\ status' = status
    BY DEF CommitSettlement, CreateTaxiParkPlatformInvoice, MarkAdminPlatformInvoicePaid
  <1>2. CASE CommitSettlement(p)
    <2>1. /\ job' = [job EXCEPT ![p] = [Idle EXCEPT !.pc = "answered", !.order = job[p].order, !.terms = job[p].terms]]
          /\ invoices' = invoices
      BY <1>2 DEF CommitSettlement, Answered, Goto
    <2>2. \A q \in Proc : Typed(job[q])'
      BY <2>1, AnsweredTyped, JobsTyped
    <2>. QED  BY <1>0, <1>1, <2>2 DEF Requests
  <1>3. CASE CreateTaxiParkPlatformInvoice(p)
    <2>. DEFINE i == job[p].invoice
                k == job[p].period[1]
                period == job[p].period[2]
                row == [park |-> k, amount |-> job[p].sum, period |-> period, status |-> "issued"]
    <2>1. row # None /\ invoices'[i] = row /\ \A j \in Invoice \ {i} : invoices'[j] = invoices[j]
      <3>1. /\ i = job[p].invoice /\ k = job[p].period[1] /\ period = job[p].period[2]
            /\ row = [park |-> k, amount |-> job[p].sum, period |-> period, status |-> "issued"]
        OBVIOUS
      <3>. HIDE DEF i, k, period, row
      <3>. QED  BY <1>3, <3>1, IssueFacts
    <2>. HIDE DEF i, row
    <2>2. \A j \in Invoice : invoices[j] # None => invoices'[j] # None
      BY <2>1
    <2>3. job' = [job EXCEPT ![p] = Idle]
      BY <1>3 DEF CreateTaxiParkPlatformInvoice, Goto
    <2>4. \A q \in Proc : Typed(job[q])'
      BY <2>2, <2>3, IdleTyped, JobsTyped
    <2>. QED  BY <1>0, <1>1, <2>4 DEF Requests
  <1>4. CASE MarkAdminPlatformInvoicePaid(p)
    <2>. DEFINE i == job[p].invoice
    <2>1. invoices'[i] # None /\ \A j \in Invoice \ {i} : invoices'[j] = invoices[j]
      BY <1>4, PaymentFacts
    <2>. HIDE DEF i
    <2>2. \A j \in Invoice : invoices[j] # None => invoices'[j] # None
      BY <2>1
    <2>3. job' = [job EXCEPT ![p] = Idle]
      BY <1>4 DEF MarkAdminPlatformInvoicePaid, Goto
    <2>4. \A q \in Proc : Typed(job[q])'
      BY <2>2, <2>3, IdleTyped, JobsTyped
    <2>. QED  BY <1>0, <1>1, <2>4 DEF Requests
  <1>. QED  BY <1>2, <1>3, <1>4

LEMMA PayoutRequests ==
  ASSUME Known, job' = job, clock' = clock, status' = status, invoices' = invoices
  PROVE  Requests'
  BY DEF Known, Requests, Typed

LEMMA KnownInit == Init => Known
  <1>. SUFFICES ASSUME Init  PROVE Known
    OBVIOUS
  <1>1. SettledOrders = {} /\ PayoutsMade = {}
    BY DEF Init, SettledOrders, PayoutsMade
  <1>2. /\ settled = [o \in Order |-> None] /\ balance = [d \in Driver |-> [k \in Park \union {NoPark} |-> 0]]
        /\ parkBalance = [k \in Park |-> 0] /\ driverLedger = <<>> /\ ledger = [n \in Ledger |-> {}]
        /\ payouts = [y \in Payout |-> None] /\ invoices = [i \in Invoice |-> None]
    BY DEF Init
  <1>3. Tables
    BY <1>1, <1>2, FS_EmptySet DEF Tables
  <1>4. Requests
    <2>1. clock \in 0..MaxClock
      BY Constants DEF Init
    <2>2. status \in [Order -> Unfinished]
      BY DEF Init, Unfinished
    <2>. QED  BY <2>1, <2>2, IdleTyped DEF Init, Requests
  <1>. QED  BY <1>3, <1>4, SettleInit DEF Known

LEMMA KnownStep ==
  ASSUME Known, [Next]_vars
  PROVE  Known'
  <1>0. SettleInv'
    BY SettleStep DEF Known
  <1>1. CASE Quiet /\ Requests'
    BY <1>0, <1>1, QuietTables DEF Known
  <1>2. CASE \E p \in Proc : CommitSettlement(p) \/ CreateTaxiParkPlatformInvoice(p) \/ MarkAdminPlatformInvoicePaid(p)
    BY <1>0, <1>2, CommitTables, IssueTables, PaymentTables, WritingRequests DEF Known
  <1>3. CASE \E y \in Payout, d \in Driver, k \in Park, amount \in Amounts : CreateDriverPayout(y, d, k, amount)
    <2>1. Tables'
      BY <1>3, CreatePayoutTables
    <2>2. job' = job /\ clock' = clock /\ status' = status /\ invoices' = invoices
      BY <1>3 DEF CreateDriverPayout
    <2>. QED  BY <1>0, <2>1, <2>2, PayoutRequests DEF Known
  <1>4. CASE \E y \in Payout : ApproveDriverPayout(y) \/ MarkDriverPayoutPaid(y)
    <2>1. Tables'
      BY <1>4, ApproveTables, MarkPaidTables
    <2>2. job' = job /\ clock' = clock /\ status' = status /\ invoices' = invoices
      BY <1>4 DEF ApproveDriverPayout, MarkDriverPayoutPaid
    <2>. QED  BY <1>0, <2>1, <2>2, PayoutRequests DEF Known
  <1>. QED  BY <1>1, <1>2, <1>3, <1>4, Steps

LEMMA KnownTypes == Known => FinTypeOK
  <1>. SUFFICES ASSUME Known  PROVE FinTypeOK
    OBVIOUS
  <1>1. \A i \in DOMAIN driverLedger : driverLedger[i] \in Line
    BY DEF Known, Tables
  <1>2. \A n \in Ledger : \A e \in ledger[n] : e \in Entry
    BY DEF Known, Tables
  <1>3. \A p \in Proc : job[p].pc \in Pcs
    BY DEF Known, Requests, Typed
  <1>. QED  BY <1>1, <1>2, <1>3 DEF Known, SettleInv, Tables, Requests, FinTypeOK, Line, Pcs

\* Rows have the columns' values: commissions and fees never exceed what they are
\* a share of, no balance of a driver is negative (MarkDriverPayoutPaid pays what
\* is covered), and the balances of the other ledgers are numbers.
THEOREM FinanceTypes == Spec => []FinTypeOK
  <1>1. Init => Known
    BY KnownInit
  <1>2. Known /\ [Next]_vars => Known'
    BY KnownStep
  <1>. QED  BY <1>1, <1>2, KnownTypes, PTL DEF Spec

-----------------------------------------------------------------------------
(* The books: each settlement of an order of a park is booked once in each *)
(* ledger.                                                                 *)

Booking(n) == {e \in ledger[n] : e.kind = "accrual"}

BookedIn(n) ==
  /\ \A e \in Booking(n) : /\ e.source \in Order /\ settled[e.source] # None
                           /\ e.park = ParkOf[e.source] /\ e.amount = Due(settled[e.source])[n]
  /\ \A e, f \in Booking(n) : e.source = f.source => e = f
  /\ \A o \in Order : settled[o] # None /\ ParkOf[o] \in Park => \E e \in Booking(n) : e.source = o

Booked == \A n \in Ledger : BookedIn(n)

LEMMA BookedInit == Init => Booked
  BY DEF Init, Booked, BookedIn, Booking

\* A settlement is booked.
LEMMA CommitBooked ==
  ASSUME Known, Booked, NEW p \in Proc, CommitSettlement(p)
  PROVE  Booked'
  <1>. SUFFICES ASSUME NEW n \in Ledger  PROVE BookedIn(n)'
    BY DEF Booked
  <1>. DEFINE o == job[p].order
              k == ParkOf[o]
              terms == job[p].terms
              posting == Posting(p, o, "accrual", k, Due(terms), None)
  <1>0. /\ o \in Order /\ terms \in Settlement /\ settled[o] = None /\ k \in Park \union {NoPark}
        /\ Due(terms) \in [Ledger -> Nat] /\ job[p].after \in [Ledger -> Int] /\ job[p].at \in Nat
    BY CommitFacts
  <1>1. /\ settled' = [settled EXCEPT ![o] = terms]
        /\ ledger' = (IF k \in Park THEN [m \in Ledger |-> ledger[m] \union {posting[m]}] ELSE ledger)
    BY DEF CommitSettlement
  <1>2. k \in Park => /\ posting[n].source = o /\ posting[n].kind = "accrual"
                      /\ posting[n].park = k /\ posting[n].amount = Due(terms)[n]
    <2>1. k \in Park => posting[n] = [source |-> o, kind |-> "accrual", park |-> k, amount |-> Due(terms)[n],
                                    after |-> job[p].after[n], at |-> job[p].at, invoice |-> None]
      BY <1>0, PostingIsEntry
    <2>. QED  BY <2>1
  <1>. HIDE DEF posting
  <1>3. terms # None
    BY <1>0, NoneIsNoRow
  <1>4. settled'[o] = terms /\ \A x \in Order \ {o} : settled'[x] = settled[x]
    BY <1>0, <1>1 DEF Known, Tables
  <1>5. Booking(n)' = IF k \in Park THEN Booking(n) \union {posting[n]} ELSE Booking(n)
    <2>1. CASE k \in Park
      <3>1. ledger'[n] = ledger[n] \union {posting[n]}
        BY <1>1, <2>1
      <3>. QED  BY <1>2, <2>1, <3>1 DEF Booking
    <2>2. CASE k \notin Park
      BY <1>1, <2>2 DEF Booking
    <2>. QED  BY <2>1, <2>2
  <1>6. \A e \in Booking(n) : e.source \in Order \ {o}
    BY <1>0 DEF Booked, BookedIn
  <1>. HIDE DEF o, terms
  <1>7. ASSUME NEW e \in Booking(n)'
        PROVE  e.source \in Order /\ settled'[e.source] # None /\ e.park = ParkOf[e.source] /\ e.amount = Due(settled'[e.source])[n]
    <2>1. CASE e \in Booking(n)
      BY <1>4, <1>6, <2>1 DEF Booked, BookedIn
    <2>2. CASE e \notin Booking(n)
      BY <1>0, <1>2, <1>3, <1>4, <1>5, <2>2
    <2>. QED  BY <2>1, <2>2
  <1>8. \A e, f \in Booking(n)' : e.source = f.source => e = f
    BY <1>2, <1>5, <1>6 DEF Booked, BookedIn
  <1>9. ASSUME NEW x \in Order, settled'[x] # None, ParkOf[x] \in Park  PROVE \E e \in Booking(n)' : e.source = x
    <2>1. CASE x = o
      BY <1>2, <1>5, <1>9, <2>1
    <2>2. CASE x # o
      BY <1>4, <1>5, <1>9, <2>2 DEF Booked, BookedIn
    <2>. QED  BY <2>1, <2>2
  <1>10. \A e \in Booking(n)' : Due(settled'[e.source]) = Due(settled[e.source])'
    BY DEF Due
  <1>. QED  BY <1>7, <1>8, <1>9, <1>10 DEF BookedIn

\* Accruals are claimed: the ledger has the same rows under another invoice.
LEMMA IssueRows ==
  ASSUME Known, NEW p \in Proc, CreateTaxiParkPlatformInvoice(p), NEW i, i = job[p].invoice,
         NEW k, k = job[p].period[1], NEW period, period = job[p].period[2]
  PROVE  /\ \A e \in Booking("fee") \ Unbilled(k, period) : e \in Booking("fee")'
         /\ \A e \in Unbilled(k, period) : [e EXCEPT !.invoice = i] \in Booking("fee")'
         /\ \A f \in Booking("fee")' :
              \/ f \in Booking("fee") \ Unbilled(k, period)
              \/ \E e \in Unbilled(k, period) : f = [e EXCEPT !.invoice = i]
         /\ \A e \in Unbilled(k, period) :
              /\ e \in Booking("fee")
              /\ [e EXCEPT !.invoice = i].invoice = i
              /\ [e EXCEPT !.invoice = i].source = e.source /\ [e EXCEPT !.invoice = i].kind = e.kind
              /\ [e EXCEPT !.invoice = i].park = e.park /\ [e EXCEPT !.invoice = i].amount = e.amount
              /\ [e EXCEPT !.invoice = i].at = e.at
  <1>. DEFINE row == [park |-> k, amount |-> job[p].sum, period |-> period, status |-> "issued"]
              claimed == Unbilled(k, period)
  <1>1. /\ i \in Invoice /\ claimed \subseteq ledger["fee"]
        /\ ledger'["fee"] = (ledger["fee"] \ claimed) \union {[e EXCEPT !.invoice = i] : e \in claimed}
    <2>1. row = [park |-> k, amount |-> job[p].sum, period |-> period, status |-> "issued"]
      OBVIOUS
    <2>. HIDE DEF row
    <2>. QED  BY <2>1, IssueFacts
  <1>2. \A e \in claimed : e.kind = "accrual" /\ e \in Entry
    <2>1. "fee" \in Ledger /\ ledger \in [Ledger -> SUBSET Entry]
      BY DEF Known, Tables, Ledger
    <2>. QED  BY <1>1, <2>1 DEF Unbilled
  <1>3. \A e \in claimed : /\ [e EXCEPT !.invoice = i].invoice = i
                           /\ [e EXCEPT !.invoice = i].source = e.source /\ [e EXCEPT !.invoice = i].kind = e.kind
                           /\ [e EXCEPT !.invoice = i].park = e.park /\ [e EXCEPT !.invoice = i].amount = e.amount
                           /\ [e EXCEPT !.invoice = i].at = e.at
    BY <1>1, <1>2, Relabelled
  <1>4. \A e \in claimed : e \in Booking("fee")
    BY <1>1, <1>2 DEF Booking
  <1>. HIDE DEF claimed
  <1>5. \A e \in Booking("fee") \ claimed : e \in Booking("fee")'
    BY <1>1 DEF Booking
  <1>6. \A e \in claimed : [e EXCEPT !.invoice = i] \in Booking("fee")'
    BY <1>1, <1>2, <1>3 DEF Booking
  <1>7. \A f \in Booking("fee")' : f \in Booking("fee") \ claimed \/ \E e \in claimed : f = [e EXCEPT !.invoice = i]
    BY <1>1 DEF Booking
  <1>. QED  BY <1>3, <1>4, <1>5, <1>6, <1>7 DEF claimed

LEMMA IssueBooked ==
  ASSUME Known, Booked, NEW p \in Proc, CreateTaxiParkPlatformInvoice(p)
  PROVE  Booked'
  <1>. DEFINE i == job[p].invoice
              k == job[p].period[1]
              period == job[p].period[2]
              row == [park |-> k, amount |-> job[p].sum, period |-> period, status |-> "issued"]
              claimed == Unbilled(k, period)
              With(e) == [e EXCEPT !.invoice = i]
  <1>1. settled' = settled /\ \A n \in Ledger \ {"fee"} : ledger'[n] = ledger[n]
    <2>1. /\ i = job[p].invoice /\ k = job[p].period[1] /\ period = job[p].period[2]
          /\ row = [park |-> k, amount |-> job[p].sum, period |-> period, status |-> "issued"]
      OBVIOUS
    <2>. HIDE DEF i, k, period, row
    <2>. QED  BY <2>1, IssueFacts
  <1>2. /\ \A e \in Booking("fee") \ claimed : e \in Booking("fee")'
        /\ \A e \in claimed : With(e) \in Booking("fee")'
        /\ \A f \in Booking("fee")' : f \in Booking("fee") \ claimed \/ \E e \in claimed : f = With(e)
        /\ \A e \in claimed : /\ e \in Booking("fee") /\ With(e).source = e.source
                              /\ With(e).park = e.park /\ With(e).amount = e.amount
    <2>1. i = job[p].invoice /\ k = job[p].period[1] /\ period = job[p].period[2]
      OBVIOUS
    <2>. HIDE DEF i, k, period
    <2>. QED  BY <2>1, IssueRows
  <1>. HIDE DEF claimed, With
  <1>3. ASSUME NEW n \in Ledger, n # "fee"  PROVE BookedIn(n)'
    <2>1. Booking(n)' = Booking(n)
      BY <1>1, <1>3 DEF Booking
    <2>. QED  BY <1>1, <2>1 DEF Booked, BookedIn, Due
  <1>4. BookedIn("fee")'
    <2>0. BookedIn("fee")
      BY DEF Booked, Ledger
    <2>1. \A f \in Booking("fee")' : \E e \in Booking("fee") :
            /\ e.source = f.source /\ e.park = f.park /\ e.amount = f.amount
            /\ f = IF e \in claimed THEN With(e) ELSE e
      BY <1>2
    <2>2. ASSUME NEW f \in Booking("fee")'
          PROVE  f.source \in Order /\ settled'[f.source] # None /\ f.park = ParkOf[f.source] /\ f.amount = Due(settled'[f.source])["fee"]
      BY <1>1, <2>0, <2>1 DEF BookedIn
    <2>3. ASSUME NEW f \in Booking("fee")', NEW g \in Booking("fee")', f.source = g.source  PROVE f = g
      <3>1. PICK e \in Booking("fee") : e.source = f.source /\ f = IF e \in claimed THEN With(e) ELSE e
        BY <2>1
      <3>2. PICK d \in Booking("fee") : d.source = g.source /\ g = IF d \in claimed THEN With(d) ELSE d
        BY <2>1
      <3>3. e = d
        BY <2>0, <2>3, <3>1, <3>2 DEF BookedIn
      <3>. QED  BY <3>1, <3>2, <3>3
    <2>4. ASSUME NEW o \in Order, settled'[o] # None, ParkOf[o] \in Park  PROVE \E f \in Booking("fee")' : f.source = o
      <3>1. PICK e \in Booking("fee") : e.source = o
        BY <1>1, <2>0, <2>4 DEF BookedIn
      <3>. QED  BY <1>2, <3>1
    <2>5. \A f \in Booking("fee")' : Due(settled'[f.source]) = Due(settled[f.source])'
      BY DEF Due
    <2>. QED  BY <2>2, <2>3, <2>4, <2>5 DEF BookedIn
  <1>. QED  BY <1>3, <1>4 DEF Booked

\* A payment of an invoice is no accrual.
LEMMA PaymentRows ==
  ASSUME Known, NEW p \in Proc, MarkAdminPlatformInvoicePaid(p)
  PROVE  /\ \A n \in Ledger : Booking(n)' = Booking(n)
         /\ ledger["fee"] \subseteq ledger'["fee"]
  <1>1. PICK posting \in [Ledger -> Entry] :
          /\ \A n \in Ledger : posting[n].kind = "payment"
          /\ ledger' = [n \in Ledger |-> IF n = "park" THEN ledger[n] ELSE ledger[n] \union {posting[n]}]
    BY PaymentFacts
  <1>2. \A n \in Ledger : Booking(n)' = Booking(n)
    <2>. SUFFICES ASSUME NEW n \in Ledger  PROVE Booking(n)' = Booking(n)
      OBVIOUS
    <2>1. ledger'[n] = ledger[n] \/ ledger'[n] = ledger[n] \union {posting[n]}
      BY <1>1
    <2>. QED  BY <1>1, <2>1 DEF Booking
  <1>3. ledger["fee"] \subseteq ledger'["fee"]
    <2>1. "fee" \in Ledger
      BY DEF Ledger
    <2>. QED  BY <1>1, <2>1
  <1>. QED  BY <1>2, <1>3

LEMMA SameBooked ==
  ASSUME Booked, settled' = settled, \A n \in Ledger : Booking(n)' = Booking(n)
  PROVE  Booked'
  BY DEF Booked, BookedIn, Due

LEMMA BookedStep ==
  ASSUME Known, Booked, [Next]_vars
  PROVE  Booked'
  <1>1. ASSUME Quiet  PROVE Booked'
    BY <1>1, SameBooked DEF Quiet, Booking
  <1>2. ASSUME NEW p \in Proc, MarkAdminPlatformInvoicePaid(p)  PROVE Booked'
    <2>1. settled' = settled
      BY <1>2, PaymentFacts
    <2>. QED  BY <1>2, <2>1, PaymentRows, SameBooked
  <1>3. ASSUME NEW y \in Payout, NEW d \in Driver, NEW k \in Park, NEW amount \in Amounts, CreateDriverPayout(y, d, k, amount)  PROVE Booked'
    BY <1>3, SameBooked DEF CreateDriverPayout, Booking
  <1>4. ASSUME NEW y \in Payout, ApproveDriverPayout(y) \/ MarkDriverPayoutPaid(y)  PROVE Booked'
    BY <1>4, SameBooked DEF ApproveDriverPayout, MarkDriverPayoutPaid, Booking
  <1>. QED  BY <1>1, <1>2, <1>3, <1>4, CommitBooked, IssueBooked, Steps

-----------------------------------------------------------------------------
(* The balances: income less payouts.                                      *)

Income(d, k) == SumFunction([o \in SettledOf(d, k) |-> settled[o].net])
PaidOut(d, k) == SumFunction([y \in PaidTo(d, k) |-> payouts[y].amount])
Commissions(k) == SumFunction([o \in SettledIn(k) |-> settled[o].commission])

Credited ==
  /\ \A d \in Driver, k \in Park \union {NoPark} : balance[d][k] = Income(d, k) - PaidOut(d, k)
  /\ \A k \in Park : parkBalance[k] = Commissions(k)

LEMMA SettledSets ==
  ASSUME Known, NEW d, NEW k
  PROVE  /\ IsFiniteSet(SettledOf(d, k)) /\ IsFiniteSet(SettledIn(k)) /\ IsFiniteSet(PaidTo(d, k))
         /\ [o \in SettledOf(d, k) |-> settled[o].net] \in [SettledOf(d, k) -> Nat]
         /\ [o \in SettledIn(k) |-> settled[o].commission] \in [SettledIn(k) -> Nat]
         /\ [o \in SettledIn(k) |-> settled[o].fee] \in [SettledIn(k) -> Nat]
         /\ [y \in PaidTo(d, k) |-> payouts[y].amount] \in [PaidTo(d, k) -> Nat]
  <1>1. SettledOf(d, k) \subseteq SettledOrders /\ SettledIn(k) \subseteq SettledOrders /\ PaidTo(d, k) \subseteq PayoutsMade
    BY DEF SettledOf, SettledIn, PaidTo, SettledOrders, PayoutsMade
  <1>2. \A o \in SettledOrders : settled[o] \in Settlement
    BY DEF Known, Tables, SettledOrders
  <1>3. \A y \in PayoutsMade : payouts[y] \in PayoutRow
    BY DEF Known, Tables, PayoutsMade
  <1>4. IsFiniteSet(SettledOrders) /\ IsFiniteSet(PayoutsMade)
    BY DEF Known, Tables
  <1>5. IsFiniteSet(SettledOf(d, k)) /\ IsFiniteSet(SettledIn(k)) /\ IsFiniteSet(PaidTo(d, k))
    BY <1>1, <1>4, FS_Subset
  <1>6. \A o \in SettledOf(d, k) : settled[o].net \in Nat
    BY <1>1, <1>2 DEF Settlement
  <1>7. \A o \in SettledIn(k) : settled[o].commission \in Nat /\ settled[o].fee \in Nat
    BY <1>1, <1>2 DEF Settlement
  <1>8. \A y \in PaidTo(d, k) : payouts[y].amount \in Nat
    BY <1>1, <1>3 DEF PayoutRow
  <1>. QED  BY <1>5, <1>6, <1>7, <1>8

\* g is f with one more term, at y.
OneMore(S, f, g, y) ==
  /\ IsFiniteSet(S) /\ y \notin S
  /\ f \in [S -> Int] /\ g \in [S \union {y} -> Int]
  /\ \A x \in S : g[x] = f[x]

LEMMA SumMore ==
  ASSUME NEW S, NEW f, NEW g, NEW y, OneMore(S, f, g, y)
  PROVE  SumFunction(g) = SumFunction(f) + g[y]
  BY SumAdd DEF OneMore

\* A settlement adds its income to the driver's and its commission to the park's.
LEMMA CommitSums ==
  ASSUME Known, NEW p \in Proc, CommitSettlement(p), NEW o, o = job[p].order, NEW terms, terms = job[p].terms,
         NEW d \in Driver, NEW k
  PROVE  /\ Income(d, k)' = Income(d, k) + (IF d = DriverOf[o] /\ k = ParkOf[o] THEN terms.net ELSE 0)
         /\ Commissions(k)' = Commissions(k) + (IF k = ParkOf[o] THEN terms.commission ELSE 0)
  <1>0. o \in Order /\ terms \in Settlement /\ settled[o] = None
    BY CommitFacts
  <1>1. settled' = [settled EXCEPT ![o] = terms]
    BY DEF CommitSettlement
  <1>2. terms # None /\ terms.net \in Nat /\ terms.commission \in Nat
    BY <1>0, NoneIsNoRow DEF Settlement
  <1>3. settled'[o] = terms /\ \A x \in Order \ {o} : settled'[x] = settled[x]
    BY <1>0, <1>1 DEF Known, Tables
  <1>. DEFINE A == SettledOf(d, k)
              B == SettledOf(d, k)'
              f == [x \in A |-> settled[x].net]
              g == [x \in B |-> settled'[x].net]
              C == SettledIn(k)
              D == SettledIn(k)'
              u == [x \in C |-> settled[x].commission]
              v == [x \in D |-> settled'[x].commission]
  <1>4. IsFiniteSet(A) /\ f \in [A -> Nat] /\ IsFiniteSet(C) /\ u \in [C -> Nat]
    BY SettledSets
  <1>5. SumFunction(f) \in Nat /\ SumFunction(u) \in Nat
    BY <1>4, SumNat
  <1>6. A \subseteq Order \ {o} /\ C \subseteq Order \ {o}
    BY <1>0 DEF SettledOf, SettledIn
  <1>7. B = IF d = DriverOf[o] /\ k = ParkOf[o] THEN A \union {o} ELSE A
    BY <1>0, <1>2, <1>3 DEF SettledOf
  <1>8. D = IF k = ParkOf[o] THEN C \union {o} ELSE C
    BY <1>0, <1>2, <1>3 DEF SettledIn
  <1>9. Income(d, k)' = SumFunction(g) /\ Income(d, k) = SumFunction(f)
    BY DEF Income
  <1>10. Commissions(k)' = SumFunction(v) /\ Commissions(k) = SumFunction(u)
    BY DEF Commissions
  <1>11. SumFunction(g) = SumFunction(f) + (IF d = DriverOf[o] /\ k = ParkOf[o] THEN terms.net ELSE 0)
    <2>1. CASE d = DriverOf[o] /\ k = ParkOf[o]
      <3>1. B = A \union {o} /\ o \notin A
        BY <1>6, <1>7, <2>1
      <3>2. g[o] = terms.net /\ \A x \in A : g[x] = f[x]
        BY <1>3, <1>6, <3>1
      <3>3. g = [x \in B |-> g[x]]
        OBVIOUS
      <3>. HIDE DEF A, B, f, g
      <3>4. g[o] \in Nat
        BY <1>2, <3>2
      <3>6. IsFiniteSet(A) /\ f \in [A -> Nat]
        BY <1>4
      <3>7. \A x \in A : g[x] = f[x]
        BY <3>2
      <3>8. f \in [A -> Int] /\ g \in [A \union {o} -> Int]
        <4>1. f \in [A -> Int] /\ \A z \in A : f[z] \in Int
          BY <3>6
        <4>2. \A z \in A \union {o} : g[z] \in Int
          BY <4>1, <3>4, <3>7
        <4>3. g = [z \in A \union {o} |-> g[z]]
          BY <3>1, <3>3, Zenon
        <4>. QED  BY <4>1, <4>2, <4>3
      <3>9. OneMore(A, f, g, o)
        BY <3>1, <3>6, <3>7, <3>8 DEF OneMore
      <3>5. SumFunction(g) = SumFunction(f) + g[o]
        BY <3>9, SumMore
      <3>. QED  BY <2>1, <3>2, <3>5
    <2>2. CASE ~(d = DriverOf[o] /\ k = ParkOf[o])
      <3>1. B = A
        BY <1>7, <2>2
      <3>2. g = f
        BY <1>3, <1>6, <3>1
      <3>. HIDE DEF A, B, f, g
      <3>. QED  BY <1>5, <2>2, <3>2
    <2>. QED  BY <2>1, <2>2
  <1>12. SumFunction(v) = SumFunction(u) + (IF k = ParkOf[o] THEN terms.commission ELSE 0)
    <2>1. CASE k = ParkOf[o]
      <3>1. D = C \union {o} /\ o \notin C
        BY <1>6, <1>8, <2>1
      <3>2. v[o] = terms.commission /\ \A x \in C : v[x] = u[x]
        BY <1>3, <1>6, <3>1
      <3>3. v = [x \in D |-> v[x]]
        OBVIOUS
      <3>. HIDE DEF C, D, u, v
      <3>4. v[o] \in Nat
        BY <1>2, <3>2
      <3>6. IsFiniteSet(C) /\ u \in [C -> Nat]
        BY <1>4
      <3>7. \A x \in C : v[x] = u[x]
        BY <3>2
      <3>8. u \in [C -> Int] /\ v \in [C \union {o} -> Int]
        <4>1. u \in [C -> Int] /\ \A z \in C : u[z] \in Int
          BY <3>6
        <4>2. \A z \in C \union {o} : v[z] \in Int
          BY <4>1, <3>4, <3>7
        <4>3. v = [z \in C \union {o} |-> v[z]]
          BY <3>1, <3>3, Zenon
        <4>. QED  BY <4>1, <4>2, <4>3
      <3>9. OneMore(C, u, v, o)
        BY <3>1, <3>6, <3>7, <3>8 DEF OneMore
      <3>5. SumFunction(v) = SumFunction(u) + v[o]
        BY <3>9, SumMore
      <3>. QED  BY <2>1, <3>2, <3>5
    <2>2. CASE k # ParkOf[o]
      <3>1. D = C
        BY <1>8, <2>2
      <3>2. v = u
        BY <1>3, <1>6, <3>1
      <3>. HIDE DEF C, D, u, v
      <3>. QED  BY <1>5, <2>2, <3>2
    <2>. QED  BY <2>1, <2>2
  <1>. QED  BY <1>9, <1>10, <1>11, <1>12

\* A payout that is paid adds its amount to what its driver was paid.
LEMMA PaidSums ==
  ASSUME Known, NEW y \in Payout, MarkDriverPayoutPaid(y), NEW d, NEW k
  PROVE  PaidOut(d, k)' = PaidOut(d, k)
           + (IF d = payouts[y].driver /\ k = payouts[y].park THEN payouts[y].amount ELSE 0)
  <1>1. payouts[y] # None /\ payouts[y].status # "paid" /\ payouts' = [payouts EXCEPT ![y].status = "paid"]
    BY DEF MarkDriverPayoutPaid, Payable
  <1>2. /\ payouts'[y] # None /\ payouts'[y].status = "paid" /\ payouts'[y].amount = payouts[y].amount
        /\ payouts'[y].driver = payouts[y].driver /\ payouts'[y].park = payouts[y].park
        /\ \A z \in Payout \ {y} : payouts'[z] = payouts[z]
    BY <1>1, PayoutGoesOn
  <1>3. payouts[y].amount \in Nat
    BY <1>1 DEF Known, Tables, PayoutRow
  <1>. DEFINE A == PaidTo(d, k)
              B == PaidTo(d, k)'
              f == [z \in A |-> payouts[z].amount]
              g == [z \in B |-> payouts'[z].amount]
  <1>4. IsFiniteSet(A) /\ f \in [A -> Nat]
    BY SettledSets
  <1>5. SumFunction(f) \in Nat
    BY <1>4, SumNat
  <1>6. A \subseteq Payout \ {y}
    BY <1>1 DEF PaidTo
  <1>7. B = IF d = payouts[y].driver /\ k = payouts[y].park THEN A \union {y} ELSE A
    BY <1>2, <1>6 DEF PaidTo
  <1>8. PaidOut(d, k)' = SumFunction(g) /\ PaidOut(d, k) = SumFunction(f)
    BY DEF PaidOut
  <1>9. CASE d = payouts[y].driver /\ k = payouts[y].park
    <2>1. B = A \union {y} /\ y \notin A
      BY <1>6, <1>7, <1>9
    <2>2. g[y] = payouts[y].amount /\ \A z \in A : g[z] = f[z]
      BY <1>2, <1>6, <2>1
    <2>3. g = [z \in B |-> g[z]]
      OBVIOUS
    <2>. HIDE DEF A, B, f, g
    <2>4. f \in [A -> Int] /\ g \in [A \union {y} -> Int]
      <3>1. f \in [A -> Int] /\ \A z \in A : f[z] \in Int
        BY <1>4
      <3>2. \A z \in A \union {y} : g[z] \in Int
        BY <3>1, <1>3, <2>2, <2>2
      <3>3. g = [z \in A \union {y} |-> g[z]]
        BY <2>1, <2>3, Zenon
      <3>. QED  BY <3>1, <3>2, <3>3
    <2>5. OneMore(A, f, g, y)
      BY <1>4, <2>1, <2>2, <2>4 DEF OneMore
    <2>6. SumFunction(g) = SumFunction(f) + g[y]
      BY <2>5, SumMore
    <2>. QED  BY <1>8, <1>9, <2>2, <2>6
  <1>10. CASE ~(d = payouts[y].driver /\ k = payouts[y].park)
    <2>1. B = A
      BY <1>7, <1>10
    <2>2. g = f
      BY <1>2, <1>6, <2>1
    <2>. HIDE DEF A, B, f, g
    <2>. QED  BY <1>5, <1>8, <1>10, <2>2
  <1>. QED  BY <1>9, <1>10

\* The sums stay when neither settlements nor payouts change, nor when a payout
\* is created or approved.
LEMMA SumsStay ==
  ASSUME Known, settled' = settled, NEW d, NEW k
  PROVE  Income(d, k)' = Income(d, k) /\ Commissions(k)' = Commissions(k)
  BY DEF Income, Commissions, SettledOf, SettledIn

LEMMA PaidOutStays ==
  ASSUME Known, NEW d, NEW k,
         \A y \in Payout : payouts'[y] = payouts[y]
           \/ /\ payouts'[y] # None /\ payouts'[y].status # "paid"
              /\ payouts[y] = None \/ payouts[y].status # "paid"
  PROVE  PaidOut(d, k)' = PaidOut(d, k)
  <1>1. PaidTo(d, k)' = PaidTo(d, k) /\ \A y \in PaidTo(d, k) : payouts'[y] = payouts[y]
    BY DEF PaidTo
  <1>. QED  BY <1>1 DEF PaidOut

LEMMA SumsAreInt ==
  ASSUME Known, NEW d, NEW k
  PROVE  Income(d, k) \in Int /\ PaidOut(d, k) \in Int /\ Commissions(k) \in Int
  <1>1. Income(d, k) \in Nat
    BY SettledSets, SumNat DEF Income
  <1>2. PaidOut(d, k) \in Nat
    BY SettledSets, SumNat DEF PaidOut
  <1>3. Commissions(k) \in Nat
    BY SettledSets, SumNat DEF Commissions
  <1>. QED  BY <1>1, <1>2, <1>3

LEMMA CreditedInit == Init => Credited
  <1>. SUFFICES ASSUME Init  PROVE Credited
    OBVIOUS
  <1>1. \A d, k : SettledOf(d, k) = {} /\ SettledIn(k) = {} /\ PaidTo(d, k) = {}
    BY DEF Init, SettledOf, SettledIn, PaidTo
  <1>2. \A d, k : Income(d, k) = 0 /\ PaidOut(d, k) = 0 /\ Commissions(k) = 0
    BY <1>1, SumEmpty DEF Income, PaidOut, Commissions
  <1>. QED  BY <1>2 DEF Init, Credited

LEMMA CommitCredited ==
  ASSUME Known, Credited, NEW p \in Proc, CommitSettlement(p)
  PROVE  Credited'
  <1>. DEFINE o == job[p].order
              terms == job[p].terms
              d == DriverOf[o]
              k == ParkOf[o]
  <1>0. /\ o \in Order /\ terms \in Settlement /\ k \in Park \union {NoPark} /\ d \in Driver
        /\ o = job[p].order /\ terms = job[p].terms
    BY CommitFacts
  <1>1. /\ balance' = [balance EXCEPT ![d][k] = @ + terms.net] /\ payouts' = payouts
        /\ parkBalance' = (IF k \in Park THEN [parkBalance EXCEPT ![k] = @ + terms.commission] ELSE parkBalance)
    BY DEF CommitSettlement
  <1>2. terms.net \in Nat /\ terms.commission \in Nat
    BY <1>0 DEF Settlement
  <1>. HIDE DEF o, terms
  <1>3. ASSUME NEW dd \in Driver, NEW kk \in Park \union {NoPark}
        PROVE  balance'[dd][kk] = Income(dd, kk)' - PaidOut(dd, kk)'
    <2>1. Income(dd, kk)' = Income(dd, kk) + (IF dd = d /\ kk = k THEN terms.net ELSE 0)
      BY <1>0, CommitSums
    <2>2. PaidOut(dd, kk)' = PaidOut(dd, kk)
      BY <1>1, PaidOutStays
    <2>3. Income(dd, kk) \in Int /\ PaidOut(dd, kk) \in Int
      BY SumsAreInt
    <2>4. balance[dd][kk] = Income(dd, kk) - PaidOut(dd, kk)
      BY DEF Credited
    <2>5. balance'[dd][kk] = balance[dd][kk] + (IF dd = d /\ kk = k THEN terms.net ELSE 0)
      <3>1. balance[d][k] \in Nat /\ balance[dd][kk] \in Nat
        BY <1>0 DEF Known, Tables
      <3>2. balance' = [balance EXCEPT ![d][k] = balance[d][k] + terms.net] /\ balance[d][k] + terms.net \in Nat
        BY <1>1, <1>2, <3>1
      <3>3. balance'[d][k] = balance[d][k] + terms.net /\ (dd # d \/ kk # k => balance'[dd][kk] = balance[dd][kk])
        <4>1. Tables /\ d \in Driver /\ k \in Park \union {NoPark}
          BY <1>0 DEF Known
        <4>2. \A e \in Driver, l \in Park \union {NoPark} :
                balance'[e][l] = IF e = d /\ l = k THEN balance[d][k] + terms.net ELSE balance[e][l]
          <5>1. BalanceSet(d, k, balance[d][k] + terms.net)
            BY <3>2, <4>1 DEF BalanceSet
          <5>. QED  BY <4>1, <5>1, BalanceChanges
        <4>. QED  BY <4>1, <4>2
      <3>. QED  BY <3>1, <3>3
    <2>. QED  BY <1>2, <2>1, <2>2, <2>3, <2>4, <2>5
  <1>4. ASSUME NEW kk \in Park  PROVE parkBalance'[kk] = Commissions(kk)'
    <2>1. Commissions(kk)' = Commissions(kk) + (IF kk = k THEN terms.commission ELSE 0)
      BY <1>0, CommitSums
    <2>2. Commissions(kk) \in Int /\ parkBalance[kk] = Commissions(kk) /\ parkBalance \in [Park -> Nat]
      BY <1>0, SumsAreInt DEF Credited, Known, Tables
    <2>. QED  BY <1>1, <1>2, <2>1, <2>2
  <1>. QED  BY <1>3, <1>4 DEF Credited

LEMMA MarkPaidCredited ==
  ASSUME Known, Credited, NEW y \in Payout, MarkDriverPayoutPaid(y)
  PROVE  Credited'
  <1>. DEFINE d == payouts[y].driver
              k == payouts[y].park
              amount == payouts[y].amount
  <1>1. /\ payouts[y] # None /\ balance' = [balance EXCEPT ![d][k] = @ - amount] /\ balance[d][k] >= amount
        /\ settled' = settled /\ parkBalance' = parkBalance
    BY DEF MarkDriverPayoutPaid, Payable, Covered
  <1>2. d \in Driver /\ k \in Park /\ amount \in Nat
    <2>1. payouts[y] \in PayoutRow
      BY <1>1 DEF Known, Tables
    <2>. QED  BY <2>1 DEF PayoutRow
  <1>3. \A dd \in Driver, kk \in Park \union {NoPark} :
          PaidOut(dd, kk)' = PaidOut(dd, kk) + (IF dd = d /\ kk = k THEN amount ELSE 0)
    BY PaidSums
  <1>. HIDE DEF d, k, amount
  <1>4. ASSUME NEW dd \in Driver, NEW kk \in Park \union {NoPark}
        PROVE  balance'[dd][kk] = Income(dd, kk)' - PaidOut(dd, kk)'
    <2>1. Income(dd, kk)' = Income(dd, kk)
      BY <1>1, SumsStay
    <2>3. Income(dd, kk) \in Int /\ PaidOut(dd, kk) \in Int
      BY SumsAreInt
    <2>4. balance[dd][kk] = Income(dd, kk) - PaidOut(dd, kk)
      BY DEF Credited
    <2>5. balance'[dd][kk] = balance[dd][kk] - (IF dd = d /\ kk = k THEN amount ELSE 0)
      <3>1. balance[d][k] \in Nat /\ balance[dd][kk] \in Nat
        BY <1>2 DEF Known, Tables
      <3>2. balance' = [balance EXCEPT ![d][k] = balance[d][k] - amount] /\ balance[d][k] - amount \in Nat
        BY <1>1, <1>2, <3>1
      <3>3. balance'[d][k] = balance[d][k] - amount /\ (dd # d \/ kk # k => balance'[dd][kk] = balance[dd][kk])
        <4>1. Tables /\ d \in Driver /\ k \in Park \union {NoPark}
          BY <1>2 DEF Known
        <4>2. \A e \in Driver, l \in Park \union {NoPark} :
                balance'[e][l] = IF e = d /\ l = k THEN balance[d][k] - amount ELSE balance[e][l]
          <5>1. BalanceSet(d, k, balance[d][k] - amount)
            BY <3>2, <4>1 DEF BalanceSet
          <5>. QED  BY <4>1, <5>1, BalanceChanges
        <4>. QED  BY <4>1, <4>2
      <3>. QED  BY <3>1, <3>3
    <2>. QED  BY <1>2, <1>3, <2>1, <2>3, <2>4, <2>5
  <1>5. ASSUME NEW kk \in Park  PROVE parkBalance'[kk] = Commissions(kk)'
    BY <1>1, SumsStay DEF Credited
  <1>. QED  BY <1>4, <1>5 DEF Credited

LEMMA CreditedStep ==
  ASSUME Known, Credited, [Next]_vars
  PROVE  Credited'
  <1>1. ASSUME settled' = settled, balance' = balance, parkBalance' = parkBalance,
               \A y \in Payout : payouts'[y] = payouts[y]
                 \/ /\ payouts'[y] # None /\ payouts'[y].status # "paid"
                    /\ payouts[y] = None \/ payouts[y].status # "paid"
        PROVE  Credited'
    BY <1>1, SumsStay, PaidOutStays DEF Credited
  <1>2. ASSUME Quiet  PROVE Credited'
    BY <1>1, <1>2 DEF Quiet
  <1>3. ASSUME NEW p \in Proc, MarkAdminPlatformInvoicePaid(p) \/ CreateTaxiParkPlatformInvoice(p)  PROVE Credited'
    BY <1>1, <1>3 DEF MarkAdminPlatformInvoicePaid, CreateTaxiParkPlatformInvoice
  <1>4. ASSUME NEW y \in Payout, NEW d \in Driver, NEW k \in Park, NEW amount \in Amounts, CreateDriverPayout(y, d, k, amount)
        PROVE  Credited'
    <2>. DEFINE row == [driver |-> d, park |-> k, amount |-> amount, status |-> "created"]
    <2>1. /\ payouts[y] = None /\ payouts' = [payouts EXCEPT ![y] = row]
          /\ settled' = settled /\ balance' = balance /\ parkBalance' = parkBalance
      BY <1>4 DEF CreateDriverPayout
    <2>2. row \in PayoutRow /\ row.status # "paid"
      BY Constants DEF PayoutRow
    <2>. HIDE DEF row
    <2>3. row # None
      BY <2>2, NoneIsNoRow
    <2>4. payouts'[y] = row /\ \A z \in Payout \ {y} : payouts'[z] = payouts[z]
      BY <2>1 DEF Known, Tables
    <2>. QED  BY <1>1, <2>1, <2>2, <2>3, <2>4
  <1>5. ASSUME NEW y \in Payout, ApproveDriverPayout(y)  PROVE Credited'
    <2>1. /\ payouts[y] # None /\ payouts[y].status # "paid" /\ payouts' = [payouts EXCEPT ![y].status = "approved"]
          /\ settled' = settled /\ balance' = balance /\ parkBalance' = parkBalance
      BY <1>5 DEF ApproveDriverPayout, Payable
    <2>2. /\ payouts'[y] # None /\ payouts'[y].status = "approved" /\ \A z \in Payout \ {y} : payouts'[z] = payouts[z]
      BY <2>1, PayoutGoesOn
    <2>. QED  BY <1>1, <2>1, <2>2
  <1>. QED  BY <1>2, <1>3, <1>4, <1>5, CommitCredited, MarkPaidCredited, Steps

\* What a ledger has booked of a park, order by order.
DueOf(n, o) == Due(settled[o])[n]

LEMMA AccrualsAddUp ==
  ASSUME Known, Booked, NEW n \in Ledger, NEW k \in Park
  PROVE  AmountOf(Accruals(n, k)) = SumFunction([o \in SettledIn(k) |-> DueOf(n, o)])
  <1>. DEFINE A == Accruals(n, k)
              S == SettledIn(k)
              f == [e \in A |-> e.amount]
              g == [o \in S |-> DueOf(n, o)]
              h == [e \in A |-> e.source]
  <1>1. \A e \in A : e \in Booking(n) /\ e.park = k /\ e \in Entry
    BY DEF Accruals, RowsOf, Booking, Known, Tables
  <1>2. \A e \in Booking(n) : e.park = k => e \in A
    BY DEF Accruals, RowsOf, Booking
  <1>3. BookedIn(n)
    BY DEF Booked
  <1>4. IsFiniteSet(A)
    <2>1. A \subseteq ledger[n] /\ IsFiniteSet(ledger[n])
      BY DEF Accruals, RowsOf, Known, Tables
    <2>. QED  BY <2>1, FS_Subset
  <1>5. IsFiniteSet(S)
    BY SettledSets
  <1>6. \A e \in A : e.source \in S /\ e.amount = DueOf(n, e.source)
    BY <1>1, <1>3 DEF BookedIn, SettledIn, DueOf
  <1>7. \A e \in A : e.amount \in Nat
    BY <1>1 DEF Entry
  <1>8. \A d, e \in A : d.source = e.source => d = e
    BY <1>1, <1>3 DEF BookedIn
  <1>9. \A o \in S : \E e \in A : e.source = o
    <2>1. \A o \in S : o \in Order /\ settled[o] # None /\ ParkOf[o] = k
      BY DEF SettledIn
    <2>. SUFFICES ASSUME NEW o \in S  PROVE \E e \in A : e.source = o
      OBVIOUS
    <2>2. PICK e \in Booking(n) : e.source = o
      BY <1>3, <2>1 DEF BookedIn
    <2>3. e.park = k
      BY <1>3, <2>1, <2>2 DEF BookedIn
    <2>. QED  BY <1>2, <2>2, <2>3
  <1>10. \A o \in S : DueOf(n, o) \in Nat
    <2>. SUFFICES ASSUME NEW o \in S  PROVE DueOf(n, o) \in Nat
      OBVIOUS
    <2>1. settled[o] \in Settlement
      BY DEF SettledIn, Known, Tables
    <2>2. settled[o].commission \in Nat /\ settled[o].fee \in Nat
      BY <2>1 DEF Settlement
    <2>. QED  BY <2>2 DEF DueOf, Due
  <1>11. AmountOf(A) = SumFunction(f)
    BY DEF AmountOf
  <1>. HIDE DEF A, S
  <1>12. f \in [A -> Nat] /\ g \in [S -> Nat] /\ h \in [A -> S]
    BY <1>6, <1>7, <1>10
  <1>13. \A d, e \in A : h[d] = h[e] => d = e
    BY <1>8
  <1>14. \A o \in S : \E e \in A : h[e] = o
    BY <1>9
  <1>15. \A e \in A : f[e] = g[h[e]]
    BY <1>6
  <1>. HIDE DEF f, h
  <1>16. SumFunction(f) = SumFunction(g)
    <2>. HIDE DEF g
    <2>. QED  BY <1>4, <1>5, <1>12, <1>13, <1>14, <1>15, SumBijection
  <1>. QED  BY <1>11, <1>16 DEF A, S

LEMMA BooksBalanceInv ==
  ASSUME Known, Booked, Credited
  PROVE  BooksBalance
  <1>1. \A d \in Driver, k \in Park \union {NoPark} :
       balance[d][k] = SumFunction([o \in SettledOf(d, k) |-> settled[o].net])
                       - SumFunction([y \in PaidTo(d, k) |-> payouts[y].amount])
    BY DEF Credited, Income, PaidOut
  <1>2. ASSUME NEW k \in Park
        PROVE  /\ parkBalance[k] = SumFunction([o \in SettledIn(k) |-> settled[o].commission])
               /\ AmountOf(Accruals("park", k)) = parkBalance[k]
    <2>1. parkBalance[k] = SumFunction([o \in SettledIn(k) |-> settled[o].commission])
      BY DEF Credited, Commissions
    <2>2. "park" \in Ledger /\ \A o : DueOf("park", o) = settled[o].commission
      BY DEF Ledger, DueOf, Due
    <2>3. [o \in SettledIn(k) |-> DueOf("park", o)] = [o \in SettledIn(k) |-> settled[o].commission]
      BY <2>2
    <2>. QED  BY <2>1, <2>2, <2>3, AccrualsAddUp
  <1>3. ASSUME NEW k \in Park, NEW n \in {"fee", "platform"}
        PROVE  AmountOf(Accruals(n, k)) = SumFunction([o \in SettledIn(k) |-> settled[o].fee])
    <2>1. n \in Ledger /\ \A o : DueOf(n, o) = settled[o].fee
      BY DEF Ledger, DueOf, Due
    <2>2. [o \in SettledIn(k) |-> DueOf(n, o)] = [o \in SettledIn(k) |-> settled[o].fee]
      BY <2>1
    <2>. QED  BY <2>1, <2>2, AccrualsAddUp
  <1>. QED  BY <1>1, <1>2, <1>3 DEF BooksBalance

(* However often orders are completed and settled, and whatever fails in     *)
(* between, the balances and the ledgers hold each settlement once           *)
(* (CreateOrderSettlement).                                                  *)
THEOREM BooksAlwaysBalance == Spec => []BooksBalance
  <1>1. Init => Known /\ Booked /\ Credited
    BY KnownInit, BookedInit, CreditedInit
  <1>2. Known /\ Booked /\ Credited /\ [Next]_vars => Known' /\ Booked' /\ Credited'
    BY KnownStep, BookedStep, CreditedStep
  <1>3. Known /\ Booked /\ Credited => BooksBalance
    BY BooksBalanceInv
  <1>. QED  BY <1>1, <1>2, <1>3, PTL DEF Spec

-----------------------------------------------------------------------------
(* The statements of drivers.                                              *)

Stated ==
  /\ \A i \in DOMAIN driverLedger, d \in Driver, k \in Park \union {NoPark} :
       driverLedger[i].driver = d /\ driverLedger[i].park = k => driverLedger[i].after = Statement(d, k, i)
  /\ \A d \in Driver, k \in Park \union {NoPark}, n \in Nat :
       n = Len(driverLedger) => balance[d][k] = Statement(d, k, n)

LEMMA LinesAreFinite ==
  ASSUME Tables, NEW d, NEW k, NEW kind, NEW i \in 0..Len(driverLedger)
  PROVE  /\ Lines(d, k, kind, i) \subseteq 1..i /\ IsFiniteSet(Lines(d, k, kind, i))
         /\ [j \in Lines(d, k, kind, i) |-> driverLedger[j].amount] \in [Lines(d, k, kind, i) -> Nat]
         /\ Total(Lines(d, k, kind, i)) \in Nat
  <1>. DEFINE L == Lines(d, k, kind, i)
              f == [j \in L |-> driverLedger[j].amount]
  <1>1. L \subseteq 1..i
    BY DEF Lines
  <1>2. driverLedger \in Seq(Line) /\ Len(driverLedger) \in Nat
    BY DEF Tables
  <1>3. IsFiniteSet(1..i)
    BY FS_Interval
  <1>4. IsFiniteSet(L)
    BY <1>1, <1>3, FS_Subset
  <1>5. \A j \in L : driverLedger[j] \in Line
    BY <1>1, <1>2
  <1>6. f \in [L -> Nat]
    BY <1>5 DEF Line
  <1>7. Total(L) = SumFunction(f)
    BY DEF Total
  <1>. HIDE DEF L
  <1>8. SumFunction(f) \in Nat
    <2>. HIDE DEF f
    <2>. QED  BY <1>4, <1>6, SumNat
  <1>. QED  BY <1>1, <1>4, <1>6, <1>7, <1>8 DEF L

\* A line is written at the end.
Wrote(row) == driverLedger' = Append(driverLedger, row)

\* A line that is written leaves those before it.
LEMMA LinesBefore ==
  ASSUME Tables, NEW row \in Line, Wrote(row), NEW d, NEW k, NEW i \in 0..Len(driverLedger)
  PROVE  Statement(d, k, i)' = Statement(d, k, i)
  <1>1. driverLedger \in Seq(Line) /\ Len(driverLedger) \in Nat
    BY DEF Tables
  <1>2. \A j \in 1..i : driverLedger'[j] = driverLedger[j]
    BY <1>1 DEF Wrote
  <1>3. \A kind : Lines(d, k, kind, i)' = Lines(d, k, kind, i)
    BY <1>2 DEF Lines
  <1>4. \A kind : Total(Lines(d, k, kind, i))' = Total(Lines(d, k, kind, i))
    <2>. SUFFICES ASSUME NEW kind  PROVE Total(Lines(d, k, kind, i))' = Total(Lines(d, k, kind, i))
      OBVIOUS
    <2>1. Lines(d, k, kind, i) \subseteq 1..i
      BY LinesAreFinite
    <2>2. [j \in Lines(d, k, kind, i) |-> driverLedger'[j].amount] = [j \in Lines(d, k, kind, i) |-> driverLedger[j].amount]
      BY <1>2, <2>1
    <2>. QED  BY <1>3, <2>2 DEF Total
  <1>. QED  BY <1>4 DEF Statement

\* The line that is written is in the statement of its driver and park, and no other.
LEMMA LineWritten ==
  ASSUME Tables, NEW row \in Line, Wrote(row), NEW d, NEW k, NEW kind,
         NEW n, n = Len(driverLedger)
  PROVE  Total(Lines(d, k, kind, n + 1))' = Total(Lines(d, k, kind, n))
           + (IF row.driver = d /\ row.park = k /\ row.kind = kind THEN row.amount ELSE 0)
  <1>1. driverLedger \in Seq(Line) /\ n \in Nat /\ n \in 0..Len(driverLedger) /\ n + 1 \notin 1..n
    BY DEF Tables
  <1>2. /\ driverLedger'[n + 1] = row /\ \A j \in 1..n : driverLedger'[j] = driverLedger[j]
    BY <1>1 DEF Wrote
  <1>3. 1..(n + 1) = (1..n) \union {n + 1}
    BY <1>1
  <1>4. row.amount \in Nat
    BY DEF Line
  <1>. DEFINE A == Lines(d, k, kind, n)
              B == Lines(d, k, kind, n + 1)'
              f == [j \in A |-> driverLedger[j].amount]
              g == [j \in B |-> driverLedger'[j].amount]
  <1>5. IsFiniteSet(A) /\ f \in [A -> Nat] /\ A \subseteq 1..n
    BY <1>1, LinesAreFinite
  <1>6. B = {j \in 1..(n + 1) : driverLedger'[j].driver = d /\ driverLedger'[j].park = k /\ driverLedger'[j].kind = kind}
    BY DEF Lines
  <1>7. B = IF row.driver = d /\ row.park = k /\ row.kind = kind THEN A \union {n + 1} ELSE A
    BY <1>2, <1>3, <1>6 DEF Lines
  <1>8. Total(Lines(d, k, kind, n + 1))' = SumFunction(g) /\ Total(Lines(d, k, kind, n)) = SumFunction(f)
    BY DEF Total
  <1>9. SumFunction(f) \in Nat
    <2>. HIDE DEF f
    <2>. QED  BY <1>5, SumNat
  <1>10. \A j \in A : j \in B => g[j] = f[j]
    BY <1>2, <1>5
  <1>11. CASE row.driver = d /\ row.park = k /\ row.kind = kind
    <2>1. B = A \union {n + 1}
      BY <1>7, <1>11
    <2>2. n + 1 \notin A
      BY <1>1, <1>5
    <2>3. g[n + 1] = row.amount
      BY <1>2, <2>1
    <2>4. \A j \in A : g[j] = f[j]
      BY <1>10, <2>1
    <2>5. g = [j \in B |-> g[j]]
      OBVIOUS
    <2>6. PICK last : last = n + 1
      OBVIOUS
    <2>. HIDE DEF A, B, f, g
    <2>7. IsFiniteSet(A) /\ f \in [A -> Nat]
      BY <1>5
    <2>8. B = A \union {last} /\ last \notin A
      BY <2>1, <2>2, <2>6
    <2>9. g[last] \in Nat
      BY <1>4, <2>3, <2>6
    <2>10. f \in [A -> Int] /\ g \in [A \union {last} -> Int]
      <3>1. f \in [A -> Int] /\ \A z \in A : f[z] \in Int
        BY <2>7
      <3>2. \A z \in A \union {last} : g[z] \in Int
        BY <3>1, <2>9, <2>4
      <3>3. g = [z \in A \union {last} |-> g[z]]
        BY <2>8, <2>5, Zenon
      <3>. QED  BY <3>1, <3>2, <3>3
    <2>11. OneMore(A, f, g, last)
      BY <2>4, <2>7, <2>8, <2>10 DEF OneMore
    <2>12. SumFunction(g) = SumFunction(f) + g[last]
      BY <2>11, SumMore
    <2>. QED  BY <1>8, <1>11, <2>3, <2>6, <2>12
  <1>12. CASE ~(row.driver = d /\ row.park = k /\ row.kind = kind)
    <2>1. B = A
      BY <1>7, <1>12
    <2>2. \A j \in A : g[j] = f[j]
      BY <1>10, <2>1
    <2>3. g = f
      BY <2>1, <2>2
    <2>. HIDE DEF A, B, f, g
    <2>. QED  BY <1>8, <1>9, <1>12, <2>3
  <1>. QED  BY <1>11, <1>12

\* A line that leaves its balance behind keeps every statement right.
LEMMA WritingStated ==
  ASSUME Known, Stated, NEW row \in Line, Wrote(row),
         row.kind \in {"order_income", "payout"}, NEW by,
         by = (IF row.kind = "payout" THEN 0 - row.amount ELSE row.amount),
         row.after = balance[row.driver][row.park] + by,
         \A d \in Driver, k \in Park \union {NoPark} :
           balance'[d][k] = balance[d][k] + (IF d = row.driver /\ k = row.park THEN by ELSE 0)
  PROVE  Stated'
  <1>0. Tables
    BY DEF Known
  <1>n. PICK n : n = Len(driverLedger)
    OBVIOUS
  <1>1. driverLedger \in Seq(Line) /\ n \in Nat /\ n \in 0..n /\ DOMAIN driverLedger = 1..n /\ n = Len(driverLedger)
    BY <1>0, <1>n DEF Tables
  <1>2. Len(driverLedger') = n + 1 /\ driverLedger'[n + 1] = row /\ \A i \in 1..n : driverLedger'[i] = driverLedger[i]
    BY <1>1 DEF Wrote
  <1>3. row.driver \in Driver /\ row.park \in Park \union {NoPark} /\ row.amount \in Nat
    BY DEF Line
  <1>4. ASSUME NEW d \in Driver, NEW k \in Park \union {NoPark}
        PROVE  /\ Statement(d, k, n + 1)' = balance[d][k] + (IF d = row.driver /\ k = row.park THEN by ELSE 0)
               /\ balance'[d][k] = Statement(d, k, n + 1)'
    <2>. DEFINE income == Total(Lines(d, k, "order_income", n))
                payout == Total(Lines(d, k, "payout", n))
    <2>1. income \in Nat /\ payout \in Nat
      BY <1>0, <1>1, LinesAreFinite
    <2>2. balance[d][k] = income - payout
      BY <1>1, <1>n DEF Stated, Statement
    <2>3. Total(Lines(d, k, "order_income", n + 1))' = income
           + (IF row.driver = d /\ row.park = k /\ row.kind = "order_income" THEN row.amount ELSE 0)
      BY <1>0, <1>n, LineWritten
    <2>4. Total(Lines(d, k, "payout", n + 1))' = payout
           + (IF row.driver = d /\ row.park = k /\ row.kind = "payout" THEN row.amount ELSE 0)
      BY <1>0, <1>n, LineWritten
    <2>5. Statement(d, k, n + 1)' = Total(Lines(d, k, "order_income", n + 1))' - Total(Lines(d, k, "payout", n + 1))'
      BY DEF Statement
    <2>. HIDE DEF income, payout
    <2>6. balance'[d][k] = balance[d][k] + (IF d = row.driver /\ k = row.park THEN by ELSE 0)
      OBVIOUS
    <2>7. Statement(d, k, n + 1)' = balance[d][k] + (IF d = row.driver /\ k = row.park THEN by ELSE 0)
      <3>1. CASE row.kind = "payout"
        BY <1>3, <2>1, <2>2, <2>3, <2>4, <2>5, <3>1
      <3>2. CASE row.kind = "order_income"
        BY <1>3, <2>1, <2>2, <2>3, <2>4, <2>5, <3>2
      <3>. QED  BY <3>1, <3>2
    <2>. QED  BY <2>6, <2>7
  <1>5. ASSUME NEW i \in 1..(n + 1), NEW d \in Driver, NEW k \in Park \union {NoPark}, d = driverLedger'[i].driver, k = driverLedger'[i].park
        PROVE  driverLedger'[i].after = Statement(d, k, i)'
    <2>1. CASE i \in 1..n
      <3>1. driverLedger'[i] = driverLedger[i] /\ i \in DOMAIN driverLedger /\ i \in 0..Len(driverLedger)
        BY <1>1, <1>2, <2>1
      <3>2. driverLedger[i].after = Statement(d, k, i)
        BY <1>5, <3>1 DEF Stated
      <3>3. Statement(d, k, i)' = Statement(d, k, i)
        BY <1>0, <3>1, LinesBefore
      <3>. QED  BY <3>1, <3>2, <3>3
    <2>2. CASE i = n + 1
      <3>1. d = row.driver /\ k = row.park /\ driverLedger'[i].after = balance[d][k] + by
        BY <1>2, <1>5, <2>2
      <3>2. Statement(d, k, n + 1)' = balance[d][k] + by
        BY <1>3, <1>4, <3>1
      <3>. QED  BY <2>2, <3>1, <3>2
    <2>. QED  BY <1>1, <2>1, <2>2
  <1>6. DOMAIN driverLedger' = 1..(n + 1)
    BY <1>1, <1>2
  <1>7. ASSUME NEW d \in Driver, NEW k \in Park \union {NoPark}, NEW m \in Nat, m = Len(driverLedger')
        PROVE  balance'[d][k] = Statement(d, k, m)'
    <2>1. m = n + 1
      BY <1>2, <1>7
    <2>. QED  BY <1>4, <2>1
  <1>8. \A i \in DOMAIN driverLedger', d \in Driver, k \in Park \union {NoPark} :
          driverLedger'[i].driver = d /\ driverLedger'[i].park = k => driverLedger'[i].after = Statement(d, k, i)'
    BY <1>5, <1>6
  <1>9. \A d \in Driver, k \in Park \union {NoPark}, m \in Nat :
          m = Len(driverLedger') => balance'[d][k] = Statement(d, k, m)'
    BY <1>7
  <1>. QED  BY <1>8, <1>9 DEF Stated

LEMMA StatedInit == Init => Stated
  <1>. SUFFICES ASSUME Init  PROVE Stated
    OBVIOUS
  <1>1. driverLedger = <<>> /\ DOMAIN driverLedger = {} /\ Len(driverLedger) = 0
    BY DEF Init
  <1>2. ASSUME NEW d \in Driver, NEW k \in Park \union {NoPark}  PROVE balance[d][k] = Statement(d, k, 0)
    <2>1. \A kind : Lines(d, k, kind, 0) = {}
      BY DEF Lines
    <2>2. \A kind : Total(Lines(d, k, kind, 0)) = 0
      BY <2>1, SumEmpty DEF Total
    <2>. QED  BY <2>2 DEF Statement, Init
  <1>. QED  BY <1>1, <1>2 DEF Stated

LEMMA StatedStep ==
  ASSUME Known, Stated, [Next]_vars
  PROVE  Stated'
  <1>1. ASSUME driverLedger' = driverLedger, balance' = balance  PROVE Stated'
    BY <1>1 DEF Stated, Statement, Total, Lines
  <1>2. ASSUME Quiet  PROVE Stated'
    BY <1>1, <1>2 DEF Quiet
  <1>3. ASSUME NEW p \in Proc, CreateTaxiParkPlatformInvoice(p) \/ MarkAdminPlatformInvoicePaid(p)  PROVE Stated'
    BY <1>1, <1>3 DEF CreateTaxiParkPlatformInvoice, MarkAdminPlatformInvoicePaid
  <1>4. ASSUME NEW y \in Payout, NEW d \in Driver, NEW k \in Park, NEW amount \in Amounts, CreateDriverPayout(y, d, k, amount)  PROVE Stated'
    BY <1>1, <1>4 DEF CreateDriverPayout
  <1>5. ASSUME NEW y \in Payout, ApproveDriverPayout(y)  PROVE Stated'
    BY <1>1, <1>5 DEF ApproveDriverPayout
  <1>6. ASSUME NEW p \in Proc, CommitSettlement(p)  PROVE Stated'
    <2>. DEFINE o == job[p].order
                terms == job[p].terms
                d == DriverOf[o]
                k == ParkOf[o]
                row == DriverLedgerRow(d, k, "order_income", terms.net, DriverBalanceAfter(d, k, terms.net))
    <2>1. o \in Order /\ terms \in Settlement /\ k \in Park \union {NoPark} /\ d \in Driver
      BY <1>6, CommitFacts
    <2>2. /\ balance' = [balance EXCEPT ![d][k] = @ + terms.net]
          /\ Wrote(row)
      BY <1>6 DEF CommitSettlement, Wrote
    <2>3. Tables /\ balance[d][k] \in Nat /\ terms.net \in Nat /\ balance[d][k] + terms.net \in Nat
      <3>1. Tables
        BY DEF Known
      <3>2. balance[d][k] \in Nat
        BY <2>1, <3>1 DEF Tables
      <3>3. terms.net \in Nat
        BY <2>1 DEF Settlement
      <3>. QED  BY <3>1, <3>2, <3>3
    <2>4. balance' = [balance EXCEPT ![d][k] = balance[d][k] + terms.net]
      BY <2>2
    <2>5. /\ row.driver = d /\ row.park = k /\ row.kind = "order_income" /\ row.amount = terms.net
          /\ row.after = balance[d][k] + terms.net
      BY DEF DriverLedgerRow, DriverBalanceAfter
    <2>6. row \in Line
      BY <2>1, <2>3 DEF DriverLedgerRow, DriverBalanceAfter, Line
    <2>. HIDE DEF d, k, terms, row
    <2>7. \A dd \in Driver, kk \in Park \union {NoPark} : balance[dd][kk] \in Nat
      BY <2>3 DEF Tables
    <2>8. /\ balance'[d][k] = balance[d][k] + terms.net
          /\ \A dd \in Driver, kk \in Park \union {NoPark} : dd # d \/ kk # k => balance'[dd][kk] = balance[dd][kk]
      <3>1. Tables /\ d \in Driver /\ k \in Park \union {NoPark}
        BY <2>1, <2>3
      <3>2. PICK w \in Nat : w = balance[d][k] + terms.net
        BY <2>3
      <3>3. balance' = [balance EXCEPT ![d][k] = w]
        BY <2>4, <3>2
      <3>4. /\ balance'[d][k] = w
            /\ \A dd \in Driver, kk \in Park \union {NoPark} : dd # d \/ kk # k => balance'[dd][kk] = balance[dd][kk]
        <4>1. BalanceSet(d, k, w)
          BY <3>1, <3>3 DEF BalanceSet
        <4>. QED  BY <3>1, <4>1, BalanceChanges
      <3>. QED  BY <3>2, <3>4
    <2>9. \A dd \in Driver, kk \in Park \union {NoPark} :
            balance'[dd][kk] = balance[dd][kk] + (IF dd = row.driver /\ kk = row.park THEN terms.net ELSE 0)
      BY <2>3, <2>5, <2>7, <2>8
    <2>10. row.after = balance[row.driver][row.park] + terms.net
      BY <2>5
    <2>11. terms.net = (IF row.kind = "payout" THEN 0 - row.amount ELSE row.amount)
      BY <2>5
    <2>. QED  BY <2>2, <2>5, <2>6, <2>9, <2>10, <2>11, WritingStated
  <1>7. ASSUME NEW y \in Payout, MarkDriverPayoutPaid(y)  PROVE Stated'
    <2>. DEFINE d == payouts[y].driver
                k == payouts[y].park
                amount == payouts[y].amount
                row == DriverLedgerRow(d, k, "payout", amount, DriverBalanceAfter(d, k, -amount))
    <2>1. d \in Driver /\ k \in Park /\ amount \in Nat
      <3>1. payouts[y] \in PayoutRow
        BY <1>7 DEF MarkDriverPayoutPaid, Payable, Known, Tables
      <3>. QED  BY <3>1 DEF PayoutRow
    <2>2. /\ balance' = [balance EXCEPT ![d][k] = @ - amount] /\ balance[d][k] >= amount
          /\ Wrote(row)
      BY <1>7 DEF MarkDriverPayoutPaid, Covered, Wrote
    <2>3. Tables /\ balance[d][k] \in Nat /\ balance[d][k] - amount \in Nat /\ k \in Park \union {NoPark}
      <3>1. Tables /\ k \in Park \union {NoPark}
        BY <2>1 DEF Known
      <3>2. balance[d][k] \in Nat
        BY <2>1, <3>1 DEF Tables
      <3>. QED  BY <2>1, <2>2, <3>1, <3>2
    <2>4. balance' = [balance EXCEPT ![d][k] = balance[d][k] - amount]
      BY <2>2
    <2>5. /\ row.driver = d /\ row.park = k /\ row.kind = "payout" /\ row.amount = amount
          /\ row.after = balance[d][k] + (-amount)
      BY DEF DriverLedgerRow, DriverBalanceAfter
    <2>6. row \in Line
      BY <2>1, <2>3 DEF DriverLedgerRow, DriverBalanceAfter, Line
    <2>. HIDE DEF d, k, amount, row
    <2>7. \A dd \in Driver, kk \in Park \union {NoPark} : balance[dd][kk] \in Nat
      BY <2>3 DEF Tables
    <2>8. /\ balance'[d][k] = balance[d][k] - amount
          /\ \A dd \in Driver, kk \in Park \union {NoPark} : dd # d \/ kk # k => balance'[dd][kk] = balance[dd][kk]
      <3>1. Tables /\ d \in Driver /\ k \in Park \union {NoPark}
        BY <2>1, <2>3
      <3>2. PICK w \in Nat : w = balance[d][k] - amount
        BY <2>3
      <3>3. balance' = [balance EXCEPT ![d][k] = w]
        BY <2>4, <3>2
      <3>4. /\ balance'[d][k] = w
            /\ \A dd \in Driver, kk \in Park \union {NoPark} : dd # d \/ kk # k => balance'[dd][kk] = balance[dd][kk]
        <4>1. BalanceSet(d, k, w)
          BY <3>1, <3>3 DEF BalanceSet
        <4>. QED  BY <3>1, <4>1, BalanceChanges
      <3>. QED  BY <3>2, <3>4
    <2>12. PICK by : by = 0 - amount
      OBVIOUS
    <2>9. \A dd \in Driver, kk \in Park \union {NoPark} :
            balance'[dd][kk] = balance[dd][kk] + (IF dd = row.driver /\ kk = row.park THEN by ELSE 0)
      BY <2>1, <2>3, <2>5, <2>7, <2>8, <2>12
    <2>10. row.after = balance[row.driver][row.park] + by
      BY <2>1, <2>3, <2>5, <2>12
    <2>11. by = (IF row.kind = "payout" THEN 0 - row.amount ELSE row.amount)
      BY <2>5, <2>12
    <2>. QED  BY <2>2, <2>5, <2>6, <2>9, <2>10, <2>11, WritingStated
  <1>. QED  BY <1>2, <1>3, <1>4, <1>5, <1>6, <1>7, Steps

LEMMA StatedRuns ==
  ASSUME Tables, Stated
  PROVE  DriverLedgerRuns
  <1>1. \A i \in DOMAIN driverLedger : driverLedger[i] \in Line
    BY DEF Tables
  <1>. QED  BY <1>1 DEF DriverLedgerRuns, Stated, Line

(* The lines of a driver's statement add up in the order they were written,  *)
(* with settlements and payouts in parallel (driverParkBalanceInTransaction). *)
THEOREM StatementsAddUp == Spec => []DriverLedgerRuns
  <1>1. Init => Known /\ Stated
    BY KnownInit, StatedInit
  <1>2. Known /\ Stated /\ [Next]_vars => Known' /\ Stated'
    BY KnownStep, StatedStep
  <1>3. Known /\ Stated => DriverLedgerRuns
    BY StatedRuns DEF Known
  <1>. QED  BY <1>1, <1>2, <1>3, PTL DEF Spec

-----------------------------------------------------------------------------
(* Invoices.                                                               *)

\* A claimed row of the fee ledger stays as it is.
LEMMA ClaimedStay ==
  ASSUME Known, [Next]_vars, NEW e \in ledger["fee"], e.invoice # None
  PROVE  e \in ledger'["fee"]
  <1>0. "fee" \in Ledger /\ ledger \in [Ledger -> SUBSET Entry]
    BY DEF Known, Tables, Ledger
  <1>1. ASSUME Quiet  PROVE e \in ledger'["fee"]
    BY <1>1 DEF Quiet
  <1>2. ASSUME NEW p \in Proc, CommitSettlement(p)  PROVE e \in ledger'["fee"]
    <2>. DEFINE k == ParkOf[job[p].order]
                posting == Posting(p, job[p].order, "accrual", k, Due(job[p].terms), None)
    <2>1. ledger' = (IF k \in Park THEN [n \in Ledger |-> ledger[n] \union {posting[n]}] ELSE ledger)
      BY <1>2 DEF CommitSettlement
    <2>. HIDE DEF k, posting
    <2>2. ledger'["fee"] = ledger["fee"] \/ ledger'["fee"] = ledger["fee"] \union {posting["fee"]}
      BY <1>0, <2>1
    <2>. QED  BY <2>2
  <1>3. ASSUME NEW p \in Proc, MarkAdminPlatformInvoicePaid(p)  PROVE e \in ledger'["fee"]
    BY <1>3, PaymentRows
  <1>4. ASSUME NEW p \in Proc, CreateTaxiParkPlatformInvoice(p)  PROVE e \in ledger'["fee"]
    <2>. DEFINE k == job[p].period[1]
                period == job[p].period[2]
                claimed == Unbilled(k, period)
                relabelled == {[c EXCEPT !.invoice = job[p].invoice] : c \in claimed}
    <2>1. ledger' = [ledger EXCEPT !["fee"] = (@ \ claimed) \union relabelled]
      BY <1>4 DEF CreateTaxiParkPlatformInvoice
    <2>2. e \notin claimed
      BY DEF Unbilled
    <2>. HIDE DEF claimed, relabelled
    <2>3. ledger'["fee"] = (ledger["fee"] \ claimed) \union relabelled
      BY <1>0, <2>1
    <2>. QED  BY <2>2, <2>3
  <1>5. ASSUME NEW y \in Payout, NEW d \in Driver, NEW k \in Park, NEW amount \in Amounts, CreateDriverPayout(y, d, k, amount)
        PROVE  e \in ledger'["fee"]
    BY <1>5 DEF CreateDriverPayout
  <1>6. ASSUME NEW y \in Payout, ApproveDriverPayout(y) \/ MarkDriverPayoutPaid(y)  PROVE e \in ledger'["fee"]
    BY <1>6 DEF ApproveDriverPayout, MarkDriverPayoutPaid
  <1>. QED  BY <1>1, <1>2, <1>3, <1>4, <1>5, <1>6, Steps

(* An accrual that one invoice has claimed is never claimed by another, with  *)
(* invoices of any periods issued at once (CreateTaxiParkPlatformInvoice).    *)
THEOREM NeverBilledTwice == Spec => BilledOnce
  <1>1. Known /\ [Next]_vars => [\A e \in ledger["fee"] : e.invoice # None => e \in ledger'["fee"]]_vars
    BY ClaimedStay
  <1>. QED  BY <1>1, KnownInit, KnownStep, PTL DEF Spec, BilledOnce

\* The amounts of entries are at most those of others, source by source.
LEMMA AmountsBySource ==
  ASSUME NEW A, IsFiniteSet(A), A \subseteq Entry, NEW B, IsFiniteSet(B), B \subseteq Entry,
         \A e, f \in A : e.source = f.source => e = f,
         \A e \in A : \E f \in B : f.source = e.source /\ f.amount = e.amount
  PROVE  AmountOf(A) <= AmountOf(B)
  <1>. DEFINE f == [e \in A |-> e.amount]
              g == [e \in B |-> e.amount]
              h == [e \in A |-> CHOOSE b \in B : b.source = e.source /\ b.amount = e.amount]
  <1>1. \A e \in A : h[e] \in B /\ h[e].source = e.source /\ h[e].amount = e.amount
    <2>. SUFFICES ASSUME NEW e \in A  PROVE h[e] \in B /\ h[e].source = e.source /\ h[e].amount = e.amount
      OBVIOUS
    <2>1. \E b \in B : b.source = e.source /\ b.amount = e.amount
      OBVIOUS
    <2>. QED  BY <2>1
  <1>2. f \in [A -> Nat] /\ g \in [B -> Nat]
    BY AmountNat
  <1>3. h \in [A -> B]
    BY <1>1
  <1>4. \A x, y \in A : h[x] = h[y] => x = y
    BY <1>1
  <1>5. \A x \in A : f[x] <= g[h[x]]
    <2>1. \A x \in A : f[x] = g[h[x]] /\ f[x] \in Nat
      BY <1>1, <1>2
    <2>. QED  BY <2>1
  <1>. HIDE DEF f, g, h
  <1>6. SumFunction(f) <= SumFunction(g)
    BY <1>2, <1>3, <1>4, <1>5, SumInjection
  <1>. QED  BY <1>6 DEF AmountOf, f, g

\* The accruals of a period, claimed or not.
Accrued(k, period) == {e \in Accruals("fee", k) : Within(e.at, period)}

\* Those an invoice has claimed.
ClaimedBy(i) == {e \in Accruals("fee", invoices[i].park) : e.invoice = i}

\* Every accrual keeps a row, and a claimed one its invoice.
Kept ==
  \A e \in Booking("fee") : \E f \in Booking("fee")' :
    /\ f.source = e.source /\ f.park = e.park /\ f.amount = e.amount /\ f.at = e.at
    /\ e.invoice # None => f = e

LEMMA AccrualsKept ==
  ASSUME Known, [Next]_vars
  PROVE  Kept
  <1>1. ASSUME ledger["fee"] \subseteq ledger'["fee"]  PROVE Kept
    BY <1>1 DEF Kept, Booking
  <1>2. ASSUME Quiet  PROVE Kept
    BY <1>1, <1>2 DEF Quiet
  <1>3. ASSUME NEW p \in Proc, CommitSettlement(p)  PROVE Kept
    <2>. DEFINE k == ParkOf[job[p].order]
                posting == Posting(p, job[p].order, "accrual", k, Due(job[p].terms), None)
    <2>1. ledger' = (IF k \in Park THEN [n \in Ledger |-> ledger[n] \union {posting[n]}] ELSE ledger)
      BY <1>3 DEF CommitSettlement
    <2>. HIDE DEF k, posting
    <2>2. ledger'["fee"] = ledger["fee"] \/ ledger'["fee"] = ledger["fee"] \union {posting["fee"]}
      BY <2>1 DEF Ledger
    <2>. QED  BY <1>1, <2>2
  <1>4. ASSUME NEW p \in Proc, MarkAdminPlatformInvoicePaid(p)  PROVE Kept
    BY <1>1, <1>4, PaymentRows
  <1>5. ASSUME NEW p \in Proc, CreateTaxiParkPlatformInvoice(p)  PROVE Kept
    <2>. DEFINE i == job[p].invoice
                k == job[p].period[1]
                period == job[p].period[2]
                claimed == Unbilled(k, period)
    <2>1. /\ \A e \in Booking("fee") \ claimed : e \in Booking("fee")'
          /\ \A e \in claimed : [e EXCEPT !.invoice = i] \in Booking("fee")'
          /\ \A e \in claimed :
              /\ [e EXCEPT !.invoice = i].source = e.source /\ [e EXCEPT !.invoice = i].park = e.park
              /\ [e EXCEPT !.invoice = i].amount = e.amount /\ [e EXCEPT !.invoice = i].at = e.at
      <3>1. i = job[p].invoice /\ k = job[p].period[1] /\ period = job[p].period[2]
        OBVIOUS
      <3>. HIDE DEF i, k, period
      <3>. QED  BY <1>5, <3>1, IssueRows
    <2>2. \A e \in claimed : e.invoice = None
      BY DEF Unbilled
    <2>. HIDE DEF claimed, i
    <2>. SUFFICES ASSUME NEW e \in Booking("fee")
                  PROVE  \E f \in Booking("fee")' :
                           /\ f.source = e.source /\ f.park = e.park /\ f.amount = e.amount /\ f.at = e.at
                           /\ e.invoice # None => f = e
      BY DEF Kept
    <2>3. CASE e \in claimed
      BY <2>1, <2>2, <2>3
    <2>4. CASE e \notin claimed
      BY <2>1, <2>4
    <2>. QED  BY <2>3, <2>4
  <1>6. ASSUME NEW y \in Payout, NEW d \in Driver, NEW k \in Park, NEW amount \in Amounts, CreateDriverPayout(y, d, k, amount)
        PROVE  Kept
    BY <1>1, <1>6 DEF CreateDriverPayout
  <1>7. ASSUME NEW y \in Payout, ApproveDriverPayout(y) \/ MarkDriverPayoutPaid(y)  PROVE Kept
    BY <1>1, <1>7 DEF ApproveDriverPayout, MarkDriverPayoutPaid
  <1>. QED  BY <1>2, <1>3, <1>4, <1>5, <1>6, <1>7, Steps

\* A request that bills was billing, or has just summed what it bills.
LEMMA StillBilling ==
  ASSUME Known, [Next]_vars, NEW q \in Proc, job'[q].pc = "billing"
  PROVE  \/ job'[q] = job[q]
         \/ \E i \in Invoice, k \in Park, period \in Periods : SumAccruals(q, i, k, period)
  <1>1. ASSUME NEW p \in Proc, NEW j, j.pc # "billing", job' = [job EXCEPT ![p] = j]  PROVE job'[q] = job[q]
    <2>1. DOMAIN job = Proc
      BY DEF Known, SettleInv
    <2>2. CASE q = p
      <3>1. job'[q] = j
        BY <1>1, <2>1, <2>2
      <3>. QED  BY <1>1, <3>1
    <2>3. CASE q # p
      BY <1>1, <2>1, <2>3
    <2>. QED  BY <2>2, <2>3
  <1>2. ASSUME job' = job  PROVE job'[q] = job[q]
    BY <1>2
  <1>3. Idle.pc = "idle"
    BY DEF Idle
  <1>4. \A p \in Proc : IsJob(job[p])
    BY DEF Known, SettleInv, Fit
  <1>5. ASSUME NEW p \in Proc, NEW o, CompleteOrder(p, o)  PROVE job'[q] = job[q]
    <2>1. job' = [job EXCEPT ![p] = [Idle EXCEPT !.pc = "completed", !.order = o]]
      BY <1>5 DEF CompleteOrder, Goto
    <2>2. [Idle EXCEPT !.pc = "completed", !.order = o].pc # "billing"
      BY DEF Idle
    <2>. QED  BY <1>1, <2>1, <2>2
  <1>6. ASSUME NEW p \in Proc, TakeSnapshot(p)  PROVE job'[q] = job[q]
    <2>. DEFINE terms == Terms(PriceOf[job[p].order], CommissionRate(job[p].order), FeeRate)
    <2>1. job' = [job EXCEPT ![p] = [job[p] EXCEPT !.pc = "priced", !.terms = terms]]
      BY <1>6 DEF TakeSnapshot, Goto
    <2>. HIDE DEF terms
    <2>2. [job[p] EXCEPT !.pc = "priced", !.terms = terms].pc # "billing"
      BY <1>4 DEF IsJob
    <2>. QED  BY <1>1, <2>1, <2>2
  <1>7. ASSUME NEW p \in Proc, NEW terms, Answered(p, terms)  PROVE job'[q] = job[q]
    <2>1. job' = [job EXCEPT ![p] = [Idle EXCEPT !.pc = "answered", !.order = job[p].order, !.terms = terms]]
      BY <1>7 DEF Answered, Goto
    <2>2. [Idle EXCEPT !.pc = "answered", !.order = job[p].order, !.terms = terms].pc # "billing"
      BY DEF Idle
    <2>. QED  BY <1>1, <2>1, <2>2
  <1>8. ASSUME NEW p \in Proc, BeginSettlement(p)  PROVE job'[q] = job[q]
    <2>1. CASE settled[job[p].order] # None
      BY <1>7, <1>8, <2>1 DEF BeginSettlement, AnswerCommitted
    <2>2. CASE settled[job[p].order] = None
      <3>1. job' = [job EXCEPT ![p] = [job[p] EXCEPT !.pc = "settling", !.at = clock]]
        BY <1>8, <2>2 DEF BeginSettlement, Goto
      <3>2. [job[p] EXCEPT !.pc = "settling", !.at = clock].pc # "billing"
        BY <1>4 DEF IsJob
      <3>. QED  BY <1>1, <3>1, <3>2
    <2>. QED  BY <2>1, <2>2
  <1>9. ASSUME NEW p \in Proc, PostSettlement(p)  PROVE job'[q] = job[q]
    <2>. DEFINE after == AfterSettling(ParkOf[job[p].order], job[p].terms)
    <2>1. CASE Conflicts(job[p].order)
      BY <1>7, <1>9, <2>1 DEF PostSettlement, AnswerCommitted
    <2>2. CASE ~Conflicts(job[p].order)
      <3>1. job' = [job EXCEPT ![p] = [job[p] EXCEPT !.pc = "settled", !.after = after]]
        BY <1>9, <2>2 DEF PostSettlement, Goto
      <3>. HIDE DEF after
      <3>2. [job[p] EXCEPT !.pc = "settled", !.after = after].pc # "billing"
        BY <1>4 DEF IsJob
      <3>. QED  BY <1>1, <3>1, <3>2
    <2>. QED  BY <2>1, <2>2
  <1>10. ASSUME NEW p \in Proc, CommitSettlement(p)  PROVE job'[q] = job[q]
    BY <1>7, <1>10 DEF CommitSettlement
  <1>11. ASSUME NEW p \in Proc, Answer(p) \/ Fail(p) \/ CreateTaxiParkPlatformInvoice(p) \/ MarkAdminPlatformInvoicePaid(p)
         PROVE  job'[q] = job[q]
    <2>1. job' = [job EXCEPT ![p] = Idle]
      BY <1>11 DEF Answer, Fail, CreateTaxiParkPlatformInvoice, MarkAdminPlatformInvoicePaid, Goto
    <2>. QED  BY <1>1, <1>3, <2>1
  <1>12. ASSUME NEW p \in Proc, NEW i, BeginInvoicePayment(p, i)  PROVE job'[q] = job[q]
    <2>1. job' = [job EXCEPT ![p] = [Idle EXCEPT !.pc = "paying", !.invoice = i, !.at = clock]]
      BY <1>12 DEF BeginInvoicePayment, Goto
    <2>2. [Idle EXCEPT !.pc = "paying", !.invoice = i, !.at = clock].pc # "billing"
      BY DEF Idle
    <2>. QED  BY <1>1, <2>1, <2>2
  <1>13. ASSUME NEW p \in Proc, PostInvoicePayment(p)  PROVE job'[q] = job[q]
    <2>. DEFINE after == AfterPaying(invoices[job[p].invoice])
    <2>1. job' = [job EXCEPT ![p] = [job[p] EXCEPT !.pc = "paid", !.after = after]]
      BY <1>13 DEF PostInvoicePayment, Goto
    <2>. HIDE DEF after
    <2>2. [job[p] EXCEPT !.pc = "paid", !.after = after].pc # "billing"
      BY <1>4 DEF IsJob
    <2>. QED  BY <1>1, <2>1, <2>2
  <1>14. ASSUME NEW p \in Proc, NEW i \in Invoice, NEW k \in Park, NEW period \in Periods, SumAccruals(p, i, k, period), q # p
         PROVE  job'[q] = job[q]
    <2>. DEFINE j == [Idle EXCEPT !.pc = "billing", !.invoice = i, !.period = <<k, period>>,
                                  !.sum = AmountOf(Unbilled(k, period))]
    <2>1. job' = [job EXCEPT ![p] = j] /\ DOMAIN job = Proc
      BY <1>14 DEF SumAccruals, Goto, Known, SettleInv
    <2>. HIDE DEF j
    <2>. QED  BY <1>14, <2>1
  <1>15. ASSUME NEW k \in Park, NEW bps \in Rates, UpdateTaxiParkDriverCommission(k, bps)  PROVE job'[q] = job[q]
    BY <1>15 DEF UpdateTaxiParkDriverCommission
  <1>16. ASSUME PayOut  PROVE job'[q] = job[q]
    BY <1>16 DEF PayOut, CreateDriverPayout, ApproveDriverPayout, MarkDriverPayoutPaid
  <1>17. ASSUME NEW p \in Proc, Settle(p)  PROVE job'[q] = job[q]
    BY <1>5, <1>6, <1>8, <1>9, <1>10, <1>11, <1>17 DEF Settle
  <1>18. ASSUME NEW p \in Proc, Bill(p)
         PROVE  job'[q] = job[q] \/ \E i \in Invoice, k \in Park, period \in Periods : SumAccruals(q, i, k, period)
    BY <1>11, <1>12, <1>13, <1>14, <1>18 DEF Bill
  <1>. QED  BY <1>2, <1>15, <1>16, <1>17, <1>18 DEF Next, vars

\* What a request bills has accrued, claimed meanwhile or not.
Summed ==
  \A p \in Proc, k \in Park, period \in Periods :
    job[p].pc = "billing" /\ job[p].period = <<k, period>> => job[p].sum <= AmountOf(Accrued(k, period))

LEMMA AccruedFacts ==
  ASSUME Known, NEW k, NEW period
  PROVE  /\ IsFiniteSet(Accrued(k, period)) /\ Accrued(k, period) \subseteq Entry
         /\ Accrued(k, period) = {e \in Booking("fee") : e.park = k /\ Within(e.at, period)}
         /\ Unbilled(k, period) = {e \in Accrued(k, period) : e.invoice = None}
         /\ AmountOf(Accrued(k, period)) \in Nat
  <1>1. "fee" \in Ledger /\ ledger["fee"] \subseteq Entry /\ IsFiniteSet(ledger["fee"])
    BY DEF Known, Tables, Ledger
  <1>2. Accrued(k, period) = {e \in Booking("fee") : e.park = k /\ Within(e.at, period)}
    BY DEF Accrued, Accruals, RowsOf, Booking
  <1>3. Unbilled(k, period) = {e \in Accrued(k, period) : e.invoice = None}
    BY DEF Unbilled, Accrued, Accruals, RowsOf
  <1>4. Accrued(k, period) \subseteq ledger["fee"]
    BY <1>2 DEF Booking
  <1>5. IsFiniteSet(Accrued(k, period)) /\ Accrued(k, period) \subseteq Entry
    BY <1>1, <1>4, FS_Subset
  <1>. QED  BY <1>2, <1>3, <1>5, AmountNat

LEMMA AccruedGrows ==
  ASSUME Known, Known', Booked, Kept, NEW k, NEW period
  PROVE  AmountOf(Accrued(k, period)) <= AmountOf(Accrued(k, period))' /\ AmountOf(Accrued(k, period))' \in Nat
  <1>. DEFINE A == Accrued(k, period)
              B == Accrued(k, period)'
  <1>1. IsFiniteSet(A) /\ A \subseteq Entry /\ A = {e \in Booking("fee") : e.park = k /\ Within(e.at, period)}
    BY AccruedFacts
  <1>2. IsFiniteSet(B) /\ B \subseteq Entry
    <2>1. "fee" \in Ledger /\ ledger'["fee"] \subseteq Entry /\ IsFiniteSet(ledger'["fee"])
      BY DEF Known, Tables, Ledger
    <2>2. B \subseteq ledger'["fee"]
      BY DEF Accrued, Accruals, RowsOf
    <2>. QED  BY <2>1, <2>2, FS_Subset
  <1>3. B = {e \in Booking("fee")' : e.park = k /\ Within(e.at, period)}
    BY DEF Accrued, Accruals, RowsOf, Booking
  <1>4. AmountOf(B) = AmountOf(Accrued(k, period))'
    BY DEF AmountOf
  <1>5. \A e, f \in A : e.source = f.source => e = f
    <2>1. "fee" \in Ledger
      BY DEF Ledger
    <2>. QED  BY <1>1, <2>1 DEF Booked, BookedIn
  <1>. HIDE DEF A, B
  <1>6. \A e \in A : \E f \in B : f.source = e.source /\ f.amount = e.amount
    <2>. SUFFICES ASSUME NEW e \in A  PROVE \E f \in B : f.source = e.source /\ f.amount = e.amount
      OBVIOUS
    <2>1. PICK f \in Booking("fee")' : f.source = e.source /\ f.park = e.park /\ f.amount = e.amount /\ f.at = e.at
      BY <1>1 DEF Kept
    <2>2. f.park = k /\ Within(f.at, period)
      BY <1>1, <2>1
    <2>. QED  BY <1>3, <2>1, <2>2
  <1>7. AmountOf(A) <= AmountOf(B) /\ AmountOf(B) \in Nat
    BY <1>1, <1>2, <1>5, <1>6, AmountsBySource, AmountNat
  <1>. QED  BY <1>4, <1>7 DEF A

LEMMA SummedInit == Init => Summed
  BY DEF Init, Summed, Idle

LEMMA SummedStep ==
  ASSUME Known, Known', Booked, Summed, [Next]_vars
  PROVE  Summed'
  <1>1. ASSUME NEW p \in Proc, NEW k \in Park, NEW period \in Periods,
               job'[p].pc = "billing", job'[p].period = <<k, period>>
        PROVE  job'[p].sum <= AmountOf(Accrued(k, period))'
    <2>1. AmountOf(Accrued(k, period)) <= AmountOf(Accrued(k, period))'
      BY AccrualsKept, AccruedGrows
    <2>2. AmountOf(Accrued(k, period)) \in Nat /\ AmountOf(Accrued(k, period))' \in Nat
      <3>1. AmountOf(Accrued(k, period)) \in Nat
        BY AccruedFacts
      <3>2. AmountOf(Accrued(k, period))' \in Nat
        BY AccrualsKept, AccruedGrows
      <3>. QED  BY <3>1, <3>2
    <2>3. CASE job'[p] = job[p]
      <3>1. job[p].sum <= AmountOf(Accrued(k, period))
        BY <1>1, <2>3 DEF Summed
      <3>2. job[p].sum \in Nat
        BY DEF Known, Requests, Typed
      <3>. QED  BY <2>1, <2>2, <2>3, <3>1, <3>2
    <2>4. ASSUME NEW i \in Invoice, NEW l \in Park, NEW per \in Periods, SumAccruals(p, i, l, per)
          PROVE  job'[p].sum <= AmountOf(Accrued(k, period))'
      <3>. DEFINE j == [Idle EXCEPT !.pc = "billing", !.invoice = i, !.period = <<l, per>>,
                                    !.sum = AmountOf(Unbilled(l, per))]
      <3>1. job'[p] = j
        <4>1. job' = [job EXCEPT ![p] = j] /\ DOMAIN job = Proc
          BY <2>4 DEF SumAccruals, Goto, Known, SettleInv
        <4>. HIDE DEF j
        <4>. QED  BY <4>1
      <3>2. j.period = <<l, per>> /\ j.sum = AmountOf(Unbilled(l, per))
        BY DEF Idle
      <3>3. l = k /\ per = period
        BY <1>1, <3>1, <3>2
      <3>. DEFINE A == Unbilled(k, period)
                  B == Accrued(k, period)
      <3>4. IsFiniteSet(B) /\ B \subseteq Entry /\ A \subseteq B
        BY AccruedFacts
      <3>5. B \subseteq Booking("fee") /\ "fee" \in Ledger
        BY AccruedFacts DEF Ledger
      <3>6. \A e, f \in A : e.source = f.source => e = f
        BY <3>4, <3>5 DEF Booked, BookedIn
      <3>. HIDE DEF A, B
      <3>7. IsFiniteSet(A) /\ A \subseteq Entry
        BY <3>4, FS_Subset
      <3>8. AmountOf(A) <= AmountOf(B) /\ AmountOf(A) \in Nat
        BY <3>4, <3>6, <3>7, AmountsBySource, AmountNat
      <3>9. job'[p].sum = AmountOf(A)
        BY <3>1, <3>2, <3>3 DEF A
      <3>10. AmountOf(B) <= AmountOf(Accrued(k, period))' /\ AmountOf(B) \in Nat
        BY <2>1, <2>2 DEF B
      <3>. HIDE DEF j
      <3>. QED  BY <2>2, <3>8, <3>9, <3>10
    <2>. QED  BY <1>1, <2>3, <2>4, StillBilling
  <1>. QED  BY <1>1 DEF Summed

\* A claimed accrual is of its invoice's park and period.
Claimed ==
  \A e \in Booking("fee") : e.invoice # None =>
    /\ e.invoice \in Invoice /\ invoices[e.invoice] # None /\ invoices[e.invoice].park = e.park
    /\ Within(e.at, invoices[e.invoice].period)

\* An invoice keeps its park, amount and period.
InvoicesKept ==
  \A i \in Invoice :
    /\ invoices'[i] # None <=> invoices[i] # None
    /\ invoices[i] # None => /\ invoices'[i].park = invoices[i].park /\ invoices'[i].amount = invoices[i].amount
                             /\ invoices'[i].period = invoices[i].period

LEMMA ClaimedInit == Init => Claimed
  BY DEF Init, Claimed, Booking, Ledger

\* But for an invoice that is issued, invoices keep what they say and no accrual is claimed.
LEMMA OtherSteps ==
  ASSUME Known, [Next]_vars
  PROVE  \/ \E p \in Proc : CreateTaxiParkPlatformInvoice(p)
         \/ /\ InvoicesKept
            /\ \A e \in Booking("fee")' : e \in Booking("fee") \/ e.invoice = None
  <1>. DEFINE Same == InvoicesKept /\ \A e \in Booking("fee")' : e \in Booking("fee") \/ e.invoice = None
  <1>1. ASSUME invoices' = invoices, ledger' = ledger  PROVE Same
    BY <1>1 DEF InvoicesKept, Booking
  <1>2. ASSUME Quiet  PROVE Same
    BY <1>1, <1>2 DEF Quiet
  <1>3. ASSUME NEW p \in Proc, CommitSettlement(p)  PROVE Same
    <2>. DEFINE k == ParkOf[job[p].order]
                posting == Posting(p, job[p].order, "accrual", k, Due(job[p].terms), None)
    <2>1. /\ ledger' = (IF k \in Park THEN [n \in Ledger |-> ledger[n] \union {posting[n]}] ELSE ledger)
          /\ invoices' = invoices
      BY <1>3 DEF CommitSettlement
    <2>2. "fee" \in Ledger
      BY DEF Ledger
    <2>3. posting["fee"].invoice = None
      BY <2>2 DEF Posting
    <2>. HIDE DEF k, posting
    <2>4. ledger'["fee"] = ledger["fee"] \/ ledger'["fee"] = ledger["fee"] \union {posting["fee"]}
      BY <2>1, <2>2
    <2>. QED  BY <2>1, <2>3, <2>4 DEF InvoicesKept, Booking
  <1>4. ASSUME NEW p \in Proc, MarkAdminPlatformInvoicePaid(p)  PROVE Same
    <2>. DEFINE i == job[p].invoice
    <2>1. /\ i \in Invoice /\ invoices[i] \in InvoiceRow
          /\ invoices'[i] # None /\ invoices'[i].park = invoices[i].park
          /\ invoices'[i].amount = invoices[i].amount /\ invoices'[i].period = invoices[i].period
          /\ \A j \in Invoice \ {i} : invoices'[j] = invoices[j]
      BY <1>4, PaymentFacts
    <2>2. invoices[i] # None
      BY <2>1, NoneIsNoRow
    <2>. HIDE DEF i
    <2>3. InvoicesKept
      BY <2>1, <2>2 DEF InvoicesKept
    <2>4. Booking("fee")' = Booking("fee")
      <3>1. "fee" \in Ledger
        BY DEF Ledger
      <3>. QED  BY <1>4, <3>1, PaymentRows
    <2>. QED  BY <2>3, <2>4
  <1>5. ASSUME NEW y \in Payout, NEW d \in Driver, NEW k \in Park, NEW amount \in Amounts, CreateDriverPayout(y, d, k, amount)
        PROVE  Same
    BY <1>1, <1>5 DEF CreateDriverPayout
  <1>6. ASSUME NEW y \in Payout, ApproveDriverPayout(y) \/ MarkDriverPayoutPaid(y)  PROVE Same
    BY <1>1, <1>6 DEF ApproveDriverPayout, MarkDriverPayoutPaid
  <1>. QED  BY <1>2, <1>3, <1>4, <1>5, <1>6, Steps

LEMMA IssueClaimed ==
  ASSUME Known, Claimed, NEW p \in Proc, CreateTaxiParkPlatformInvoice(p)
  PROVE  Claimed'
  <1>0. PICK i, k, period, row :
          /\ i = job[p].invoice /\ k = job[p].period[1] /\ period = job[p].period[2]
          /\ row = [park |-> k, amount |-> job[p].sum, period |-> period, status |-> "issued"]
    OBVIOUS
  <1>1. /\ i \in Invoice /\ invoices[i] = None /\ row # None
        /\ invoices'[i] = row /\ \A j \in Invoice \ {i} : invoices'[j] = invoices[j]
    BY <1>0, IssueFacts
  <1>2. row.park = k /\ row.period = period
    BY <1>0
  <1>3. \A f \in Booking("fee")' :
          \/ f \in Booking("fee") \ Unbilled(k, period)
          \/ \E e \in Unbilled(k, period) :
               f.invoice = i /\ f.park = e.park /\ f.at = e.at
    <2>1. /\ \A f \in Booking("fee")' :
               \/ f \in Booking("fee") \ Unbilled(k, period)
               \/ \E e \in Unbilled(k, period) : f = [e EXCEPT !.invoice = i]
          /\ \A e \in Unbilled(k, period) :
               /\ [e EXCEPT !.invoice = i].invoice = i /\ [e EXCEPT !.invoice = i].park = e.park
               /\ [e EXCEPT !.invoice = i].at = e.at
      BY <1>0, IssueRows
    <2>2. ASSUME NEW e \in Unbilled(k, period), NEW f, f = [e EXCEPT !.invoice = i]
          PROVE  f.invoice = i /\ f.park = e.park /\ f.at = e.at
      BY <2>1, <2>2
    <2>. QED  BY <2>1, <2>2
  <1>4. \A e \in Unbilled(k, period) : e.park = k /\ Within(e.at, period)
    BY DEF Unbilled, RowsOf
  <1>. SUFFICES ASSUME NEW f \in Booking("fee")', f.invoice # None
                PROVE  /\ f.invoice \in Invoice /\ invoices'[f.invoice] # None /\ invoices'[f.invoice].park = f.park
                       /\ Within(f.at, invoices'[f.invoice].period)
    BY DEF Claimed, Within
  <1>5. CASE f \in Booking("fee")
    <2>1. /\ f.invoice \in Invoice /\ invoices[f.invoice] # None /\ invoices[f.invoice].park = f.park
          /\ Within(f.at, invoices[f.invoice].period)
      BY <1>5 DEF Claimed
    <2>2. invoices'[f.invoice] = invoices[f.invoice]
      BY <1>1, <2>1
    <2>. QED  BY <2>1, <2>2
  <1>6. CASE f \notin Booking("fee")
    BY <1>1, <1>2, <1>3, <1>4, <1>6
  <1>. QED  BY <1>5, <1>6

LEMMA ClaimedStep ==
  ASSUME Known, Claimed, [Next]_vars
  PROVE  Claimed'
  <1>1. ASSUME InvoicesKept, \A e \in Booking("fee")' : e \in Booking("fee") \/ e.invoice = None
        PROVE  Claimed'
    BY <1>1 DEF InvoicesKept, Claimed, Within
  <1>. QED  BY <1>1, OtherSteps, IssueClaimed

LEMMA ClaimedByFacts ==
  ASSUME Known, NEW i \in Invoice
  PROVE  /\ ClaimedBy(i) = {e \in Booking("fee") : e.park = invoices[i].park /\ e.invoice = i}
         /\ IsFiniteSet(ClaimedBy(i)) /\ ClaimedBy(i) \subseteq Entry
  <1>1. ClaimedBy(i) = {e \in Booking("fee") : e.park = invoices[i].park /\ e.invoice = i}
    BY DEF ClaimedBy, Accruals, RowsOf, Booking
  <1>2. ClaimedBy(i) \subseteq ledger["fee"] /\ "fee" \in Ledger
    BY <1>1 DEF Booking, Ledger
  <1>. QED  BY <1>1, <1>2, FS_Subset DEF Known, Tables

Alone(i) ==
  \A j \in Invoice \ {i} :
    invoices[j] # None /\ invoices[j].park = invoices[i].park => ~Overlap(invoices[i].period, invoices[j].period)

NotOver(i) == invoices[i] # None /\ Alone(i) => invoices[i].amount <= AmountOf(ClaimedBy(i))

LEMMA OverbilledParts == NotOverbilled <=> \A i \in Invoice : NotOver(i)
  BY DEF NotOverbilled, NotOver, Alone, ClaimedBy

\* What an invoice has claimed it keeps.
LEMMA ClaimedByGrows ==
  ASSUME Known, Known', Booked, Kept, NEW i \in Invoice, invoices[i] # None, invoices'[i].park = invoices[i].park,
         i # None
  PROVE  /\ AmountOf(ClaimedBy(i)) <= AmountOf(ClaimedBy(i))'
         /\ AmountOf(ClaimedBy(i)) \in Nat /\ AmountOf(ClaimedBy(i))' \in Nat
  <1>. DEFINE A == ClaimedBy(i)
              B == ClaimedBy(i)'
  <1>1. /\ IsFiniteSet(A) /\ A \subseteq Entry
        /\ A = {e \in Booking("fee") : e.park = invoices[i].park /\ e.invoice = i}
    BY ClaimedByFacts
  <1>2. B = {e \in Booking("fee")' : e.park = invoices'[i].park /\ e.invoice = i}
    BY DEF ClaimedBy, Accruals, RowsOf, Booking
  <1>3. IsFiniteSet(B) /\ B \subseteq Entry
    <2>1. "fee" \in Ledger /\ ledger'["fee"] \subseteq Entry /\ IsFiniteSet(ledger'["fee"])
      BY DEF Known, Tables, Ledger
    <2>2. B \subseteq ledger'["fee"]
      BY <1>2 DEF Booking
    <2>. QED  BY <2>1, <2>2, FS_Subset
  <1>4. AmountOf(B) = AmountOf(ClaimedBy(i))'
    BY DEF AmountOf
  <1>5. \A e, f \in A : e.source = f.source => e = f
    <2>1. "fee" \in Ledger
      BY DEF Ledger
    <2>. QED  BY <1>1, <2>1 DEF Booked, BookedIn
  <1>6. A \subseteq B
    <2>1. \A e \in Booking("fee") : e.invoice # None => e \in Booking("fee")'
      BY DEF Kept
    <2>. QED  BY <1>1, <1>2, <2>1
  <1>. HIDE DEF A, B
  <1>7. AmountOf(A) <= AmountOf(B)
    BY <1>1, <1>3, <1>5, <1>6, AmountsBySource
  <1>8. AmountOf(A) \in Nat /\ AmountOf(B) \in Nat
    BY <1>1, <1>3, AmountNat
  <1>. QED  BY <1>4, <1>7, <1>8 DEF A

\* An invoice that is there stays within what it has claimed.
LEMMA OldNotOver ==
  ASSUME Known, Known', Booked, Kept, NEW i \in Invoice, NotOver(i), invoices[i] # None,
         invoices'[i].park = invoices[i].park, invoices'[i].amount = invoices[i].amount,
         invoices'[i].period = invoices[i].period,
         \A j \in Invoice : invoices[j] # None =>
           invoices'[j] # None /\ invoices'[j].park = invoices[j].park /\ invoices'[j].period = invoices[j].period
  PROVE  NotOver(i)'
  <1>. SUFFICES ASSUME Alone(i)'  PROVE invoices'[i].amount <= AmountOf(ClaimedBy(i))'
    BY DEF NotOver
  <1>1. Alone(i)
    BY DEF Alone, Overlap
  <1>2. invoices[i].amount <= AmountOf(ClaimedBy(i))
    BY <1>1 DEF NotOver
  <1>3. invoices[i].amount \in Nat
    <2>1. invoices[i] \in InvoiceRow
      BY DEF Known, Tables
    <2>. QED  BY <2>1 DEF InvoiceRow
  <1>4. i # None
    BY NoneIsNoRow
  <1>5. /\ AmountOf(ClaimedBy(i)) <= AmountOf(ClaimedBy(i))'
        /\ AmountOf(ClaimedBy(i)) \in Nat /\ AmountOf(ClaimedBy(i))' \in Nat
    BY <1>4, ClaimedByGrows
  <1>. QED  BY <1>2, <1>3, <1>5

\* An invoice that no other overlaps finds all accruals of its period unclaimed,
\* and claims them: what was summed is at most that.
LEMMA IssueNotOver ==
  ASSUME Known, Known', Booked, Claimed, Summed, NEW p \in Proc, CreateTaxiParkPlatformInvoice(p),
         NEW i, i = job[p].invoice, Alone(i)'
  PROVE  invoices'[i].amount <= AmountOf(ClaimedBy(i))'
  <1>0. PICK k, period, row :
          /\ k = job[p].period[1] /\ period = job[p].period[2]
          /\ row = [park |-> k, amount |-> job[p].sum, period |-> period, status |-> "issued"]
    OBVIOUS
  <1>1. /\ job[p].pc = "billing" /\ i \in Invoice /\ k \in Park /\ period \in Periods /\ invoices[i] = None
        /\ job[p].sum \in Nat /\ job[p].period = <<k, period>>
        /\ invoices'[i] = row /\ \A j \in Invoice \ {i} : invoices'[j] = invoices[j]
    BY <1>0, IssueFacts
  <1>2. row.park = k /\ row.period = period /\ row.amount = job[p].sum
    BY <1>0
  <1>. DEFINE A == Accrued(k, period)
              B == ClaimedBy(i)'
  <1>3. job[p].sum <= AmountOf(A)
    BY <1>1 DEF Summed
  <1>4. /\ IsFiniteSet(A) /\ A \subseteq Entry /\ A = {e \in Booking("fee") : e.park = k /\ Within(e.at, period)}
        /\ Unbilled(k, period) = {e \in A : e.invoice = None} /\ AmountOf(A) \in Nat
    BY AccruedFacts
  <1>5. B = {e \in Booking("fee")' : e.park = k /\ e.invoice = i}
    BY <1>1, <1>2 DEF ClaimedBy, Accruals, RowsOf, Booking
  <1>6. IsFiniteSet(B) /\ B \subseteq Entry
    <2>1. "fee" \in Ledger /\ ledger'["fee"] \subseteq Entry /\ IsFiniteSet(ledger'["fee"])
      BY DEF Known, Tables, Ledger
    <2>2. B \subseteq ledger'["fee"]
      BY <1>5 DEF Booking
    <2>. QED  BY <2>1, <2>2, FS_Subset
  <1>7. AmountOf(B) = AmountOf(ClaimedBy(i))'
    BY DEF AmountOf
  <1>8. \A e, f \in A : e.source = f.source => e = f
    <2>1. "fee" \in Ledger
      BY DEF Ledger
    <2>. QED  BY <1>4, <2>1 DEF Booked, BookedIn
  <1>. HIDE DEF A, B
  <1>9. \A e \in A : e.invoice = None
    <2>. SUFFICES ASSUME NEW e \in A, e.invoice # None  PROVE FALSE
      OBVIOUS
    <2>1. /\ e.invoice \in Invoice /\ invoices[e.invoice] # None /\ invoices[e.invoice].park = k
          /\ Within(e.at, invoices[e.invoice].period)
      BY <1>4 DEF Claimed
    <2>2. e.invoice \in Invoice \ {i} /\ invoices'[e.invoice] = invoices[e.invoice]
      BY <1>1, <2>1
    <2>3. ~Overlap(period, invoices[e.invoice].period)
      BY <1>1, <1>2, <2>1, <2>2 DEF Alone, Overlap
    <2>4. Within(e.at, period) /\ e.at \in Nat
      BY <1>4 DEF Entry
    <2>5. period \in Nat \X Nat /\ invoices[e.invoice].period \in Nat \X Nat
      <3>1. invoices[e.invoice] \in InvoiceRow
        BY <2>1 DEF Known, Tables
      <3>2. invoices[e.invoice].period \in Periods
        BY <3>1 DEF InvoiceRow
      <3>. QED  BY <1>1, <3>2, Constants
    <2>6. Overlap(period, invoices[e.invoice].period)
      <3>. DEFINE q == invoices[e.invoice].period
      <3>1. q[1] \in Nat /\ q[2] \in Nat /\ period[1] \in Nat /\ period[2] \in Nat
        BY <2>5
      <3>. HIDE DEF q
      <3>2. q[1] <= e.at /\ e.at < q[2] /\ period[1] <= e.at /\ e.at < period[2]
        BY <2>1, <2>4 DEF Within, q
      <3>3. period[1] < q[2] /\ q[1] < period[2]
        BY <2>4, <3>1, <3>2
      <3>. QED  BY <3>3 DEF Overlap, q
    <2>. QED  BY <2>3, <2>6
  <1>10. \A e \in A : \E f \in B : f.source = e.source /\ f.amount = e.amount
    <2>. SUFFICES ASSUME NEW e \in A  PROVE \E f \in B : f.source = e.source /\ f.amount = e.amount
      OBVIOUS
    <2>1. e \in Unbilled(k, period) /\ e.park = k
      BY <1>4, <1>9
    <2>2. PICK f : f = [e EXCEPT !.invoice = i]
      OBVIOUS
    <2>3. f \in Booking("fee")' /\ f.invoice = i /\ f.source = e.source /\ f.park = e.park /\ f.amount = e.amount
      BY <1>0, <2>1, <2>2, IssueRows
    <2>. QED  BY <1>5, <2>1, <2>3
  <1>11. AmountOf(A) <= AmountOf(B) /\ AmountOf(B) \in Nat
    BY <1>4, <1>6, <1>8, <1>10, AmountsBySource, AmountNat
  <1>. QED  BY <1>1, <1>2, <1>3, <1>4, <1>7, <1>11

LEMMA NotOverbilledStep ==
  ASSUME Known, Known', Booked, Claimed, Summed, NotOverbilled, [Next]_vars
  PROVE  NotOverbilled'
  <1>0. (\A i \in Invoice : NotOver(i)) /\ Kept
    BY OverbilledParts, AccrualsKept
  <1>1. ASSUME InvoicesKept, NEW i \in Invoice  PROVE NotOver(i)'
    <2>1. CASE invoices[i] = None
      BY <1>1, <2>1 DEF InvoicesKept, NotOver
    <2>2. CASE invoices[i] # None
      <3>1. /\ invoices'[i].park = invoices[i].park /\ invoices'[i].amount = invoices[i].amount
            /\ invoices'[i].period = invoices[i].period
            /\ \A j \in Invoice : invoices[j] # None =>
                 invoices'[j] # None /\ invoices'[j].park = invoices[j].park /\ invoices'[j].period = invoices[j].period
        BY <1>1, <2>2 DEF InvoicesKept
      <3>. QED  BY <1>0, <2>2, <3>1, OldNotOver
    <2>. QED  BY <2>1, <2>2
  <1>2. ASSUME NEW p \in Proc, CreateTaxiParkPlatformInvoice(p), NEW i \in Invoice  PROVE NotOver(i)'
    <2>0. PICK n, k, period, row :
            /\ n = job[p].invoice /\ k = job[p].period[1] /\ period = job[p].period[2]
            /\ row = [park |-> k, amount |-> job[p].sum, period |-> period, status |-> "issued"]
      OBVIOUS
    <2>1. invoices[n] = None /\ \A j \in Invoice \ {n} : invoices'[j] = invoices[j]
      BY <1>2, <2>0, IssueFacts
    <2>2. CASE i = n
      BY <1>2, <2>0, <2>2, IssueNotOver DEF NotOver
    <2>3. CASE i # n /\ invoices[i] # None
      <3>1. \A j \in Invoice : invoices[j] # None => invoices'[j] = invoices[j]
        BY <2>1
      <3>2. /\ invoices'[i].park = invoices[i].park /\ invoices'[i].amount = invoices[i].amount
            /\ invoices'[i].period = invoices[i].period
            /\ \A j \in Invoice : invoices[j] # None =>
                 invoices'[j] # None /\ invoices'[j].park = invoices[j].park /\ invoices'[j].period = invoices[j].period
        BY <2>3, <3>1
      <3>. QED  BY <1>0, <2>3, <3>2, OldNotOver
    <2>4. CASE i # n /\ invoices[i] = None
      BY <2>1, <2>4 DEF NotOver
    <2>. QED  BY <2>2, <2>3, <2>4
  <1>3. \A i \in Invoice : NotOver(i)'
    BY <1>1, <1>2, OtherSteps
  <1>4. NotOverbilled' <=> \A i \in Invoice : NotOver(i)'
    BY DEF NotOverbilled, NotOver, Alone, ClaimedBy
  <1>. QED  BY <1>3, <1>4

(* An invoice whose period no other invoice of the park overlaps asks for no  *)
(* more than the accruals it has claimed, however many settlements commit    *)
(* between the sum and the claim (CreateTaxiParkPlatformInvoice).             *)
THEOREM NeverOverbilled == Spec => []NotOverbilled
  <1>1. Init => Known /\ Booked /\ Claimed /\ Summed /\ NotOverbilled
    BY KnownInit, BookedInit, ClaimedInit, SummedInit DEF Init, NotOverbilled
  <1>2. Known /\ Booked /\ Claimed /\ Summed /\ NotOverbilled /\ [Next]_vars
          => Known' /\ Booked' /\ Claimed' /\ Summed' /\ NotOverbilled'
    BY KnownStep, BookedStep, ClaimedStep, SummedStep, NotOverbilledStep
  <1>. QED  BY <1>1, <1>2, PTL DEF Spec

-----------------------------------------------------------------------------
(* The refinement: settlements and payouts earn and pay what Earnings      *)
(* allows.                                                                 *)

\* A request that is at j settles an order that is completed, and has split its
\* price at a commission of its park.
Splits(j) ==
  /\ j.pc \in {"completed", "priced", "settling", "settled"} => status[j.order] = "completed"
  /\ j.pc \in {"priced", "settling", "settled"} =>
       \E bps \in E!Commissions(j.order) : j.terms = Terms(PriceOf[j.order], bps, FeeRate)

\* A payout was asked for.
Asked(payout) == payout # None => payout.amount \in Amounts /\ payout.amount > 0

Earning ==
  /\ \A p \in Proc : Splits(job[p])
  /\ \A y \in Payout : Asked(payouts[y])

StaysCompleted == \A o \in Order : status[o] = "completed" => status'[o] = "completed"

LEMMA SplitsStay ==
  ASSUME NEW j, Splits(j), j.pc \in {"completed", "priced", "settling", "settled"} => j.order \in Order,
         StaysCompleted
  PROVE  Splits(j)'
  BY DEF Splits, StaysCompleted, E!Commissions

LEMMA JobsSplit ==
  ASSUME Known, Earning, StaysCompleted, NEW p \in Proc, NEW j, Splits(j)', job' = [job EXCEPT ![p] = j]
  PROVE  \A q \in Proc : Splits(job[q])'
  <1>1. job' = [q \in Proc |-> IF q = p THEN j ELSE job[q]]
    BY DEF Known, SettleInv
  <1>2. ASSUME NEW q \in Proc, q # p  PROVE Splits(job[q])'
    <2>1. Splits(job[q]) /\ (job[q].pc \in {"completed", "priced", "settling", "settled"} => job[q].order \in Order)
      BY DEF Earning, Known, SettleInv, Fit
    <2>2. PICK r : r = job[q]
      OBVIOUS
    <2>3. Splits(r)'
      BY <2>1, <2>2, SplitsStay
    <2>4. job'[q] = r
      BY <1>1, <1>2, <2>2
    <2>. QED  BY <2>3, <2>4
  <1>3. Splits(job[p])'
    BY <1>1
  <1>. QED  BY <1>2, <1>3

\* A request that does not settle.
LEMMA NoSettling ==
  ASSUME NEW j, j.pc \notin {"completed", "priced", "settling", "settled"}
  PROVE  Splits(j)'
  BY DEF Splits

LEMMA JobsStay ==
  ASSUME Known, Earning, StaysCompleted, job' = job
  PROVE  \A q \in Proc : Splits(job[q])'
  <1>. SUFFICES ASSUME NEW q \in Proc  PROVE Splits(job[q])'
    OBVIOUS
  <1>1. Splits(job[q]) /\ (job[q].pc \in {"completed", "priced", "settling", "settled"} => job[q].order \in Order)
    BY DEF Earning, Known, SettleInv, Fit
  <1>2. PICK r : r = job[q]
    OBVIOUS
  <1>3. Splits(r)'
    BY <1>1, <1>2, SplitsStay
  <1>. QED  BY <1>2, <1>3

\* The steps of a request keep what it has computed.
LEMMA SplitsStep ==
  ASSUME Known, Earning, [Next]_vars
  PROVE  StaysCompleted /\ \A q \in Proc : Splits(job[q])'
  <1>0. /\ \A p \in Proc : Fit(p, job[p]) /\ Splits(job[p])
        /\ status \in [Order -> Unfinished]
    BY DEF Known, SettleInv, Requests, Earning
  <1>1. ASSUME NEW p \in Proc, NEW o \in Order, CompleteOrder(p, o)
        PROVE  StaysCompleted /\ \A q \in Proc : Splits(job[q])'
    <2>. DEFINE j == [Idle EXCEPT !.pc = "completed", !.order = o]
    <2>1. status' = [status EXCEPT ![o] = "completed"] /\ job' = [job EXCEPT ![p] = j]
      BY <1>1 DEF CompleteOrder, Goto
    <2>2. StaysCompleted /\ status'[o] = "completed"
      BY <1>0, <2>1 DEF StaysCompleted
    <2>3. j.pc = "completed" /\ j.order = o
      <3>1. j \in [pc: {"completed"}, order: {o}, invoice: {None}, period: {None},
                   terms: {None}, at: {0}, after: {Nothing}, sum: {0}]
        BY IdleColumns
      <3>. HIDE DEF j
      <3>. QED  BY <3>1, Columns
    <2>. HIDE DEF j
    <2>4. PICK r : r = j
      OBVIOUS
    <2>5. Splits(r)'
      BY <2>2, <2>3, <2>4 DEF Splits
    <2>6. job' = [job EXCEPT ![p] = r]
      BY <2>1, <2>4
    <2>. QED  BY <2>2, <2>5, <2>6, JobsSplit
  <1>2. ASSUME NEW p \in Proc, TakeSnapshot(p)
        PROVE  StaysCompleted /\ \A q \in Proc : Splits(job[q])'
    <2>. DEFINE o == job[p].order
                terms == Terms(PriceOf[o], CommissionRate(o), FeeRate)
                j == [job[p] EXCEPT !.pc = "priced", !.terms = terms]
    <2>1. job[p].pc = "completed" /\ status' = status /\ job' = [job EXCEPT ![p] = j]
      BY <1>2 DEF TakeSnapshot, Goto
    <2>2. StaysCompleted /\ status'[o] = "completed" /\ o \in Order
      BY <1>0, <2>1 DEF StaysCompleted, Splits, Fit
    <2>3. CommissionRate(o) \in E!Commissions(o)
      <3>1. rate \in [Park -> Rates]
        BY DEF Known, SettleInv
      <3>. QED  BY <3>1 DEF CommissionRate, E!Commissions
    <2>4. j.pc = "priced" /\ j.order = o /\ j.terms = terms
      <3>1. IsJob(job[p])
        BY <1>0 DEF Fit
      <3>2. j \in [pc: {"priced"}, order: {o}, invoice: {job[p].invoice}, period: {job[p].period},
                   terms: {terms}, at: {job[p].at}, after: {job[p].after}, sum: {job[p].sum}]
        BY <3>1, JobColumns
      <3>. HIDE DEF j, terms
      <3>. QED  BY <3>2, Columns
    <2>5. PICK bps \in E!Commissions(o) : terms = Terms(PriceOf[o], bps, FeeRate)
      BY <2>3
    <2>. HIDE DEF j, terms, o
    <2>6. PICK r : r = j
      OBVIOUS
    <2>7. Splits(r)'
      BY <2>2, <2>4, <2>5, <2>6 DEF Splits, E!Commissions
    <2>8. job' = [job EXCEPT ![p] = r]
      BY <2>1, <2>6
    <2>. QED  BY <2>2, <2>7, <2>8, JobsSplit
  <1>3. ASSUME NEW p \in Proc, NEW j, job' = [job EXCEPT ![p] = j], status' = status,
               job[p].pc \in {"priced", "settling"}, j.pc \in {"settling", "settled"},
               j.order = job[p].order, j.terms = job[p].terms
        PROVE  StaysCompleted /\ \A q \in Proc : Splits(job[q])'
    <2>1. StaysCompleted
      BY <1>3 DEF StaysCompleted
    <2>2. Splits(j)'
      BY <1>0, <1>3 DEF Splits, E!Commissions
    <2>. QED  BY <1>3, <2>1, <2>2, JobsSplit
  <1>4. ASSUME NEW p \in Proc, NEW j, job' = [job EXCEPT ![p] = j], status' = status,
               j.pc \notin {"completed", "priced", "settling", "settled"}
        PROVE  StaysCompleted /\ \A q \in Proc : Splits(job[q])'
    <2>1. StaysCompleted
      BY <1>4 DEF StaysCompleted
    <2>. QED  BY <1>4, <2>1, NoSettling, JobsSplit
  <1>5. ASSUME job' = job, status' = status  PROVE StaysCompleted /\ \A q \in Proc : Splits(job[q])'
    <2>1. StaysCompleted
      BY <1>5 DEF StaysCompleted
    <2>. QED  BY <1>5, <2>1, JobsStay
  <1>6. ASSUME NEW p \in Proc, NEW terms, Answered(p, terms), status' = status
        PROVE  StaysCompleted /\ \A q \in Proc : Splits(job[q])'
    <2>. DEFINE j == [Idle EXCEPT !.pc = "answered", !.order = job[p].order, !.terms = terms]
    <2>1. j.pc = "answered"
      <3>1. j \in [pc: {"answered"}, order: {job[p].order}, invoice: {None}, period: {None},
                   terms: {terms}, at: {0}, after: {Nothing}, sum: {0}]
        BY IdleColumns
      <3>. HIDE DEF j
      <3>. QED  BY <3>1, Columns
    <2>2. job' = [job EXCEPT ![p] = j]
      BY <1>6 DEF Answered, Goto
    <2>. HIDE DEF j
    <2>. QED  BY <1>4, <1>6, <2>1, <2>2
  <1>7. ASSUME NEW p \in Proc, BeginSettlement(p)
        PROVE  StaysCompleted /\ \A q \in Proc : Splits(job[q])'
    <2>1. CASE AnswerCommitted(p)
      BY <1>6, <1>7, <2>1 DEF BeginSettlement, AnswerCommitted
    <2>2. CASE ~AnswerCommitted(p)
      <3>. DEFINE j == [job[p] EXCEPT !.pc = "settling", !.at = clock]
      <3>1. job[p].pc = "priced" /\ job' = [job EXCEPT ![p] = j] /\ status' = status
        BY <1>7, <2>2 DEF BeginSettlement, Goto
      <3>2. j.pc = "settling" /\ j.order = job[p].order /\ j.terms = job[p].terms
        <4>1. IsJob(job[p])
          BY <1>0 DEF Fit
        <4>2. j \in [pc: {"settling"}, order: {job[p].order}, invoice: {job[p].invoice}, period: {job[p].period},
                     terms: {job[p].terms}, at: {clock}, after: {job[p].after}, sum: {job[p].sum}]
          BY <4>1, JobColumns
        <4>. HIDE DEF j
        <4>. QED  BY <4>2, Columns
      <3>. HIDE DEF j
      <3>. QED  BY <1>3, <3>1, <3>2
    <2>. QED  BY <2>1, <2>2
  <1>8. ASSUME NEW p \in Proc, PostSettlement(p)
        PROVE  StaysCompleted /\ \A q \in Proc : Splits(job[q])'
    <2>1. CASE AnswerCommitted(p)
      BY <1>6, <1>8, <2>1 DEF PostSettlement, AnswerCommitted
    <2>2. CASE ~AnswerCommitted(p)
      <3>. DEFINE after == AfterSettling(ParkOf[job[p].order], job[p].terms)
                  j == [job[p] EXCEPT !.pc = "settled", !.after = after]
      <3>1. job[p].pc = "settling" /\ job' = [job EXCEPT ![p] = j] /\ status' = status
        BY <1>8, <2>2 DEF PostSettlement, Goto
      <3>2. j.pc = "settled" /\ j.order = job[p].order /\ j.terms = job[p].terms
        <4>. HIDE DEF after
        <4>1. IsJob(job[p])
          BY <1>0 DEF Fit
        <4>2. j \in [pc: {"settled"}, order: {job[p].order}, invoice: {job[p].invoice}, period: {job[p].period},
                     terms: {job[p].terms}, at: {job[p].at}, after: {after}, sum: {job[p].sum}]
          BY <4>1, JobColumns
        <4>. HIDE DEF j
        <4>. QED  BY <4>2, Columns
      <3>. HIDE DEF j
      <3>. QED  BY <1>3, <3>1, <3>2
    <2>. QED  BY <2>1, <2>2
  <1>9. ASSUME NEW p \in Proc, CommitSettlement(p)
        PROVE  StaysCompleted /\ \A q \in Proc : Splits(job[q])'
    BY <1>6, <1>9 DEF CommitSettlement
  <1>10. ASSUME NEW p \in Proc,
                Answer(p) \/ Fail(p) \/ CreateTaxiParkPlatformInvoice(p) \/ MarkAdminPlatformInvoicePaid(p)
         PROVE  StaysCompleted /\ \A q \in Proc : Splits(job[q])'
    <2>1. job' = [job EXCEPT ![p] = Idle] /\ status' = status
      BY <1>10 DEF Answer, Fail, CreateTaxiParkPlatformInvoice, MarkAdminPlatformInvoicePaid, Goto
    <2>2. Idle.pc = "idle"
      BY IdleColumns, Columns
    <2>. QED  BY <1>4, <2>1, <2>2
  <1>11. ASSUME NEW p \in Proc, NEW i \in Invoice, NEW k \in Park, NEW period \in Periods, SumAccruals(p, i, k, period)
         PROVE  StaysCompleted /\ \A q \in Proc : Splits(job[q])'
    <2>. DEFINE n == AmountOf(Unbilled(k, period))
                j == [Idle EXCEPT !.pc = "billing", !.invoice = i, !.period = <<k, period>>, !.sum = n]
    <2>1. job' = [job EXCEPT ![p] = j] /\ status' = status
      BY <1>11 DEF SumAccruals, Goto
    <2>2. j.pc = "billing"
      <3>. HIDE DEF n
      <3>1. j \in [pc: {"billing"}, order: {None}, invoice: {i}, period: {<<k, period>>},
                   terms: {None}, at: {0}, after: {Nothing}, sum: {n}]
        BY IdleColumns
      <3>. HIDE DEF j
      <3>. QED  BY <3>1, Columns
    <2>. HIDE DEF j
    <2>. QED  BY <1>4, <2>1, <2>2
  <1>12. ASSUME NEW p \in Proc, NEW i \in Invoice, BeginInvoicePayment(p, i)
         PROVE  StaysCompleted /\ \A q \in Proc : Splits(job[q])'
    <2>. DEFINE j == [Idle EXCEPT !.pc = "paying", !.invoice = i, !.at = clock]
    <2>1. job' = [job EXCEPT ![p] = j] /\ status' = status
      BY <1>12 DEF BeginInvoicePayment, Goto
    <2>2. j.pc = "paying"
      <3>1. j \in [pc: {"paying"}, order: {None}, invoice: {i}, period: {None},
                   terms: {None}, at: {clock}, after: {Nothing}, sum: {0}]
        BY IdleColumns
      <3>. HIDE DEF j
      <3>. QED  BY <3>1, Columns
    <2>. HIDE DEF j
    <2>. QED  BY <1>4, <2>1, <2>2
  <1>13. ASSUME NEW p \in Proc, PostInvoicePayment(p)
         PROVE  StaysCompleted /\ \A q \in Proc : Splits(job[q])'
    <2>. DEFINE after == AfterPaying(invoices[job[p].invoice])
                j == [job[p] EXCEPT !.pc = "paid", !.after = after]
    <2>1. job' = [job EXCEPT ![p] = j] /\ status' = status
      BY <1>13 DEF PostInvoicePayment, Goto
    <2>2. j.pc = "paid"
      <3>. HIDE DEF after
      <3>1. IsJob(job[p])
        BY <1>0 DEF Fit
      <3>2. j \in [pc: {"paid"}, order: {job[p].order}, invoice: {job[p].invoice}, period: {job[p].period},
                   terms: {job[p].terms}, at: {job[p].at}, after: {after}, sum: {job[p].sum}]
        BY <3>1, JobColumns
      <3>. HIDE DEF j
      <3>. QED  BY <3>2, Columns
    <2>. HIDE DEF j
    <2>. QED  BY <1>4, <2>1, <2>2
  <1>14. ASSUME NEW k \in Park, NEW bps \in Rates, UpdateTaxiParkDriverCommission(k, bps)
         PROVE  StaysCompleted /\ \A q \in Proc : Splits(job[q])'
    BY <1>5, <1>14 DEF UpdateTaxiParkDriverCommission
  <1>15. ASSUME PayOut  PROVE StaysCompleted /\ \A q \in Proc : Splits(job[q])'
    BY <1>5, <1>15 DEF PayOut, CreateDriverPayout, ApproveDriverPayout, MarkDriverPayoutPaid
  <1>16. ASSUME UNCHANGED vars  PROVE StaysCompleted /\ \A q \in Proc : Splits(job[q])'
    BY <1>5, <1>16 DEF vars
  <1>17. CASE \E p \in Proc : Settle(p)
    BY <1>1, <1>2, <1>7, <1>8, <1>9, <1>10, <1>17 DEF Settle
  <1>18. CASE \E p \in Proc : Bill(p)
    BY <1>10, <1>11, <1>12, <1>13, <1>18 DEF Bill
  <1>. QED  BY <1>14, <1>15, <1>16, <1>17, <1>18 DEF Next

LEMMA EarningInit == Init => Earning
  <1>. SUFFICES ASSUME Init  PROVE Earning
    OBVIOUS
  <1>1. Idle.pc = "idle"
    BY IdleColumns, Columns
  <1>. QED  BY <1>1 DEF Init, Earning, Splits, Asked

LEMMA EarningStep ==
  ASSUME Known, Earning, [Next]_vars
  PROVE  Earning'
  <1>0. \A y \in Payout : Asked(payouts[y])
    BY DEF Earning
  <1>1. ASSUME payouts' = payouts  PROVE \A y \in Payout : Asked(payouts'[y])
    BY <1>0, <1>1
  <1>2. ASSUME Quiet  PROVE \A y \in Payout : Asked(payouts'[y])
    BY <1>1, <1>2 DEF Quiet
  <1>3. ASSUME NEW p \in Proc, CommitSettlement(p) \/ CreateTaxiParkPlatformInvoice(p) \/ MarkAdminPlatformInvoicePaid(p)
        PROVE  \A y \in Payout : Asked(payouts'[y])
    BY <1>1, <1>3 DEF CommitSettlement, CreateTaxiParkPlatformInvoice, MarkAdminPlatformInvoicePaid
  <1>4. ASSUME NEW y \in Payout, NEW d \in Driver, NEW k \in Park, NEW amount \in Amounts, CreateDriverPayout(y, d, k, amount)
        PROVE  \A z \in Payout : Asked(payouts'[z])
    <2>. DEFINE row == [driver |-> d, park |-> k, amount |-> amount, status |-> "created"]
    <2>1. payouts' = [payouts EXCEPT ![y] = row] /\ row.amount = amount /\ amount > 0
      BY <1>4 DEF CreateDriverPayout
    <2>. HIDE DEF row
    <2>2. payouts'[y] = row /\ \A z \in Payout \ {y} : payouts'[z] = payouts[z]
      BY <2>1 DEF Known, Tables
    <2>. QED  BY <1>0, <2>1, <2>2 DEF Asked
  <1>5. ASSUME NEW y \in Payout, ApproveDriverPayout(y) \/ MarkDriverPayoutPaid(y)
        PROVE  \A z \in Payout : Asked(payouts'[z])
    <2>1. PICK s \in {"approved", "paid"} : payouts[y] # None /\ payouts' = [payouts EXCEPT ![y].status = s]
      BY <1>5 DEF ApproveDriverPayout, MarkDriverPayoutPaid, Payable
    <2>2. payouts'[y].amount = payouts[y].amount /\ \A z \in Payout \ {y} : payouts'[z] = payouts[z]
      BY <2>1, PayoutGoesOn
    <2>. QED  BY <1>0, <2>1, <2>2 DEF Asked
  <1>6. \A y \in Payout : Asked(payouts'[y])
    BY <1>2, <1>3, <1>4, <1>5, Steps
  <1>7. \A q \in Proc : Splits(job[q])'
    BY SplitsStep
  <1>. QED  BY <1>6, <1>7 DEF Earning, Asked

\* What the abstract specification sees of the payouts.
Payments == [y \in Payout |-> PaidRow(payouts[y])]

\* A payout that was made is one that was paid.
LEMMA PaidRows ==
  ASSUME NEW payout \in PayoutRow \union {None}
  PROVE  /\ PaidRow(payout) # None <=> payout # None /\ payout.status = "paid"
         /\ PaidRow(payout) # None =>
              /\ PaidRow(payout).driver = payout.driver /\ PaidRow(payout).park = payout.park
              /\ PaidRow(payout).amount = payout.amount
  <1>1. CASE payout # None /\ payout.status = "paid"
    <2>1. payout \in PayoutRow
      BY <1>1
    <2>2. PaidRow(payout) = [driver |-> payout.driver, park |-> payout.park, amount |-> payout.amount]
      BY <1>1 DEF PaidRow
    <2>3. PaidRow(payout) \in [driver: Driver, park: Park, amount: Nat]
      BY <2>1, <2>2 DEF PayoutRow
    <2>4. PaidRow(payout) # None
      BY <2>3, NoneIsNoPayment
    <2>. QED  BY <1>1, <2>2, <2>4
  <1>2. CASE ~(payout # None /\ payout.status = "paid")
    BY <1>2 DEF PaidRow
  <1>. QED  BY <1>1, <1>2

\* The sum of the abstract specification is defined as that of the books.
LEMMA SameFunction ==
  ASSUME NEW f
  PROVE  E!SumFunction(f) = SumFunction(f)
  <1>1. E!SumFunctionOnSet(f, DOMAIN f) = (CHOOSE g : HasSums(g, f, DOMAIN f))[DOMAIN f]
    BY DEF E!SumFunctionOnSet, E!FoldFunctionOnSet, E!MapThenFoldSet, HasSums, Unrolled, First
  <1>2. SumFunctionOnSet(f, DOMAIN f) = (CHOOSE g : HasSums(g, f, DOMAIN f))[DOMAIN f]
    BY SumIsChosen
  <1>. QED  BY <1>1, <1>2 DEF SumFunction, E!SumFunction

\* The sums of the abstract specification are those of the books.
LEMMA SameSums ==
  ASSUME Known, NEW d, NEW k
  PROVE  E!Income(d, k) = Income(d, k) /\ E!PaidOut(d, k) = PaidOut(d, k)
  <1>1. E!Income(d, k) = Income(d, k)
    BY SameFunction DEF E!Income, Income, SettledOf
  <1>2. E!PaidOut(d, k) = PaidOut(d, k)
    <2>1. \A y \in Payout : payouts[y] \in PayoutRow \union {None}
      BY DEF Known, Tables
    <2>2. \A y \in Payout : PaidRow(payouts[y]) # None <=> payouts[y] # None /\ payouts[y].status = "paid"
      BY <2>1, PaidRows
    <2>3. \A y \in Payout : PaidRow(payouts[y]) # None =>
            /\ PaidRow(payouts[y]).driver = payouts[y].driver /\ PaidRow(payouts[y]).park = payouts[y].park
            /\ PaidRow(payouts[y]).amount = payouts[y].amount
      BY <2>1, PaidRows
    <2>. DEFINE P == Payments
                S == {y \in Payout : P[y] # None /\ P[y].driver = d /\ P[y].park = k}
    <2>4. \A y \in Payout : P[y] = PaidRow(payouts[y])
      BY DEF Payments
    <2>5. S = PaidTo(d, k)
      BY <2>2, <2>3, <2>4 DEF PaidTo
    <2>6. [y \in S |-> P[y].amount] = [y \in PaidTo(d, k) |-> payouts[y].amount]
      BY <2>2, <2>3, <2>4, <2>5 DEF PaidTo
    <2>7. E!PaidOut(d, k) = SumFunction([y \in S |-> P[y].amount])
      BY SameFunction DEF E!PaidOut, Payments
    <2>. HIDE DEF S, P
    <2>. QED  BY <2>6, <2>7 DEF PaidOut
  <1>. QED  BY <1>1, <1>2

LEMMA EarningsInit == Init => E!Init
  <1>. SUFFICES ASSUME Init  PROVE E!Init
    OBVIOUS
  <1>1. {o \in Order : status[o] = "completed"} = {}
    BY DEF Init
  <1>2. [y \in Payout |-> PaidRow(payouts[y])] = [y \in Payout |-> None]
    BY DEF Init, PaidRow
  <1>. QED  BY <1>1, <1>2 DEF Init, E!Init

\* A step after which as much is completed, settled and paid as before.
LEMMA Stutters ==
  ASSUME status' = status, settled' = settled, \A y \in Payout : PaidRow(payouts'[y]) = PaidRow(payouts[y])
  PROVE  UNCHANGED E!vars
  BY DEF E!vars

\* A driver or a park completes an order.
LEMMA CompletionImplements ==
  ASSUME Known, NEW p \in Proc, NEW o \in Order, CompleteOrder(p, o)
  PROVE  E!Complete(o)
  <1>1. status' = [status EXCEPT ![o] = "completed"] /\ settled' = settled /\ payouts' = payouts
    BY DEF CompleteOrder
  <1>2. \A q \in Order : status'[q] = IF q = o THEN "completed" ELSE status[q]
    BY <1>1 DEF Known, Requests
  <1>. QED  BY <1>1, <1>2 DEF E!Complete

\* A settlement commits: its order is completed and has not earned before, and what
\* it brings was split at a commission of the park.
LEMMA CommitImplements ==
  ASSUME Known, Earning, NEW p \in Proc, CommitSettlement(p)
  PROVE  E!Earn(job[p].order)
  <1>1. /\ job[p].pc = "settled" /\ settled' = [settled EXCEPT ![job[p].order] = job[p].terms]
        /\ status' = status /\ payouts' = payouts
    BY DEF CommitSettlement
  <1>2. job[p].order \in Order /\ settled[job[p].order] = None
    BY CommitFacts
  <1>3. Splits(job[p])
    BY DEF Earning
  <1>4. status[job[p].order] = "completed"
    BY <1>1, <1>3 DEF Splits
  <1>5. PICK bps \in E!Commissions(job[p].order) : job[p].terms = Terms(PriceOf[job[p].order], bps, FeeRate)
    BY <1>1, <1>3 DEF Splits
  <1>6. Terms(PriceOf[job[p].order], bps, FeeRate) = E!Terms(PriceOf[job[p].order], bps, FeeRate)
    BY DEF Terms, CalculateCommission, CalculatePlatformFee, ResolveCommissionRate, Share, DefaultCommission,
           E!Terms, E!CalculateCommission, E!CalculatePlatformFee, E!ResolveCommissionRate, E!Share, E!DefaultCommission
  <1>7. settled' = [settled EXCEPT ![job[p].order] = E!Terms(PriceOf[job[p].order], bps, FeeRate)]
    BY <1>1, <1>5, <1>6
  <1>. QED  BY <1>1, <1>2, <1>4, <1>7 DEF E!Earn

\* A payout is marked as paid: the balance covers it, and the balance is what was
\* earned less what was paid.
LEMMA PaymentImplements ==
  ASSUME Known, Credited, Earning, NEW y \in Payout, MarkDriverPayoutPaid(y)
  PROVE  E!Pay(y, payouts[y].driver, payouts[y].park, payouts[y].amount)
         /\ payouts[y].driver \in Driver /\ payouts[y].park \in Park /\ payouts[y].amount \in Amounts
  <1>. DEFINE d == payouts[y].driver
              k == payouts[y].park
              amount == payouts[y].amount
  <1>1. /\ payouts[y] # None /\ payouts[y].status # "paid" /\ payouts' = [payouts EXCEPT ![y].status = "paid"]
        /\ balance[d][k] >= amount /\ settled' = settled /\ status' = status
    BY DEF MarkDriverPayoutPaid, Payable, Covered
  <1>2. /\ payouts' \in [Payout -> PayoutRow \union {None}]
        /\ payouts'[y] # None /\ payouts'[y].status = "paid" /\ payouts'[y].amount = amount
        /\ payouts'[y].driver = d /\ payouts'[y].park = k
        /\ \A z \in Payout \ {y} : payouts'[z] = payouts[z]
    BY <1>1, PayoutGoesOn
  <1>3. d \in Driver /\ k \in Park /\ amount \in Nat
    <2>1. payouts[y] \in PayoutRow
      BY <1>1 DEF Known, Tables
    <2>. QED  BY <2>1 DEF PayoutRow
  <1>4. amount \in Amounts /\ amount > 0
    BY <1>1 DEF Earning, Asked
  <1>5. E!PaidOut(d, k) + amount <= E!Income(d, k)
    <2>1. E!Income(d, k) = Income(d, k) /\ E!PaidOut(d, k) = PaidOut(d, k)
      BY SameSums
    <2>2. Income(d, k) \in Int /\ PaidOut(d, k) \in Int
      BY SumsAreInt
    <2>3. balance[d][k] = Income(d, k) - PaidOut(d, k)
      BY <1>3 DEF Credited
    <2>. HIDE DEF d, k, amount
    <2>. QED  BY <1>1, <1>3, <2>1, <2>2, <2>3
  <1>6. PaidRow(payouts[y]) = None
    BY <1>1 DEF PaidRow
  <1>7. PaidRow(payouts'[y]) = [driver |-> d, park |-> k, amount |-> amount]
    BY <1>2 DEF PaidRow
  <1>8. \A z \in Payout \ {y} : PaidRow(payouts'[z]) = PaidRow(payouts[z])
    BY <1>2
  <1>. HIDE DEF d, k, amount
  <1>9. [z \in Payout |-> PaidRow(payouts'[z])] =
          [[z \in Payout |-> PaidRow(payouts[z])] EXCEPT ![y] = [driver |-> d, park |-> k, amount |-> amount]]
    BY <1>7, <1>8
  <1>10. E!Pay(y, d, k, amount)
    BY <1>1, <1>4, <1>5, <1>6, <1>9 DEF E!Pay
  <1>. QED  BY <1>3, <1>4, <1>10 DEF d, k, amount

LEMMA EarningsStep ==
  ASSUME Known, Credited, Earning, [Next]_vars
  PROVE  [E!Next]_(E!vars)
  <1>1. ASSUME status' = status, settled' = settled, payouts' = payouts  PROVE UNCHANGED E!vars
    BY <1>1, Stutters
  <1>2. CASE \E p \in Proc, o \in Order : CompleteOrder(p, o)
    BY <1>2, CompletionImplements DEF E!Next
  <1>3. CASE \E p \in Proc : CommitSettlement(p)
    <2>1. PICK p \in Proc : CommitSettlement(p)
      BY <1>3
    <2>2. job[p].order \in Order /\ E!Earn(job[p].order)
      BY <2>1, CommitFacts, CommitImplements
    <2>. QED  BY <2>2 DEF E!Next
  <1>4. CASE \E y \in Payout : MarkDriverPayoutPaid(y)
    BY <1>4, PaymentImplements DEF E!Next
  <1>5. ASSUME NEW p \in Proc,
               TakeSnapshot(p) \/ BeginSettlement(p) \/ PostSettlement(p) \/ Answer(p) \/ Fail(p)
        PROVE  UNCHANGED E!vars
    BY <1>1, <1>5 DEF TakeSnapshot, BeginSettlement, PostSettlement, Answer, Fail
  <1>6. ASSUME NEW p \in Proc, Bill(p)  PROVE UNCHANGED E!vars
    <2>1. status' = status /\ settled' = settled /\ payouts' = payouts
      BY <1>6 DEF Bill, SumAccruals, CreateTaxiParkPlatformInvoice, BeginInvoicePayment, PostInvoicePayment,
           MarkAdminPlatformInvoicePaid
    <2>. QED  BY <1>1, <2>1
  <1>7. ASSUME NEW k \in Park, NEW bps \in Rates, UpdateTaxiParkDriverCommission(k, bps)  PROVE UNCHANGED E!vars
    BY <1>1, <1>7 DEF UpdateTaxiParkDriverCommission
  <1>8. ASSUME NEW y \in Payout, NEW d \in Driver, NEW k \in Park, NEW amount \in Amounts, CreateDriverPayout(y, d, k, amount)
        PROVE  UNCHANGED E!vars
    <2>. DEFINE row == [driver |-> d, park |-> k, amount |-> amount, status |-> "created"]
    <2>1. /\ payouts[y] = None /\ payouts' = [payouts EXCEPT ![y] = row] /\ row.status = "created"
          /\ status' = status /\ settled' = settled
      BY <1>8 DEF CreateDriverPayout
    <2>. HIDE DEF row
    <2>2. payouts'[y] = row /\ \A z \in Payout \ {y} : payouts'[z] = payouts[z]
      BY <2>1 DEF Known, Tables
    <2>3. PaidRow(payouts'[y]) = None /\ PaidRow(payouts[y]) = None
      BY <2>1, <2>2 DEF PaidRow
    <2>. QED  BY <2>1, <2>2, <2>3, Stutters
  <1>9. ASSUME NEW y \in Payout, ApproveDriverPayout(y)  PROVE UNCHANGED E!vars
    <2>1. /\ payouts[y] # None /\ payouts[y].status # "paid" /\ payouts' = [payouts EXCEPT ![y].status = "approved"]
          /\ status' = status /\ settled' = settled
      BY <1>9 DEF ApproveDriverPayout, Payable
    <2>2. payouts'[y].status = "approved" /\ \A z \in Payout \ {y} : payouts'[z] = payouts[z]
      BY <2>1, PayoutGoesOn
    <2>3. PaidRow(payouts'[y]) = None /\ PaidRow(payouts[y]) = None
      BY <2>1, <2>2 DEF PaidRow
    <2>. QED  BY <2>1, <2>2, <2>3, Stutters
  <1>10. CASE UNCHANGED vars
    BY <1>1, <1>10 DEF vars
  <1>. QED  BY <1>2, <1>3, <1>4, <1>5, <1>6, <1>7, <1>8, <1>9, <1>10 DEF Next, Settle, PayOut

(* Every behaviour of finance is one of the abstract specification: an order *)
(* earns once, when it is completed and at a commission of its park, and no   *)
(* payout takes more than was earned, although the code compares it with a    *)
(* balance that settlements and payouts write (CreateOrderSettlement,         *)
(* MarkDriverPayoutPaid).                                                     *)
THEOREM FinanceImplementsEarnings == Spec => ImplementsEarnings
  <1>1. Init => Known /\ Credited /\ Earning /\ E!Init
    BY KnownInit, CreditedInit, EarningInit, EarningsInit
  <1>2. Known /\ Credited /\ Earning /\ [Next]_vars => Known' /\ Credited' /\ Earning'
    BY KnownStep, CreditedStep, EarningStep
  <1>3. Known /\ Credited /\ Earning /\ [Next]_vars => [E!Next]_(E!vars)
    BY EarningsStep
  <1>. QED  BY <1>1, <1>2, <1>3, PTL DEF Spec, ImplementsEarnings, E!Spec
=============================================================================
