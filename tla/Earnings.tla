------------------------------ MODULE Earnings ------------------------------
(***************************************************************************)
(* What completion, settlement and payouts promise about the money of      *)
(* drivers and parks, without balances, ledgers, locks or requests: a      *)
(* completed order earns once, its price split at a commission its park    *)
(* may have set, and a park pays a driver no more than the driver has      *)
(* earned in it.  Module Finance implements it.                            *)
(***************************************************************************)
EXTENDS Fares, Functions

CONSTANTS Order, Driver, Park, Payout, NoPark, None, DriverOf, ParkOf, PriceOf, Rates, FeeRate, Amounts

VARIABLES
    done,       \* the orders that are completed
    earned,     \* what each order has earned, if anything
    paid        \* the payouts made

vars == <<done, earned, paid>>

Init ==
    /\ done = {}
    /\ earned = [o \in Order |-> None]
    /\ paid = [y \in Payout |-> None]

\* What a driver has earned in a park, and what the park has paid of it.
Income(d, k) ==
    SumFunction([o \in {o \in Order : earned[o] # None /\ DriverOf[o] = d /\ ParkOf[o] = k} |->
                   earned[o].net])

PaidOut(d, k) ==
    SumFunction([y \in {y \in Payout : paid[y] # None /\ paid[y].driver = d /\ paid[y].park = k} |->
                   paid[y].amount])

\* An order without a park has no commission set.
Commissions(o) == IF ParkOf[o] \in Park THEN Rates ELSE {0}

Complete(o) ==
    /\ done' = done \union {o}
    /\ UNCHANGED <<earned, paid>>

Earn(o) ==
    /\ o \in done
    /\ earned[o] = None
    /\ \E bps \in Commissions(o) : earned' = [earned EXCEPT ![o] = Terms(PriceOf[o], bps, FeeRate)]
    /\ UNCHANGED <<done, paid>>

Pay(y, d, k, amount) ==
    /\ paid[y] = None
    /\ amount > 0
    /\ PaidOut(d, k) + amount <= Income(d, k)
    /\ paid' = [paid EXCEPT ![y] = [driver |-> d, park |-> k, amount |-> amount]]
    /\ UNCHANGED <<done, earned>>

Next ==
    \/ \E o \in Order : Complete(o) \/ Earn(o)
    \/ \E y \in Payout, d \in Driver, k \in Park, amount \in Amounts : Pay(y, d, k, amount)

Spec == Init /\ [][Next]_vars
=============================================================================
