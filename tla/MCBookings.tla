---------------------------- MODULE MCBookings ----------------------------
(* An instance of bookings for TLC: two parks, one of them with a second    *)
(* tariff of a lower rank and the driver, and one passenger.                 *)
EXTENDS Bookings, TLC

CONSTANTS u1, d1, d2, k1, k2, t1, t2, t3, o1, o2, q1, q2, p1, p2

Measured(perKm, perMinute) ==
  [mode |-> "distance_time", fixed |-> 0, base |-> 10000, minimum |-> 15000,
   perKm |-> perKm, perMinute |-> perMinute]

MCDriverPark == [d \in Driver |-> IF d = d1 THEN k1 ELSE k2]
MCTariffPark == (t1 :> k1) @@ (t2 :> k1) @@ (t3 :> k2)
MCPriority == (t1 :> 2) @@ (t2 :> 1) @@ (t3 :> 1)
MCTermsOf == (t1 :> Measured(2000, 500)) @@ (t2 :> Measured(3000, 0))
             @@ (t3 :> [Measured(0, 0) EXCEPT !.mode = "fixed", !.fixed = 25000])
MCReach == {{k1}, {k1, k2}}
MCOtherTerms == [t \in Tariff |-> IF t = t1 THEN {Measured(2500, 501)} ELSE {}]

Symmetry == Permutations(Quote) \union Permutations(Order) \union Permutations(Proc)
=============================================================================
