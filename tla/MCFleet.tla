------------------------------ MODULE MCFleet ------------------------------
(* Instances of the parks' drivers for TLC.                                 *)
EXTENDS Fleet, TLC

CONSTANTS d1, t1, t2, o1, i1, i2, p1, p2, c1

\* The only car is the first park's.
FleetCarPark == c1 :> t1

Symmetric == Permutations({i1, i2}) \union Permutations({p1, p2})
=============================================================================
