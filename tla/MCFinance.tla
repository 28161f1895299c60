----------------------------- MODULE MCFinance -----------------------------
(* An instance of finance for TLC: two orders of one driver in one park and  *)
(* one of another driver, whom no park owns.                                 *)
EXTENDS FinanceRefinement, TLC

CONSTANTS o1, o2, o3, d1, d2, k1, p1, p2, y1, y2, i1, i2

MCDriverOf == [o \in Order |-> IF o = o3 THEN d2 ELSE d1]
MCParkOf == [o \in Order |-> IF o = o3 THEN NoPark ELSE k1]
MCPriceOf == [o \in Order |-> IF o = o1 THEN 5050 ELSE 10000]
MCPeriods == {<<0, 1>>, <<1, 3>>, <<0, 3>>}

Symmetry == Permutations({p1, p2}) \union Permutations({y1, y2}) \union Permutations({i1, i2})
=============================================================================
