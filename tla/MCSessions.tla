----------------------------- MODULE MCSessions -----------------------------
(* An instance of sessions for TLC.                                         *)
EXTENDS Sessions, TLC

CONSTANTS u, c, t1, t2, t3, p1, p2

Symmetric == Permutations({t1, t2, t3}) \union Permutations({p1, p2})
=============================================================================
