----------------------------- MODULE MCDispatch -----------------------------
(* Instances of dispatch for TLC: the model values, and the permutations    *)
(* under which requests and drivers are interchangeable.                    *)
EXTENDS DispatchRefinement, TLC

CONSTANTS o1, o2, d1, d2, h1, h2, w, w2, tm, r

Handling == Permutations({h1, h2})

Symmetry == Handling \union Permutations({d1, d2})
=============================================================================
