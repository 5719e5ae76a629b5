------------------------------ MODULE MCLocal ------------------------------
(* Two configurations, two latitudes, two or four longitudes: two degrees of *)
(* the first order, or all degrees of both.                                  *)
EXTENDS Local, TLC

CONSTANTS c1, c2, x1, x2, b1, b2, orthonormal

LocalSymmetry == Permutations({c1, c2}) \cup Permutations({x1, x2}) \cup Permutations({b1, b2})

Part == [lmax |-> 2, mmax |-> 1, mres |-> 1]
LocalSize == {Part}

Calls == {[nphi |-> 2, ltr |-> 1, mtr |-> 1], [nphi |-> 4, ltr |-> 2, mtr |-> 1]}
=============================================================================
