--------------------------- MODULE MCConfigShare ---------------------------
(* Small instances of ConfigShare: three configurations of two truncations   *)
(* and two normalisations that borrow each other's tables, and two           *)
(* configurations that are cloned, re-gridded and destroyed in any order.    *)
EXTENDS ConfigShare, TLC

CONSTANTS c1, c2, c3, orthonormal, schmidt

ConfigSymmetry == Permutations({c1, c2, c3})

(* Same degree, one with all its orders and one axisymmetric; the full one   *)
(* has rotation tables, and its axisymmetric clone may have nphi = 1.        *)
Full == [lmax |-> 1, mmax |-> 1, mres |-> 1]
Part == [lmax |-> 2, mmax |-> 1, mres |-> 1]
Axi == [lmax |-> 2, mmax |-> 0, mres |-> 1]
Half == [lmax |-> 2, mmax |-> 1, mres |-> 2]

ShareSize == {Part, Axi, Half}
GridSize == {Full}
VectorOrAxi == {[vector |-> TRUE, fft |-> TRUE], [vector |-> FALSE, fft |-> FALSE]}
=============================================================================
