----------------------------- MODULE MCRotation -----------------------------
(* Degrees up to 3 with all orders, or one order less, so that the last      *)
(* degree is truncated; two threads for three degrees. Turns of less than,   *)
(* exactly, and more than a half turn; tilts of a quarter turn or none, and  *)
(* by an axis up to a half turn.                                             *)
EXTENDS Rotation

TwoSizes == {[lmax |-> 3, mmax |-> 2], [lmax |-> 3, mmax |-> 3]}
SomeAngles == {-1, 0, 2, 3}
SomeTilts == {-1, 0}
TwoThreads == {1, 2}
=============================================================================
