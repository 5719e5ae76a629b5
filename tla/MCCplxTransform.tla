-------------------------- MODULE MCCplxTransform --------------------------
(* Degrees up to 3 and orders up to 2: the last degree is truncated. Two     *)
(* threads share three orders, three have one each; there is one row to zero.*)
EXTENDS CplxTransform

BothPlaces == {[oop |-> FALSE], [oop |-> TRUE]}
=============================================================================
