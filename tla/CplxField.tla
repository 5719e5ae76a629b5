----------------------------- MODULE CplxField -----------------------------
(* What the transforms of complex-valued fields promise: alm[l, m] is the    *)
(* coefficient of degree l and order m, of either sign, and the field z is   *)
(* the sum of its coefficients.                                              *)
EXTENDS CplxValues

VARIABLES
  alm,  \* the coefficients of the caller
  z     \* his spatial field

Init == alm = FullSpec /\ z = LostField

(* The caller fills his spectral array. *)
FillSpec == alm' = FullSpec /\ UNCHANGED z

SH_to_spat_cplx == z' = Evaluated(alm) /\ UNCHANGED alm

(* An analysis in place destroys its input. *)
spat_cplx_to_SH == alm' = Expanded(z) /\ z' \in {z, LostField}

Next == FillSpec \/ SH_to_spat_cplx \/ spat_cplx_to_SH

Spec == Init /\ [][Next]_<<alm, z>>
=============================================================================
