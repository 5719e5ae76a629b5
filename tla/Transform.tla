----------------------------- MODULE Transform -----------------------------
(* What a spherical-harmonic transform promises its caller, whatever the     *)
(* algorithm: in one step, a batch of spectral fields is evaluated on the    *)
(* grid, or a batch of spatial fields is projected on the harmonics, both    *)
(* truncated at degree llim.                                                 *)
EXTENDS Fields

VARIABLES
  spec,  \* spec[b][im]: the coefficients of order im of spectral field b
  spat   \* spat[b][row]: the Fourier row of spatial field b

Init == spec = Full /\ spat = Lost

(* The caller fills his spectral arrays. *)
Fill == spec' = Full /\ UNCHANGED spat

SH_to_spat(llim) == spat' = Synthesised(spec, llim) /\ UNCHANGED spec

(* An analysis in place destroys its input. *)
spat_to_SH(llim) == spec' = Analysed(spat, llim) /\ spat' \in {spat, Lost}

Next == Fill \/ \E llim \in Llim : SH_to_spat(llim) \/ spat_to_SH(llim)

Spec == Init /\ [][Next]_<<spec, spat>>
=============================================================================
