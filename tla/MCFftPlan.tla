----------------------------- MODULE MCFftPlan -----------------------------
(* Grids of eight latitudes, the fewest vector builds accept, or of nine,    *)
(* with one longitude or with an even or odd number; batches of up to three  *)
(* fields. Two orders need five longitudes. Paddings of SHTNS_PAD are even,  *)
(* odd, or negative.                                                         *)
EXTENDS FftPlan

Padding == {-2, 0, 1, 2}
=============================================================================
