-------------------------- MODULE MCOmpTransform --------------------------
(* Three threads, two fields, orders 0 to 2 on the fewest longitudes: with   *)
(* the full truncation there is no row to zero, with llim = 3 there are two, *)
(* with llim = 0 all but the one of order 0, whose degree 1 is kept.         *)
EXTENDS FlyTransform

(* In place, transposed, and transposed with the input kept. *)
BatchModes == {{}, {"FFT_OOP"}, {"FFT_OOP", "FFT_OOP_ANALYS"}}
=============================================================================
