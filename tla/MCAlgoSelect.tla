--------------------------- MODULE MCAlgoSelect ---------------------------
(* Calls for TLC, with one double per vector: widths 1 and 2 exist for 4     *)
(* latitudes, 1 to 3 for 5 and 6. A configuration without FFT has several    *)
(* threads when it is a clone of one with more orders.                       *)
EXTENDS AlgoSelect, TLC

CONSTANTS p1, p2

Shape(nphi, nlat, nthreads, flags, scalar, keep) ==
  [nphi |-> nphi, nlat |-> nlat, nthreads |-> nthreads,
   flags |-> flags, scalar |-> scalar, keep |-> keep]

MCCall == {Shape(4, 6, 3, "auto", TRUE, TRUE), Shape(4, 4, 1, "gauss", FALSE, TRUE),
           Shape(1, 4, 2, "reg_poles", FALSE, TRUE),
           Shape(4, 5, 3, "gauss", FALSE, TRUE)}
MCTyp == {"syn", "gsp", "gto"}
Processes == Permutations(Process)
=============================================================================
