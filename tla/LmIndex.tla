------------------------------ MODULE LmIndex ------------------------------
(* The index arithmetic of spherical-harmonic arrays: how many coefficients *)
(* a truncation (lmax, mmax, mres) has, where coefficient (l, m) is stored,  *)
(* and which order an index belongs to. Orders m are multiples of mres and   *)
(* im = m / mres; storage is by increasing im, then by increasing l.         *)
EXTENDS Integers

(* The truncations shtns_create accepts (it stops the program otherwise). *)
ValidSize(lmax, mmax, mres) ==
  /\ lmax \in Nat \ {0}
  /\ mmax \in Nat
  /\ mres \in Nat \ {0}
  /\ mmax * mres <= lmax

(* Number of (l, m) pairs of a real field. *)
nlm_calc(lmax, mmax, mres) ==
  LET mm == IF mmax * mres > lmax THEN lmax \div mres ELSE mmax
  IN  (mm + 1) * (lmax + 1) - ((mm * mres) * (mm + 1)) \div 2

(* Number of (l, m) pairs of a complex field (orders of both signs). *)
nlm_cplx_calc(lmax, mmax, mres) ==
  LET mm == IF mmax * mres > lmax THEN lmax \div mres ELSE mmax
  IN  (2 * mm + 1) * (lmax + 1) - (mm * mres) * (mm + 1)

(* Index of degree l and order im * mres; >> 1 is a floored halving. *)
LiM(lmax, mres, l, im) == (im * (2 * lmax + 2 - (im + 1) * mres)) \div 2 + l

(* Mutant: the product is distributed. *)
LiMStepsDistributed(lmax, mres, l, im) ==
  {im + 1, (im + 1) * mres, 2 * lmax + 2, im * (2 * lmax + 2),
   im * (2 * lmax + 2 - (im + 1) * mres), LiM(lmax, mres, l, im)}

(* The ints LiM computes on its way. *)
LiMSteps(lmax, mres, l, im) ==
  {im + 1, (im + 1) * mres, 2 * lmax + 2, 2 * lmax + 2 - (im + 1) * mres,
   im * (2 * lmax + 2 - (im + 1) * mres), LiM(lmax, mres, l, im)}

(* Index of degree l and order m, the caller's form of LiM. *)
LM(lmax, mres, l, m) ==
  ((m \div mres) * (2 * lmax + 2 - (m + mres))) \div 2 + l

(* Index of (l, m), m of either sign, in a complex array (mres = 1). *)
LM_cplx(mmax, l, m) ==
  IF l <= mmax THEN l * (l + 1) + m
               ELSE mmax * (2 * l - mmax) + l + m

(* The least integer whose square is at least d: what is left of the double  *)
(* sqrt of im_from_lm once its result is truncated (the "+ 1" of the code    *)
(* keeps the square root away from the integers by much more than an ulp).   *)
CeilSqrt(d) == CHOOSE r \in 0 .. d : r * r >= d /\ (r = 0 \/ (r - 1) * (r - 1) < d)

(* Mutant: the order is returned where the order index is asked. *)
im_from_lm_order(lm, lmax, mres) ==
  LET b == 2 * lmax + 2 + mres
  IN  (b - CeilSqrt(b * b - (mres * lm * 8 + 1))) \div 2

(* The order index of position lm. *)
im_from_lm(lm, lmax, mres) ==
  IF mres = 1
  THEN LET b == 2 * lmax + 3
       IN  (b - CeilSqrt(b * b - (lm * 8 + 1))) \div 2
  ELSE LET b == 2 * lmax + 2 + mres
       IN  (b - CeilSqrt(b * b - (mres * lm * 8 + 1))) \div (2 * mres)
=============================================================================
