----------------------------- MODULE CplxValues -----------------------------
(* The values of complex-valued fields, as far as a transform moves data:    *)
(* numbers are left out, a value is the set of the coefficient parts it was  *)
(* computed from. A field is given by the expansions of its longitudinal     *)
(* modes exp(i k phi) on the functions P_l^|k|.                              *)
EXTENDS Integers

CONSTANTS
  lmax, mmax,  \* the truncation (mres is 1)
  nphi         \* the number of longitudes, and of modes

ASSUME CplxSizeAssumption ==
  /\ lmax \in Nat \ {0} /\ mmax \in Nat
  /\ mmax <= lmax
  /\ nphi \in Nat /\ nphi > 2 * mmax /\ nphi > 1

Abs(m) == IF m < 0 THEN -m ELSE m

(* The degrees and orders of a complex field. *)
DegreeOrder == {lm \in (0 .. lmax) \X (-mmax .. mmax) : Abs(lm[2]) <= lm[1]}
Mode == 0 .. nphi - 1

(* <<part, l, m, sign>>: the real or imaginary part of coefficient (l, m),   *)
(* as the caller gave it or with its sign changed.                           *)
Term == {"re", "im"} \X (0 .. lmax) \X (-mmax .. mmax) \X {1, -1}

(* Memory nobody wrote: it is not made of coefficients. *)
Unknown == {<<"?", 0, 0, 0>>}
Value == (SUBSET Term) \cup {Unknown}

Coef(lm) == {<<"re", lm[1], lm[2], 1>>, <<"im", lm[1], lm[2], 1>>}
FullSpec == [lm \in DegreeOrder |-> Coef(lm)]
LostField == [k \in Mode |-> Unknown]

(* A value once multiplied by (-1)^m. *)
Parity(m, v) ==
  IF m % 2 = 0 THEN v ELSE {<<c[1], c[2], c[3], -c[4]>> : c \in v}

(* Y_l^-m is (-1)^m P_l^m exp(-i m phi). *)
Signed(m, v) == IF m < 0 THEN Parity(m, v) ELSE v

OrderOf(k) == IF 2 * k < nphi THEN k ELSE k - nphi

(* A value that depends on one that is unknown is unknown. *)
Sum(V) == IF Unknown \in V THEN Unknown ELSE UNION V

(* What a mode holds of degree l. *)
Projected(v, l) == IF v = Unknown THEN Unknown ELSE {c \in v : c[2] = l}

Evaluated(a) ==
  [k \in Mode |->
     LET m == OrderOf(k)
     IN  IF Abs(m) <= mmax THEN Signed(m, Sum({a[<<l, m>>] : l \in Abs(m) .. lmax}))
                           ELSE {}]

Expanded(f) ==
  [lm \in DegreeOrder |->
     Signed(lm[2], Projected(f[IF lm[2] < 0 THEN nphi + lm[2] ELSE lm[2]], lm[1]))]
=============================================================================
