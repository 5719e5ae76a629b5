----------------------------- MODULE TwoReal -----------------------------
(* A complex field as two real ones: the conversions that the rotations of   *)
(* complex fields make before and after they rotate each of the two. Both    *)
(* walk the real arrays like the loop of LmFill, so that position k has      *)
(* degree li[k] and order mi[k], and the complex array from its order 0 to   *)
(* both sides. (For a step mres of 1; the rotations stop the program for     *)
(* others.) Real and imaginary parts are integers; what the program halves   *)
(* is not halved here, so that a field comes back doubled.                   *)
EXTENDS LmFill

conj(z) == [re |-> z.re, im |-> -z.im]
TimesI(z) == [re |-> -z.im, im |-> z.re]
Plus(y, z) == [re |-> y.re + z.re, im |-> y.im + z.im]
Minus(z) == [re |-> -z.re, im |-> -z.im]
Twice(z) == Plus(z, z)
Signed(m, z) == IF m % 2 = 1 THEN Minus(z) ELSE z

(* The running index ll of order m, at each degree. *)
Running(m) ==
  LET ll[d \in m .. size.lmax] ==
        (IF d = m THEN (m - 1) * m ELSE ll[d - 1])
          + (IF d <= size.mmax THEN 2 * d ELSE 2 * size.mmax + 1)
  IN  ll

Centre(k) == Running(mi[k])[li[k]]

(* Position k of the two real fields, from both sides of the complex one. *)
Split(Zlm, k) ==
  LET m == mi[k]
      z == Twice(Zlm[Centre(k)])
      a == Zlm[Centre(k) + m]
      b == Signed(m, Zlm[Centre(k) - m])
  IN  IF m = 0
      THEN [real |-> [re |-> z.re, im |-> 0], imag |-> [re |-> z.im, im |-> 0]]
      ELSE [real |-> Plus(conj(b), a), imag |-> TimesI(Plus(conj(b), Minus(a)))]

SH_cplx_to_2real(Zlm) == [k \in 0 .. nlm - 1 |-> Split(Zlm, k)]

(* Mutant: the sign of odd orders is not taken back. *)
CombinedUnsigned(F, k) ==
  LET m == mi[k]
      rr == F[k].real
      ii == F[k].imag
  IN  IF m = 0
      THEN {[at |-> Centre(k), value |-> [re |-> rr.re, im |-> ii.re]]}
      ELSE {[at |-> Centre(k) + m, value |-> Plus(rr, TimesI(ii))],
            [at |-> Centre(k) - m, value |-> Plus(conj(rr), TimesI(conj(ii)))]}

(* What is stored of position k, and where. *)
Combined(F, k) ==
  LET m == mi[k]
      rr == F[k].real
      ii == F[k].imag
  IN  IF m = 0
      THEN {[at |-> Centre(k), value |-> [re |-> rr.re, im |-> ii.re]]}
      ELSE {[at |-> Centre(k) + m, value |-> Plus(rr, TimesI(ii))],
            [at |-> Centre(k) - m, value |-> Signed(m, Plus(conj(rr), TimesI(conj(ii))))]}

SH_2real_to_cplx(F) == UNION {Combined(F, k) : k \in 0 .. nlm - 1}
-----------------------------------------------------------------------------
(* A field without a symmetry. *)
Probe == [p \in 0 .. nlm_cplx - 1 |-> [re |-> 2 * p + 1, im |-> -3 - p * p]]

(* A rotation by nothing changes nothing: a complex field that was split in  *)
(* two real ones and combined again is written once at each of its positions,*)
(* at no other, and with its own values there.                               *)
RoundTrip ==
  pc = "done" /\ size.mres = 1 =>
    SH_2real_to_cplx(SH_cplx_to_2real(Probe))
      = {[at |-> p, value |-> Twice(Probe[p])] : p \in 0 .. nlm_cplx - 1}
=============================================================================
