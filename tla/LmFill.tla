------------------------------ MODULE LmFill ------------------------------
(* The loop of shtns_create that fills the arrays li and mi: one entry for   *)
(* each coefficient (l, m), order after order. Everything else in the        *)
(* library computes the position of a coefficient with the closed formulas   *)
(* of LmIndex, so the loop and the formulas must agree, and a configuration  *)
(* that borrows the arrays of another one must find its own entries first.   *)
EXTENDS LmIndex

CONSTANTS
  Truncation,  \* the truncations that are asked
  ShortMax,    \* the greatest unsigned short: lmax and mres are stored in one
  IntMax       \* the greatest int

ASSUME TruncationAssumption ==
  \A s \in Truncation : /\ s \in [lmax : Nat, mmax : Nat, mres : Nat]
                        /\ ValidSize(s.lmax, s.mmax, s.mres)

ASSUME WidthAssumption ==
  ShortMax \in Nat /\ IntMax \in Nat /\ IntMax >= 3 * ShortMax + 2

VARIABLES
  size,  \* the truncation of the configuration
  li,    \* degree of each position, -1 where nothing is written yet
  mi,    \* order of each position, -1 where nothing is written yet
  lm,    \* the position that is written next
  im,    \* order index of the outer loop
  l,     \* degree of the inner loop
  pc     \* "fill", "done", or "error" where shtns_create stops the program

vars == <<size, li, mi, lm, im, l, pc>>

(* Mutant: the degrees below the order of each coefficient are counted too. *)
NlmSquare == (size.mmax + 1) * (size.lmax + 1)

nlm == nlm_calc(size.lmax, size.mmax, size.mres)

nlm_cplx == 2 * nlm - (size.lmax + 1)

Init ==
  /\ size \in Truncation
  /\ li = [k \in 0 .. nlm - 1 |-> -1]
  /\ mi = [k \in 0 .. nlm - 1 |-> -1]
  /\ lm = 0 /\ im = 0 /\ l = 0
  /\ pc = "fill"

(* Mutant: mi holds the order index instead of the order. *)
FillOneIndex ==
  /\ pc = "fill" /\ l <= size.lmax
  /\ li' = [li EXCEPT ![lm] = l]
  /\ mi' = [mi EXCEPT ![lm] = im]
  /\ lm' = lm + 1
  /\ l' = l + 1
  /\ UNCHANGED <<size, im, pc>>

FillOne ==
  /\ pc = "fill" /\ l <= size.lmax
  /\ li' = [li EXCEPT ![lm] = l]
  /\ mi' = [mi EXCEPT ![lm] = im * size.mres]
  /\ lm' = lm + 1
  /\ l' = l + 1
  /\ UNCHANGED <<size, im, pc>>

(* Mutants: an order starts at degree im, or one order too many is filled. *)
NextOrderAtIndex ==
  /\ pc = "fill" /\ l > size.lmax /\ im < size.mmax
  /\ im' = im + 1
  /\ l' = im + 1
  /\ UNCHANGED <<size, li, mi, lm, pc>>
NextOrderPast ==
  /\ pc = "fill" /\ l > size.lmax /\ im <= size.mmax
  /\ im' = im + 1
  /\ l' = (im + 1) * size.mres
  /\ UNCHANGED <<size, li, mi, lm, pc>>

NextOrder ==
  /\ pc = "fill" /\ l > size.lmax /\ im < size.mmax
  /\ im' = im + 1
  /\ l' = (im + 1) * size.mres
  /\ UNCHANGED <<size, li, mi, lm, pc>>

(* The test after the loop: shtns_runerr("unexpected error"). *)
Finish ==
  /\ pc = "fill" /\ l > size.lmax /\ im = size.mmax
  /\ pc' = IF lm # nlm THEN "error" ELSE "done"
  /\ UNCHANGED <<size, li, mi, lm, im, l>>

Next == FillOne \/ NextOrder \/ Finish

Spec == Init /\ [][Next]_vars
-----------------------------------------------------------------------------
(* Every variable keeps its type; the loops stay in the orders and degrees   *)
(* of the truncation.                                                        *)
TypeOK ==
  /\ size \in Truncation
  /\ li \in [0 .. nlm - 1 -> Int]
  /\ mi \in [0 .. nlm - 1 -> Int]
  /\ lm \in Nat /\ im \in 0 .. size.mmax
  /\ l \in im * size.mres .. size.lmax + 1
  /\ pc \in {"fill", "done", "error"}

(* The internal check has compared the two counts when the loop is done. *)
DoneIsFull == pc = "done" => lm = nlm

(* The loop counts like the macro: the running position is LiM(l, im) at     *)
(* every step, from the first degree of an order to one past its last.       *)
AtLiM == lm = LiM(size.lmax, size.mres, l, im)

(* No entry is written past the nlm entries the arrays have. *)
InBounds == pc = "fill" /\ l <= size.lmax => lm < nlm

(* The internal check of the loop never stops the program. *)
NoUnexpectedError == pc # "error"

(* An entry that is written holds the degree and the order whose position it *)
(* is by LM, so the arrays invert the macro, and an order of this truncation.*)
Inverse ==
  \A k \in 0 .. lm - 1 :
    /\ mi[k] \in 0 .. size.mmax * size.mres
    /\ mi[k] % size.mres = 0
    /\ li[k] \in mi[k] .. size.lmax
    /\ LM(size.lmax, size.mres, li[k], mi[k]) = k

(* The inverse with a square root finds the order the loop wrote there. *)
RootAgrees ==
  \A k \in 0 .. lm - 1 :
    im_from_lm(k, size.lmax, size.mres) * size.mres = mi[k]

(* shtns_create accepts what fits an unsigned short; LiM computes in ints.   *)
(* As long as lmax * (lmax + 1) is an int (lmax up to 46340), nothing LiM    *)
(* computes on its way overflows, whatever the order and its step.           *)
LiMFits ==
  /\ size.lmax <= ShortMax /\ size.mres <= ShortMax
  /\ size.lmax * (size.lmax + 1) <= IntMax
  /\ l <= size.lmax
  => LiMSteps(size.lmax, size.mres, l, im) \subseteq -IntMax - 1 .. IntMax

(* A configuration with fewer orders, which borrows these arrays, finds its  *)
(* own coefficients at its own positions, all of them and no other.          *)
BorrowersFit ==
  pc = "done" =>
    \A mm \in 0 .. size.mmax : \A k \in 0 .. nlm - 1 :
      mi[k] <= mm * size.mres <=> k < nlm_calc(size.lmax, mm, size.mres)

(* Inductive: what each step of the loop relies on and restores. *)
FillInv == TypeOK /\ AtLiM /\ NoUnexpectedError /\ DoneIsFull /\ Inverse

(* "= nlm_cplx_calc(lmax, mmax, mres)", says shtns_create of its nlm_cplx. *)
CplxCount == nlm_cplx = nlm_cplx_calc(size.lmax, size.mmax, size.mres)
=============================================================================
