------------------------------- MODULE Fields -------------------------------
(* Spectral and spatial fields, as far as a transform moves data: numbers    *)
(* are left out, a value is the set of the coefficients it was computed      *)
(* from, and the discrete Fourier transform loses nothing, so a spatial      *)
(* field is given by its Fourier rows.                                       *)
EXTENDS Integers

CONSTANTS
  lmax, mmax, mres,  \* the truncation
  nphi,              \* the number of longitudes, and of Fourier rows
  howmany,           \* the number of fields of a batch
  Llim               \* the degrees callers truncate at

ASSUME SizeAssumption ==
  /\ lmax \in Nat \ {0} /\ mmax \in Nat /\ mres \in Nat \ {0}
  /\ mmax * mres <= lmax
  /\ nphi \in Nat /\ nphi > 2 * mmax /\ nphi > 1
  /\ howmany \in Nat \ {0}
  /\ Llim \subseteq 0 .. lmax

Batch == 0 .. howmany - 1
Order == 0 .. mmax
Row == 0 .. nphi - 1

(* Coefficient l of order im of the field b the caller gave. *)
Coef == {<<b, im, l>> : b \in Batch, im \in Order, l \in 0 .. lmax}

(* Memory nobody wrote: it is not made of coefficients. *)
Unknown == {<<-1, -1, -1>>}
Value == (SUBSET Coef) \cup {Unknown}

Full == [b \in Batch |-> [im \in Order |-> {<<b, im, l>> : l \in im * mres .. lmax}]]
Lost == [b \in Batch |-> [r \in Row |-> Unknown]]

(* What a synthesis sums of an order: the degrees up to llim, and of order 0 *)
(* degrees 0 and 1 at least, which its kernel takes before it compares.      *)
Summed(v, llim) == {c \in v : c[3] <= llim \/ (c[2] = 0 /\ c[3] = 1)}

(* What an analysis computes of an order; the other degrees are zeroed.      *)
Truncated(v, llim) == {c \in v : c[3] <= llim}

(* The last order that has a degree up to llim. *)
imlim(llim) == IF mmax * mres > llim THEN llim \div mres ELSE mmax

(* Orders are synthesised in two rows each, the other rows are zero. *)
Synthesised(s, llim) ==
  [b \in Batch |-> [r \in Row |->
     IF r <= imlim(llim) THEN Summed(s[b][r], llim)
     ELSE IF r >= nphi - imlim(llim) THEN Summed(s[b][nphi - r], llim)
     ELSE {}]]

(* An order is analysed from its two rows, which must be of the same field.  *)
Paired(rows, im) ==
  IF im = 0 \/ rows[im] = rows[nphi - im] THEN rows[im] ELSE Unknown

Analysed(f, llim) ==
  [b \in Batch |-> [im \in Order |->
     IF im <= imlim(llim) THEN Truncated(Paired(f[b], im), llim) ELSE {}]]
=============================================================================
