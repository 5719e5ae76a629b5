--------------------------- MODULE OmpTransform ---------------------------
(* The multi-threaded transforms: a parallel region of two loops without a   *)
(* barrier between them, whose iterations are handed out dynamically, and a  *)
(* Fourier transform by the calling thread after the region (synthesis) or   *)
(* before it (analysis). The scalar transform of a field in the default      *)
(* layout stands for the others, which do the same on more arrays; the       *)
(* adjoint flag of llim is not set.                                          *)
EXTENDS Fields

CONSTANTS
  Thread,    \* the threads of the team
  FftMode    \* the values of shtns->fft_mode, as sets of flags

ASSUME ThreadAssumption == Thread # {}

ASSUME ModeAssumption == FftMode \subseteq SUBSET {"FFT_OOP", "FFT_OOP_ANALYS"}

VARIABLES
  spec,      \* Qlm, the caller's spectral array
  V,         \* Vr, the caller's spatial array
  W,         \* the array allocated for an out-of-place transform
  fft_mode,  \* the flags of the configuration
  call,      \* "none", "synthesis" or "analysis"
  llim,      \* the truncation of the call
  stage,     \* "fft", "region" or (FlyTransform) "fly": what the call is doing
  next,      \* the next iteration of the first loop
  zero,      \* the next iteration of the second loop
  th         \* th[t]: where thread t is, and in which iteration

vars == <<spec, V, W, fft_mode, call, llim, stage, next, zero, th>>

(* A spatial array holds values on the grid or on the Fourier rows. *)
Array == [domain : {"grid", "fourier"}, row : [Batch -> [Row -> Value]]]

(* The Fourier transform of a whole batch, to the other representation. *)
Fourier(a, domain) ==
  [domain |-> domain, row |-> IF a.domain = domain THEN Lost ELSE a.row]

OutOfPlace(c) ==
  \/ "FFT_OOP" \in fft_mode
  \/ c = "analysis" /\ "FFT_OOP_ANALYS" \in fft_mode

(* BrF, the array the region works on. *)
BrF == IF OutOfPlace(call) THEN W ELSE V
SetBrF(a) ==
  IF OutOfPlace(call) THEN W' = a /\ UNCHANGED V ELSE V' = a /\ UNCHANGED W

lim == imlim(llim)
Idle == [at |-> "out", im |-> 0, b |-> 0]
Goto(t, where, im, b) == th' = [th EXCEPT ![t] = [at |-> where, im |-> im, b |-> b]]
EnterRegion ==
  /\ stage' = "region"
  /\ next' = 0
  /\ th' = [t \in Thread |-> [at |-> "loop1", im |-> 0, b |-> 0]]
-----------------------------------------------------------------------------
(* The caller, between two calls. *)
Fill ==
  /\ call = "none"
  /\ spec' = Full
  /\ UNCHANGED <<V, W, fft_mode, call, llim, stage, next, zero, th>>

(* Mutant: the zeroed rows start at the last order that was synthesised. *)
ZeroStartEarly(l) == imlim(l)
ZeroStart(l) == imlim(l) + 1

SH_to_spat_omp_a(l) ==
  /\ call = "none"
  /\ call' = "synthesis"
  /\ llim' = l
  /\ EnterRegion
  /\ zero' = ZeroStart(l)
  /\ IF OutOfPlace("synthesis")
     THEN W' = [domain |-> "fourier", row |-> Lost] /\ UNCHANGED V
     ELSE V' = [V EXCEPT !.domain = "fourier"] /\ UNCHANGED W
  /\ UNCHANGED <<spec, fft_mode>>

spat_to_SH_omp_a(l) ==
  /\ call = "none"
  /\ call' = "analysis"
  /\ llim' = l
  /\ stage' = "fft"
  /\ UNCHANGED <<spec, V, W, fft_mode, next, zero, th>>

(* The analysis starts with the Fourier transform, into BrF. FftPlan shows   *)
(* when planFFT planned it for the columns of the fields: not if there are   *)
(* several fields and only the analysis is out of place.                     *)
Planned == howmany = 1 \/ fft_mode # {"FFT_OOP_ANALYS"}
ForwardFft ==
  /\ call = "analysis" /\ stage = "fft"
  /\ SetBrF(IF Planned THEN Fourier(V, "fourier")
                       ELSE [domain |-> "fourier", row |-> Lost])
  /\ EnterRegion
  /\ zero' = 0
  /\ UNCHANGED <<spec, fft_mode, call, llim>>
-----------------------------------------------------------------------------
(* First loop of a synthesis, over orders and fields together. *)
TakeOrder(t) ==
  /\ call = "synthesis" /\ th[t].at = "loop1"
  /\ next < (lim + 1) * howmany
  /\ next' = next + 1
  /\ Goto(t, "low", next \div howmany, next % howmany)
  /\ UNCHANGED <<spec, V, W, fft_mode, call, llim, stage, zero>>

WriteLow(t) ==
  LET im == th[t].im
      b == th[t].b
  IN  /\ th[t].at = "low"
      /\ SetBrF([BrF EXCEPT !.row[b][im] = Summed(spec[b][im], llim)])
      /\ IF im = 0 THEN Goto(t, "loop1", 0, 0) ELSE Goto(t, "high", im, b)
      /\ UNCHANGED <<spec, fft_mode, call, llim, stage, next, zero>>

WriteHigh(t) ==
  LET im == th[t].im
      b == th[t].b
  IN  /\ th[t].at = "high"
      /\ SetBrF([BrF EXCEPT !.row[b][nphi - im] = Summed(spec[b][im], llim)])
      /\ Goto(t, "loop1", 0, 0)
      /\ UNCHANGED <<spec, fft_mode, call, llim, stage, next, zero>>

(* First loop of an analysis, over orders; the fields are done in turn. *)
TakeAnalysis(t) ==
  /\ call = "analysis" /\ th[t].at = "loop1"
  /\ next <= lim
  /\ next' = next + 1
  /\ Goto(t, "analyse", next, 0)
  /\ UNCHANGED <<spec, V, W, fft_mode, call, llim, stage, zero>>

Analyse(t) ==
  LET im == th[t].im
      b == th[t].b
  IN  /\ th[t].at = "analyse"
      /\ spec' = [spec EXCEPT ![b][im] = Truncated(Paired(BrF.row[b], im), llim)]
      /\ IF b + 1 < howmany THEN Goto(t, "analyse", im, b + 1)
                            ELSE Goto(t, "loop1", 0, 0)
      /\ UNCHANGED <<V, W, fft_mode, call, llim, stage, next, zero>>

(* nowait: a thread goes on to the second loop when no iteration is left. *)
LeaveLoop1(t) ==
  /\ th[t].at = "loop1"
  /\ IF call = "synthesis" THEN next = (lim + 1) * howmany ELSE next > lim
  /\ Goto(t, "loop2", 0, 0)
  /\ UNCHANGED <<spec, V, W, fft_mode, call, llim, stage, next, zero>>
-----------------------------------------------------------------------------
(* Mutant: the number of zeroed rows is one short for each omitted order. *)
RowsLeftShort == nphi - 1 > 2 * lim /\ zero < nphi - lim - 1

(* Second loop of a synthesis: the rows no order was written to are zeroed. *)
RowsLeft == nphi - 1 > 2 * lim /\ zero < nphi - lim

TakeZero(t) ==
  /\ call = "synthesis" /\ th[t].at = "loop2"
  /\ RowsLeft
  /\ zero' = zero + 1
  /\ Goto(t, "zero", zero, 0)
  /\ UNCHANGED <<spec, V, W, fft_mode, call, llim, stage, next>>

(* Mutant: the loop over the fields goes on with the same field. *)
ZeroRowAgain(t) ==
  LET im == th[t].im
      b == th[t].b
  IN  /\ th[t].at = "zero"
      /\ SetBrF([BrF EXCEPT !.row[b][im] = {}])
      /\ IF b + 1 < howmany THEN Goto(t, "zero", im, b)
                            ELSE Goto(t, "loop2", 0, 0)
      /\ UNCHANGED <<spec, fft_mode, call, llim, stage, next, zero>>

ZeroRow(t) ==
  LET im == th[t].im
      b == th[t].b
  IN  /\ th[t].at = "zero"
      /\ SetBrF([BrF EXCEPT !.row[b][im] = {}])
      /\ IF b + 1 < howmany THEN Goto(t, "zero", im, b + 1)
                            ELSE Goto(t, "loop2", 0, 0)
      /\ UNCHANGED <<spec, fft_mode, call, llim, stage, next, zero>>

(* Mutant: one field too many is zeroed. *)
FieldsLeftPast == lim < mmax /\ zero <= howmany

(* Second loop of an analysis: the orders that were left out are zeroed. *)
FieldsLeft == lim < mmax /\ zero < howmany

TakeField(t) ==
  /\ call = "analysis" /\ th[t].at = "loop2"
  /\ FieldsLeft
  /\ zero' = zero + 1
  /\ Goto(t, "zerospec", lim + 1, zero)
  /\ UNCHANGED <<spec, V, W, fft_mode, call, llim, stage, next>>

(* From LiM(lim + 1) to the end of the field. *)
ZeroSpec(t) ==
  LET b == th[t].b
  IN  /\ th[t].at = "zerospec"
      /\ spec' = [spec EXCEPT ![b] =
                    [im \in Order |-> IF im >= th[t].im THEN {} ELSE spec[b][im]]]
      /\ Goto(t, "loop2", 0, 0)
      /\ UNCHANGED <<V, W, fft_mode, call, llim, stage, next, zero>>

LeaveLoop2(t) ==
  /\ th[t].at = "loop2"
  /\ IF call = "synthesis" THEN ~ RowsLeft ELSE ~ FieldsLeft
  /\ Goto(t, "out", 0, 0)
  /\ UNCHANGED <<spec, V, W, fft_mode, call, llim, stage, next, zero>>

(* The implicit barrier at the end of the region. *)
EndRegion ==
  /\ call # "none" /\ stage = "region"
  /\ \A t \in Thread : th[t].at = "out"
  /\ stage' = "fft"
  /\ call' = IF call = "synthesis" THEN call ELSE "none"
  /\ UNCHANGED <<spec, V, W, fft_mode, llim, next, zero, th>>

(* The synthesis ends with the Fourier transform, from BrF. *)
InverseFft ==
  /\ call = "synthesis" /\ stage = "fft"
  /\ V' = Fourier(BrF, "grid")
  /\ call' = "none"
  /\ UNCHANGED <<spec, W, fft_mode, llim, stage, next, zero, th>>
-----------------------------------------------------------------------------
Init ==
  /\ spec = Full
  /\ V = [domain |-> "grid", row |-> Lost]
  /\ W = [domain |-> "fourier", row |-> Lost]
  /\ fft_mode \in FftMode
  /\ call = "none" /\ llim = lmax /\ stage = "fft"
  /\ next = 0 /\ zero = 0
  /\ th = [t \in Thread |-> Idle]

Step(t) ==
  \/ TakeOrder(t) \/ WriteLow(t) \/ WriteHigh(t)
  \/ TakeAnalysis(t) \/ Analyse(t) \/ LeaveLoop1(t)
  \/ TakeZero(t) \/ ZeroRow(t)
  \/ TakeField(t) \/ ZeroSpec(t) \/ LeaveLoop2(t)

Master == ForwardFft \/ EndRegion \/ InverseFft

Next ==
  \/ Fill
  \/ \E l \in Llim : SH_to_spat_omp_a(l)
  \/ \E l \in Llim : spat_to_SH_omp_a(l)
  \/ \E t \in Thread : Step(t)
  \/ Master

Spec == Init /\ [][Next]_vars

(* The threads of the team all run, and the calling thread goes on. *)
FairSpec == Spec /\ WF_vars(Master) /\ \A t \in Thread : WF_vars(Step(t))
-----------------------------------------------------------------------------
At == {"out", "loop1", "low", "high", "analyse", "loop2", "zero", "zerospec"}

(* Every variable keeps its type; iterations name rows and fields there are. *)
TypeOK ==
  /\ spec \in [Batch -> [Order -> Value]]
  /\ V \in Array /\ W \in Array
  /\ fft_mode \in FftMode
  /\ call \in {"none", "synthesis", "analysis"}
  /\ llim \in 0 .. lmax
  /\ stage \in {"fft", "region", "fly"}
  /\ next \in Nat /\ zero \in Nat
  /\ th \in [Thread -> [at : At, im : Row, b : Batch]]

(* The memory an iteration writes, and what it reads that others may write.  *)
Writes(t) ==
  LET s == th[t]
  IN  CASE s.at = "low" -> {<<"row", s.b, s.im>>}
                             \cup (IF s.im = 0 THEN {} ELSE {<<"row", s.b, nphi - s.im>>})
        [] s.at = "high" -> {<<"row", s.b, nphi - s.im>>}
        [] s.at = "analyse" -> {<<"spec", b, s.im>> : b \in s.b .. howmany - 1}
        [] s.at = "zero" -> {<<"row", b, s.im>> : b \in s.b .. howmany - 1}
        [] s.at = "zerospec" -> {<<"spec", s.b, im>> : im \in s.im .. mmax}
        [] OTHER -> {}

Reads(t) ==
  LET s == th[t]
  IN  CASE s.at \in {"low", "high"} -> {<<"spec", s.b, s.im>>}
        [] s.at = "analyse" -> {<<"row", b, r>> : b \in s.b .. howmany - 1,
                                                  r \in {s.im, nphi - s.im}}
        [] OTHER -> {}

(* Without a barrier between the two loops, and with iterations that write   *)
(* several places, no thread ever writes where another one reads or writes.  *)
NoRace ==
  \A t, u \in Thread :
    t # u => Writes(t) \cap (Writes(u) \cup Reads(u)) = {}

(* Inductive: an iteration that runs was handed out, is within the bounds of *)
(* its loop and belongs to one thread; outside the region all threads are    *)
(* out.                                                                      *)
Granted(s, c, last, n, z) ==
  /\ s.at \in {"low", "high"} =>
       /\ c = "synthesis" /\ s.im \in 0 .. last /\ s.b \in Batch
       /\ s.im * howmany + s.b < n
       /\ s.at = "high" => s.im > 0
  /\ s.at = "analyse" =>
       c = "analysis" /\ s.im \in 0 .. last /\ s.im < n /\ s.b \in Batch
  /\ s.at = "zero" =>
       /\ c = "synthesis" /\ s.im \in last + 1 .. nphi - last - 1
       /\ s.im < z /\ s.b \in Batch
  /\ s.at = "zerospec" =>
       c = "analysis" /\ s.im = last + 1 /\ s.b \in Batch /\ s.b < z
HandedOut(s) == Granted(s, call, lim, next, zero)
Exclusive(s, r) ==
  /\ s.at \in {"low", "high"} /\ r.at \in {"low", "high"} => s.im # r.im \/ s.b # r.b
  /\ s.at = "analyse" /\ r.at = "analyse" => s.im # r.im
  /\ s.at = "zero" /\ r.at = "zero" => s.im # r.im
  /\ s.at = "zerospec" /\ r.at = "zerospec" => s.b # r.b
RegionInv ==
  /\ llim \in 0 .. lmax /\ next \in Nat /\ zero \in Nat
  /\ stage \in {"fft", "region", "fly"}
  /\ call = "synthesis" /\ stage = "region" => zero > lim
  /\ th \in [Thread -> [at : At, im : Int, b : Int]]
  /\ call = "none" \/ stage # "region" => \A t \in Thread : th[t].at = "out"
  /\ \A t \in Thread : HandedOut(th[t])
  /\ \A t, u \in Thread : t # u => Exclusive(th[t], th[u])

(* What the caller is promised, as the abstract transform holds it: during a *)
(* call, the result the call will have.                                      *)
specBar ==
  IF call = "analysis"
  THEN Analysed(IF stage = "fft" THEN Fourier(V, "fourier").row ELSE BrF.row, llim)
  ELSE spec
spatBar ==
  IF call = "synthesis" THEN Synthesised(spec, llim)
  ELSE IF call = "analysis" /\ ~ OutOfPlace(call) THEN Lost
  ELSE IF V.domain = "grid" THEN V.row ELSE Lost

Atomic == INSTANCE Transform WITH spec <- specBar, spat <- spatBar

(* However many threads there are and in whatever order they take their      *)
(* iterations, a call does what the abstract transform does in one step.     *)
Implements == Atomic!Spec

(* Every call returns. *)
Returns == call # "none" ~> call = "none"
=============================================================================
