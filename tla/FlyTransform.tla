--------------------------- MODULE FlyTransform ---------------------------
(* The sequential transforms (fly), beside the multi-threaded ones: the      *)
(* table of functions of a configuration may hold either of them, for each   *)
(* of synthesis and analysis, so a caller's calls mix them on the same       *)
(* arrays. Order after order, a sequential transform goes through the batch; *)
(* what it leaves out it zeroes at the end, and so does an analysis.         *)
EXTENDS OmpTransform

(* SH_to_spat_fly begins: the array of an out-of-place transform is new.     *)
SH_to_spat_fly(l) ==
  /\ call = "none"
  /\ call' = "synthesis" /\ stage' = "fly"
  /\ llim' = l /\ next' = 0
  /\ IF OutOfPlace("synthesis")
     THEN W' = [domain |-> "fourier", row |-> Lost] /\ UNCHANGED V
     ELSE V' = [V EXCEPT !.domain = "fourier"] /\ UNCHANGED W
  /\ UNCHANGED <<spec, fft_mode, zero, th>>

(* Order im = next of every field: two rows each, one for order 0. *)
FlyOrder ==
  /\ call = "synthesis" /\ stage = "fly" /\ next <= lim
  /\ SetBrF([BrF EXCEPT !.row =
       [b \in Batch |-> [r \in Row |->
          IF r = next \/ r = nphi - next THEN Summed(spec[b][next], llim)
                                      ELSE BrF.row[b][r]]]])
  /\ next' = next + 1
  /\ UNCHANGED <<spec, fft_mode, call, llim, stage, zero, th>>

(* "padding for high m's"; InverseFft follows.                               *)
FlyZeroRows ==
  /\ call = "synthesis" /\ stage = "fly" /\ next > lim
  /\ SetBrF([BrF EXCEPT !.row =
       [b \in Batch |-> [r \in Row |->
          IF r > lim /\ r < nphi - lim THEN {} ELSE BrF.row[b][r]]]])
  /\ stage' = "fft"
  /\ UNCHANGED <<spec, fft_mode, call, llim, next, zero, th>>

(* spat_to_SH_fly begins with the Fourier transform. *)
spat_to_SH_fly(l) ==
  LET a == IF Planned THEN Fourier(V, "fourier")
                      ELSE [domain |-> "fourier", row |-> Lost]
  IN  /\ call = "none"
      /\ call' = "analysis" /\ stage' = "fly"
      /\ llim' = l /\ next' = 0
      /\ IF OutOfPlace("analysis") THEN W' = a /\ UNCHANGED V ELSE V' = a /\ UNCHANGED W
      /\ UNCHANGED <<spec, fft_mode, zero, th>>

FlyAnalyse ==
  /\ call = "analysis" /\ stage = "fly" /\ next <= lim
  /\ spec' = [b \in Batch |->
       [spec[b] EXCEPT ![next] = Truncated(Paired(BrF.row[b], next), llim)]]
  /\ next' = next + 1
  /\ UNCHANGED <<V, W, fft_mode, call, llim, stage, zero, th>>

(* "zero out m > imlim", and the call returns.                               *)
FlyZeroSpec ==
  /\ call = "analysis" /\ stage = "fly" /\ next > lim
  /\ spec' = [b \in Batch |-> [im \in Order |-> IF im > lim THEN {} ELSE spec[b][im]]]
  /\ call' = "none" /\ stage' = "fft"
  /\ UNCHANGED <<V, W, fft_mode, llim, next, zero, th>>
-----------------------------------------------------------------------------
Sequential == FlyOrder \/ FlyZeroRows \/ FlyAnalyse \/ FlyZeroSpec

FlyNext ==
  \/ Next
  \/ \E l \in Llim : SH_to_spat_fly(l) \/ spat_to_SH_fly(l)
  \/ Sequential

FlySpec == Init /\ [][FlyNext]_vars

(* As FairSpec, and the thread of a sequential call goes on, too. *)
FlyFairSpec ==
  /\ FlySpec
  /\ WF_vars(Master) /\ WF_vars(Sequential)
  /\ \A t \in Thread : WF_vars(Step(t))
-----------------------------------------------------------------------------
(* Rows, and orders, that have no result yet: nobody took their iteration,   *)
(* or the thread that took it has still to write there.                      *)
RowUntaken(b, r) ==
  \/ r <= lim /\ r * howmany + b >= next
  \/ r >= nphi - lim /\ (nphi - r) * howmany + b >= next
  \/ r > lim /\ r < nphi - lim /\ r >= zero
RowPending(b, r) == RowUntaken(b, r) \/ \E t \in Thread : <<"row", b, r>> \in Writes(t)

OrderUntaken(b, im) ==
  \/ im <= lim /\ im >= next
  \/ im > lim /\ b >= zero
OrderPending(b, im) == OrderUntaken(b, im) \/ \E t \in Thread : <<"spec", b, im>> \in Writes(t)

RowDone(b, r) == BrF.row[b][r] = Synthesised(spec, llim)[b][r]
OrderDone(b, im) == spec[b][im] = Analysed(BrF.row, llim)[b][im]

(* Inductive: what is not pending is done; a thread leaves a loop when there *)
(* is nothing left of it; the Fourier transform comes when all is done.      *)
SynthesisInv ==
  call = "synthesis" =>
    /\ BrF.domain = "fourier"
    /\ stage = "fft" => \A b \in Batch, r \in Row : RowDone(b, r)
    /\ stage = "fly" => \A b \in Batch, r \in Row :
                          (r <= lim /\ r < next) \/ (r >= nphi - lim /\ nphi - r < next)
                            => RowDone(b, r)
    /\ stage = "region" =>
         /\ \A b \in Batch, r \in Row : RowPending(b, r) \/ RowDone(b, r)
         /\ \A t \in Thread :
              /\ th[t].at \in {"loop2", "zero", "out"} => next >= (lim + 1) * howmany
              /\ th[t].at = "out" => ~ RowsLeft

AnalysisInv ==
  call = "analysis" /\ stage # "fft" =>
    /\ BrF.domain = "fourier"
    /\ stage = "fly" => \A b \in Batch, im \in Order :
                          im <= lim /\ im < next => OrderDone(b, im)
    /\ stage = "region" =>
         /\ \A b \in Batch, im \in Order : OrderPending(b, im) \/ OrderDone(b, im)
         /\ \A t \in Thread :
              /\ th[t].at \in {"loop2", "zerospec", "out"} => next > lim
              /\ th[t].at = "out" => ~ FieldsLeft

ContentInv == TypeOK /\ RegionInv /\ SynthesisInv /\ AnalysisInv

(* Every Fourier transform of an analysis has a plan made for its layout:    *)
(* FftPlan shows which configurations get one.                               *)
AlwaysPlanned == howmany = 1 \/ {"FFT_OOP_ANALYS"} \notin FftMode
=============================================================================
