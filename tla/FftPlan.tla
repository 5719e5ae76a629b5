------------------------------ MODULE FftPlan ------------------------------
(* The Fourier transforms of real fields: how shtns_set_grid_auto lays out   *)
(* the spatial fields of a batch, which FFTW plans planFFT makes for that    *)
(* layout, and whether these plans transform the columns the Legendre        *)
(* kernels write and read. An address counts real numbers from the start of  *)
(* an array. FFTW does what its plans say.                                   *)
EXTENDS Integers

CONSTANTS
  Mmax,      \* the greatest orders a configuration may have
  Nlat,      \* the numbers of latitudes that are asked
  Nphi,      \* the numbers of longitudes that are asked
  Howmany,   \* the batch sizes that are asked
  Pad,       \* what SHTNS_PAD may add to a row when padding is allowed
  NoPlan

ASSUME PlanAssumption ==
  /\ Mmax \subseteq Nat
  /\ Nlat \subseteq Nat \ {0} /\ Nphi \subseteq Nat \ {0}
  /\ Howmany \subseteq Nat \ {0}
  /\ Pad \subseteq Int

VARIABLES
  mmax,         \* the greatest order of the configuration
  howmany,      \* the batch size
  nlat, nphi,   \* the size of the grid
  layout,       \* the flags the caller gave for the last grid with nphi > 1
  nlat_padded,  \* the stride between longitudes, padding included
  nspat,        \* the real numbers of the spatial arrays, 0 while no grid is set
  spat_dist,    \* the distance between two fields of a batch
  k_stride_a, m_stride_a,  \* the strides of latitudes and orders in an analysis
  fft_mode,     \* how transforms use the plans, a set of flags
  fftc, ifftc   \* the plans of analyses and of syntheses

vars == <<mmax, howmany, nlat, nphi, layout, nlat_padded, nspat, spat_dist,
          k_stride_a, m_stride_a, fft_mode, fftc, ifftc>>

Flag == {"SHT_ALLOW_PADDING", "SHT_PHI_CONTIGUOUS", "SHT_DESTROY_SPAT"}
Mode == {"FFT_THETA_CONTIG", "FFT_PHI_CONTIG_SPLIT", "FFT_OOP", "FFT_OOP_ANALYS",
         "FFT_PHI_CONTIG_ODD", "FFT_THETA_CONTIG_ODD"}
-----------------------------------------------------------------------------
(* One side of a plan: element k of transform j of field b is at address     *)
(* unit * (k*stride + j*dist + b*field), its imaginary part at part further. *)
Side == [unit : {1, 2}, stride : Int, dist : Int, field : Int, part : Int]
At(s, k, j, b) == s.unit * (k * s.stride + j * s.dist + b * s.field)

(* A plan: many * fields transforms between a spatial and a Fourier array.   *)
Plan == [space : Side, fourier : Side, many : Nat, fields : Nat, in_place : BOOLEAN]

(* fftw_plan_many_dft: one loop of transforms, the same strides on each side. *)
ManyDft(stride, many, in_place) ==
  LET s == [unit |-> 2, stride |-> stride, dist |-> 1, field |-> 0, part |-> 1]
  IN  [space |-> s, fourier |-> s, many |-> many, fields |-> 1, in_place |-> in_place]

(* The batch is a second loop (fftw_plan_guru_dft). *)
GuruDft(h, stride, many, field) ==
  LET s == [unit |-> 2, stride |-> stride, dist |-> 1, field |-> field, part |-> 1]
  IN  [space |-> s, fourier |-> s, many |-> many, fields |-> h, in_place |-> TRUE]

(* Real and imaginary parts are two latitudes, a row apart in space. *)
GuruSplitDft(h, lat, phi, field, ostride, odist) ==
  [space |-> [unit |-> 1, stride |-> 1, dist |-> 2 * phi, field |-> field, part |-> phi],
   fourier |-> [unit |-> 1, stride |-> ostride, dist |-> odist, field |-> field, part |-> 1],
   many |-> lat \div 2, fields |-> h, in_place |-> FALSE]

(* Real to complex and back, for an odd number of latitudes.                 *)
RealDft(lat, phi_inc, theta_inc) ==
  [space |-> [unit |-> 1, stride |-> phi_inc, dist |-> theta_inc, field |-> 0, part |-> 0],
   fourier |-> [unit |-> 2, stride |-> lat, dist |-> 1, field |-> 0, part |-> 1],
   many |-> lat, fields |-> 1, in_place |-> FALSE]
-----------------------------------------------------------------------------
(* What planFFT decides, for lat latitudes and phi > 1 longitudes. *)
Odd(lat) == lat % 2 = 1
Transposed(f) == "SHT_PHI_CONTIGUOUS" \in f
Destroys(f) == "SHT_DESTROY_SPAT" \in f

(* Mutant: an analysis is told to work in place whatever its plan. *)
FftModeInPlace(lat, f) ==
  IF Odd(lat)
  THEN {"FFT_OOP", IF Transposed(f) THEN "FFT_PHI_CONTIG_ODD" ELSE "FFT_THETA_CONTIG_ODD"}
  ELSE IF Transposed(f) THEN {"FFT_PHI_CONTIG_SPLIT", "FFT_OOP"} ELSE {"FFT_THETA_CONTIG"}

FftMode(lat, f) ==
  IF Odd(lat)
  THEN {"FFT_OOP", IF Transposed(f) THEN "FFT_PHI_CONTIG_ODD" ELSE "FFT_THETA_CONTIG_ODD"}
  ELSE (IF Transposed(f) THEN {"FFT_PHI_CONTIG_SPLIT", "FFT_OOP"} ELSE {"FFT_THETA_CONTIG"})
         \cup IF Destroys(f) THEN {} ELSE {"FFT_OOP_ANALYS"}

(* Mutant: the fields of a batch follow each other in the loop of transforms. *)
SynthesisPlanOneLoop(h, lat, phi, f, padded) ==
  IF Odd(lat)
  THEN RealDft(lat, IF Transposed(f) THEN 1 ELSE padded, IF Transposed(f) THEN phi ELSE 1)
  ELSE IF Transposed(f)
  THEN GuruSplitDft(h, lat, phi, phi * lat, lat, 2)
  ELSE ManyDft(padded \div 2, (lat \div 2) * h, TRUE)

SynthesisPlan(h, lat, phi, f, padded) ==
  IF Odd(lat)
  THEN RealDft(lat, IF Transposed(f) THEN 1 ELSE padded, IF Transposed(f) THEN phi ELSE 1)
  ELSE IF Transposed(f)
  THEN GuruSplitDft(h, lat, phi, phi * lat, lat, 2)
  ELSE IF h = 1
  THEN ManyDft(padded \div 2, lat \div 2, TRUE)
  ELSE GuruDft(h, padded \div 2, lat \div 2, (padded \div 2) * phi)

(* Mutant: the transposed output of the legacy analysis.                     *)
AnalysisPlanLegacy(h, lat, phi, f, padded) ==
  IF Odd(lat)
  THEN SynthesisPlan(h, lat, phi, f, padded)
  ELSE IF Transposed(f)
  THEN GuruSplitDft(h, lat, phi, phi * lat, lat, 2)
  ELSE IF Destroys(f)
  THEN SynthesisPlan(h, lat, phi, f, padded)
  ELSE ManyDft(padded \div 2, (lat \div 2) * h, FALSE)

AnalysisPlan(h, lat, phi, f, padded) ==
  IF Odd(lat)
  THEN SynthesisPlan(h, lat, phi, f, padded)
  ELSE IF Transposed(f)
  THEN GuruSplitDft(h, lat, phi, phi * lat, 2, 2 * phi)
  ELSE IF Destroys(f)
  THEN SynthesisPlan(h, lat, phi, f, padded)
  ELSE ManyDft(padded \div 2, (lat \div 2) * h, FALSE)

(* The size of a field, padding included; transposed fields have none.       *)
Distance(lat, phi, f, padded) ==
  IF Transposed(f) /\ phi > 1 THEN phi * lat ELSE phi * padded
-----------------------------------------------------------------------------
(* Mutant: the batch size is taken at any time. *)
shtns_set_many_anytime(h) ==
  /\ howmany' = h
  /\ UNCHANGED <<mmax, nlat, nphi, layout, nlat_padded, nspat, spat_dist,
                 k_stride_a, m_stride_a, fft_mode, fftc, ifftc>>

shtns_set_many(h) ==
  /\ nspat = 0
  /\ howmany' = h
  /\ UNCHANGED <<mmax, nlat, nphi, layout, nlat_padded, nspat, spat_dist,
                 k_stride_a, m_stride_a, fft_mode, fftc, ifftc>>

(* The program stops if there are too few longitudes, or several fields with *)
(* an odd number of latitudes: that of the grid before this one, or, unless  *)
(* there is one longitude, of this one. With one longitude there is no       *)
(* Fourier transform, and older plans stay. A padding that leaves nothing of *)
(* a row, for which there is nothing to allocate, is not modelled.           *)
shtns_set_grid_auto(lat, phi, f, pad) ==
  LET padded == IF "SHT_ALLOW_PADDING" \in f /\ phi > 1 THEN lat + pad ELSE lat
      split == Transposed(f) /\ ~ Odd(lat) /\ phi > 1
  IN  /\ phi > 2 * mmax
      /\ padded > 0
      /\ howmany # 1 => ~ Odd(nlat) /\ (~ Odd(lat) \/ phi = 1)
      /\ nlat' = lat /\ nphi' = phi
      /\ spat_dist' = Distance(lat, phi, f, padded)
      /\ nspat' = Distance(lat, phi, f, padded) * howmany
      /\ nlat_padded' = IF Transposed(f) /\ phi > 1 THEN lat ELSE padded
      /\ k_stride_a' = IF split THEN phi ELSE 1
      /\ m_stride_a' = IF split THEN 2 ELSE padded
      /\ IF phi = 1
         THEN fft_mode' = {} /\ UNCHANGED <<layout, fftc, ifftc>>
         ELSE /\ layout' = f
              /\ fft_mode' = FftMode(lat, f)
              /\ ifftc' = SynthesisPlan(howmany, lat, phi, f, padded)
              /\ fftc' = AnalysisPlan(howmany, lat, phi, f, padded)
      /\ UNCHANGED <<mmax, howmany>>

(* Mutant: the batch is cleared with the grid it was for. *)
shtns_unset_grid_batch ==
  /\ nlat' = 0 /\ nphi' = 0 /\ nspat' = 0 /\ howmany' = 0
  /\ UNCHANGED <<mmax, layout, nlat_padded, spat_dist, k_stride_a, m_stride_a,
                 fft_mode, fftc, ifftc>>

shtns_unset_grid ==
  /\ nlat' = 0 /\ nphi' = 0 /\ nspat' = 0
  /\ UNCHANGED <<mmax, howmany, layout, nlat_padded, spat_dist, k_stride_a, m_stride_a,
                 fft_mode, fftc, ifftc>>

Init ==
  /\ mmax \in Mmax
  /\ howmany = 1
  /\ nlat = 0 /\ nphi = 0 /\ layout = {}
  /\ nlat_padded = 0 /\ nspat = 0 /\ spat_dist = 0
  /\ k_stride_a = 0 /\ m_stride_a = 0
  /\ fft_mode = {} /\ fftc = NoPlan /\ ifftc = NoPlan

Next ==
  \/ \E h \in Howmany : shtns_set_many(h)
  \/ \E lat \in Nlat, phi \in Nphi, f \in SUBSET Flag, pad \in Pad :
       shtns_set_grid_auto(lat, phi, f, pad)
  \/ shtns_unset_grid

Spec == Init /\ [][Next]_vars
-----------------------------------------------------------------------------
(* Every variable keeps its type. *)
TypeOK ==
  /\ mmax \in Mmax /\ howmany \in Nat \ {0}
  /\ nlat \in Nat /\ nphi \in Nat /\ layout \in SUBSET Flag
  /\ nlat_padded \in Nat /\ nspat \in Nat /\ spat_dist \in Nat
  /\ k_stride_a \in Nat /\ m_stride_a \in Nat
  /\ fft_mode \in SUBSET Mode
  /\ fftc \in Plan \cup {NoPlan} /\ ifftc \in Plan \cup {NoPlan}

Phi == 0 .. nphi - 1
Lat == 0 .. nlat - 1
Batch == 0 .. howmany - 1
Group == IF Odd(nlat) THEN 1 ELSE 2
Pair == 0 .. nlat \div Group - 1
Order == IF Odd(nlat) THEN 0 .. nphi \div 2 ELSE Phi

(* Where the documented layouts have longitude k and latitude i of field b.  *)
Point(b, k, i) ==
  IF Transposed(layout) THEN (b * nlat + i) * nphi + k
                       ELSE (b * nphi + k) * nlat_padded + i

(* Where a synthesis kernel writes, and an analysis kernel reads, order k of *)
(* a pair of latitudes (of a latitude, if their number is odd).              *)
WrittenRow ==
  [b \in Batch |-> [k \in Order |-> [j \in Pair |->
     IF Odd(nlat) THEN 2 * (k * nlat + j)
     ELSE 2 * ((b * spat_dist) \div 2 + k * (nlat_padded \div 2) + j)]]]
ReadRow ==
  [b \in Batch |-> [k \in Order |-> [j \in Pair |->
     IF Odd(nlat) THEN 2 * (k * nlat + j)
     ELSE b * spat_dist + k * m_stride_a + 2 * j * k_stride_a]]]

(* The columns a plan transforms; the columns the fields of a batch have.    *)
Column(p, j, b) ==
  [space |-> [k \in Phi |-> At(p.space, k, j, b)], space_part |-> p.space.part,
   fourier |-> [k \in Order |-> At(p.fourier, k, j, b)], fourier_part |-> p.fourier.part]
FieldColumn(row, j, b) ==
  [space |-> [k \in Phi |-> Point(b, k, Group * j)],
   space_part |-> Point(b, 0, Group * j + Group - 1) - Point(b, 0, Group * j),
   fourier |-> [k \in Order |-> row[b][k][j]], fourier_part |-> 1]
Columns(p) == {Column(p, j, b) : j \in 0 .. p.many - 1, b \in 0 .. p.fields - 1}
FieldColumns(row) == {FieldColumn(row, j, b) : j \in Pair, b \in Batch}

(* Plans and kernels halve the stride of pairs of latitudes: a padding that  *)
(* is odd puts them beside the documented places. One that is negative makes *)
(* neighbouring longitudes overlap. Both are what SHTNS_PAD may ask for.     *)
EvenRows == Odd(nlat) \/ nlat_padded % 2 = 0
WholeRows == nlat_padded >= nlat

(* Whatever the layout and the batch, and the padding if it is even, a       *)
(* synthesis transforms the rows its kernel wrote into the documented        *)
(* places, all and only these.                                               *)
SynthesisPlanned ==
  nspat # 0 /\ fft_mode # {} /\ EvenRows => Columns(ifftc) = FieldColumns(WrittenRow)

(* The same of an analysis of one field, in place, or of transposed fields:  *)
(* its kernel reads what the plan wrote.                                     *)
AnalysisOfFieldPlanned ==
  /\ nspat # 0 /\ fft_mode # {} /\ EvenRows
  /\ howmany = 1 \/ Destroys(layout) \/ Transposed(layout)
  => Columns(fftc) = FieldColumns(ReadRow)

(* FFTW only lets a plan be executed in place if it was planned in place:    *)
(* the flags by which a transform chooses its array say so of both plans.    *)
PlacesAgree ==
  nspat # 0 /\ fft_mode # {} =>
    /\ ifftc.in_place <=> "FFT_OOP" \notin fft_mode
    /\ fftc.in_place <=> fft_mode \cap {"FFT_OOP", "FFT_OOP_ANALYS"} = {}

(* A grid has room for the batch it was set for, and keeps that batch: the   *)
(* fields are all in the array the caller is told to allocate, side by side, *)
(* unless a padding is negative: then the array is smaller than its rows.    *)
FieldsFit ==
  nspat # 0 =>
    /\ nspat = howmany * spat_dist
    /\ WholeRows => \A b \in Batch, k \in Phi, i \in Lat :
         Point(b, k, i) \in b * spat_dist .. (b + 1) * spat_dist - 1

(* Mutant: the rows are taken without their padding. *)
WeightedUnpadded(s) ==
  LET i == IF s.south THEN nlat - 1 - s.it ELSE s.it
  IN  IF k_stride_a = 1 THEN s.ip * nlat + i ELSE s.ip + i * k_stride_a

(* adjoint_spat_to_SH multiplies what a synthesis left by the weights: each  *)
(* step, the point of one longitude that weight s.it is for, from the north  *)
(* or from the south.                                                        *)
Half == 0 .. (nlat + 1) \div 2 - 1
AdjointStep == [ip : Phi, it : Half, south : BOOLEAN]
Weighted(s) ==
  LET i == IF s.south THEN nlat - 1 - s.it ELSE s.it
  IN  IF k_stride_a = 1 THEN s.ip * nlat_padded + i ELSE s.ip + i * k_stride_a

(* In every layout, one step and one only multiplies each point of a field,  *)
(* with the weight of its latitude. (For one field and an even number of     *)
(* latitudes, and rows that do not overlap: the loops do not go through a    *)
(* batch, and meet at the equator.)                                          *)
AdjointWeighted ==
  nspat # 0 /\ howmany = 1 /\ ~ Odd(nlat) /\ WholeRows =>
    \A k \in Phi, i \in Lat :
      {s \in AdjointStep : Weighted(s) = Point(0, k, i)} =
        {[ip |-> k, it |-> IF 2 * i < nlat THEN i ELSE nlat - 1 - i, south |-> 2 * i >= nlat]}

(* Inductive: while a grid is set, everything about it is what one call of   *)
(* shtns_set_grid_auto decided, for the batch size there is.                 *)
GridInv ==
  nspat # 0 =>
    /\ nlat > 0 /\ nphi > 0
    /\ nspat = howmany * spat_dist
    /\ spat_dist = Distance(nlat, nphi, layout, nlat_padded)
    /\ nphi = 1 => nlat_padded = nlat
    /\ fft_mode = {} => nphi = 1 /\ k_stride_a = 1
PlansInv ==
  nspat # 0 /\ fft_mode # {} =>
    /\ nphi > 1
    /\ Odd(nlat) => howmany = 1
    /\ Transposed(layout) => nlat_padded = nlat
    /\ fft_mode = FftMode(nlat, layout)
    /\ ifftc = SynthesisPlan(howmany, nlat, nphi, layout, nlat_padded)
    /\ fftc = AnalysisPlan(howmany, nlat, nphi, layout, nlat_padded)
    /\ k_stride_a = (IF Transposed(layout) /\ ~ Odd(nlat) THEN nphi ELSE 1)
    /\ ~ Transposed(layout) => m_stride_a = nlat_padded
    /\ Transposed(layout) /\ ~ Odd(nlat) => m_stride_a = 2
PlanInv == TypeOK /\ GridInv /\ PlansInv
-----------------------------------------------------------------------------
(* "data[(i_batch*shtns->nphi + i_phi)*shtns->nlat_padded + i_theta]", says   *)
(* shtns_set_many of the fields of a batch: an analysis transforms these.    *)
AnalysisPlanned ==
  nspat # 0 /\ fft_mode # {} /\ EvenRows => Columns(fftc) = FieldColumns(ReadRow)
=============================================================================
