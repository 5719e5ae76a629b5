--------------------------- MODULE FftPlan_proofs ---------------------------
(* Proofs about FftPlan: whatever the size of the grid, its layout, its      *)
(* padding and the batch, the plans of planFFT fit the arrays and agree with *)
(* the columns of the fields.                                                *)
EXTENDS FftPlan, TLAPS

(* The plans are plans, whatever they are asked for. *)
LEMMA PlanTypes ==
  ASSUME NEW h \in Nat \ {0}, NEW lat \in Nat \ {0}, NEW phi \in Nat \ {0},
         NEW f \in SUBSET Flag, NEW padded \in Nat
  PROVE  /\ SynthesisPlan(h, lat, phi, f, padded) \in Plan
         /\ AnalysisPlan(h, lat, phi, f, padded) \in Plan
<1>1. lat \div 2 \in Nat /\ padded \div 2 \in Nat /\ 2 * phi \in Nat
  OBVIOUS
<1>2. phi * lat \in Nat /\ (lat \div 2) * h \in Nat /\ (padded \div 2) * phi \in Nat
  BY <1>1
<1> DEFINE half == lat \div 2
           rows == padded \div 2
<1>3. half \in Nat /\ rows \in Nat /\ half * h \in Nat /\ rows * phi \in Nat
  BY <1>1, <1>2
<1>4. ASSUME NEW a \in Nat, NEW b \in Nat
      PROVE  RealDft(lat, a, b) \in Plan
  BY DEF RealDft, Plan, Side
<1>5. ASSUME NEW a \in Nat, NEW b \in Nat
      PROVE  GuruSplitDft(h, lat, phi, phi * lat, a, b) \in Plan
  BY <1>1, <1>2 DEF GuruSplitDft, Plan, Side
<1>6. ASSUME NEW a \in Nat, NEW b \in Nat, NEW c \in BOOLEAN
      PROVE  ManyDft(a, b, c) \in Plan
  BY DEF ManyDft, Plan, Side
<1>7. ASSUME NEW a \in Nat, NEW b \in Nat, NEW c \in Nat
      PROVE  GuruDft(h, a, b, c) \in Plan
  BY DEF GuruDft, Plan, Side
<1>8. SynthesisPlan(h, lat, phi, f, padded) \in Plan
  <2>1. RealDft(lat, IF Transposed(f) THEN 1 ELSE padded,
                     IF Transposed(f) THEN phi ELSE 1) \in Plan
    BY <1>4
  <2>2. GuruSplitDft(h, lat, phi, phi * lat, lat, 2) \in Plan
    BY <1>5
  <2>3. ManyDft(padded \div 2, lat \div 2, TRUE) \in Plan
    BY <1>1, <1>6
  <2>4. GuruDft(h, padded \div 2, lat \div 2, (padded \div 2) * phi) \in Plan
    BY <1>1, <1>2, <1>7
  <2> QED BY <2>1, <2>2, <2>3, <2>4 DEF SynthesisPlan
<1>9. AnalysisPlan(h, lat, phi, f, padded) \in Plan
  <2>1. GuruSplitDft(h, lat, phi, phi * lat, 2, 2 * phi) \in Plan
    BY <1>1, <1>5
  <2>2. ManyDft(padded \div 2, (lat \div 2) * h, FALSE) \in Plan
    BY <1>1, <1>2, <1>6
  <2> QED BY <1>8, <2>1, <2>2 DEF AnalysisPlan
<1> QED BY <1>8, <1>9

(* Distances and modes have their types, and no mode is empty. *)
LEMMA GridTypes ==
  ASSUME NEW lat \in Nat \ {0}, NEW phi \in Nat \ {0},
         NEW f \in SUBSET Flag, NEW padded \in Nat
  PROVE  /\ Distance(lat, phi, f, padded) \in Nat
         /\ FftMode(lat, f) \in SUBSET Mode
         /\ FftMode(lat, f) # {}
<1>1. phi * lat \in Nat /\ phi * padded \in Nat
  OBVIOUS
<1>2. Distance(lat, phi, f, padded) \in Nat
  BY <1>1 DEF Distance
<1>3. FftMode(lat, f) \in SUBSET Mode
  BY DEF FftMode, Mode
<1>4. FftMode(lat, f) # {}
  BY DEF FftMode
<1> QED BY <1>2, <1>3, <1>4
-----------------------------------------------------------------------------
(* The plans do not depend on the padding of a transposed grid.              *)
LEMMA TransposedUnpadded ==
  ASSUME NEW h, NEW lat, NEW phi, NEW f, NEW p, NEW q, Transposed(f)
  PROVE  /\ SynthesisPlan(h, lat, phi, f, p) = SynthesisPlan(h, lat, phi, f, q)
         /\ AnalysisPlan(h, lat, phi, f, p) = AnalysisPlan(h, lat, phi, f, q)
  BY DEF SynthesisPlan, AnalysisPlan

(* Before any grid there is nothing to say of one. *)
LEMMA InitInv == Init => PlanInv
  BY PlanAssumption DEF Init, PlanInv, TypeOK, GridInv, PlansInv

(* The batch size changes only while no grid is set. *)
LEMMA SetManyInv ==
  ASSUME PlanInv, NEW h \in Howmany, shtns_set_many(h)
  PROVE  PlanInv'
  BY PlanAssumption DEF PlanInv, TypeOK, GridInv, PlansInv, shtns_set_many

(* Without its points, a grid is not relied on. *)
LEMMA UnsetInv ==
  ASSUME PlanInv, shtns_unset_grid
  PROVE  PlanInv'
  BY DEF PlanInv, TypeOK, GridInv, PlansInv, shtns_unset_grid

(* A grid that is set is consistent, with one longitude or more. *)
LEMMA SetGridInv ==
  ASSUME PlanInv, NEW lat \in Nlat, NEW phi \in Nphi, NEW f \in SUBSET Flag,
         NEW pad \in Pad, shtns_set_grid_auto(lat, phi, f, pad)
  PROVE  PlanInv'
<1> DEFINE padded == IF "SHT_ALLOW_PADDING" \in f /\ phi > 1 THEN lat + pad ELSE lat
           stride == IF Transposed(f) /\ phi > 1 THEN lat ELSE padded
<1>1. /\ lat \in Nat \ {0} /\ phi \in Nat \ {0}
      /\ pad \in Int /\ padded > 0
      /\ mmax \in Mmax /\ howmany \in Nat \ {0}
  BY PlanAssumption DEF PlanInv, TypeOK, shtns_set_grid_auto
<1>2. padded \in Nat
  BY <1>1
<1>3. stride \in Nat
  BY <1>1, <1>2
<1>4. phi = 1 => padded = lat
  OBVIOUS
<1>5. /\ nlat' = lat /\ nphi' = phi /\ nlat_padded' = stride
      /\ mmax' = mmax /\ howmany' = howmany
      /\ spat_dist' = Distance(lat, phi, f, padded)
      /\ nspat' = Distance(lat, phi, f, padded) * howmany
  BY DEF shtns_set_grid_auto
<1>6. /\ k_stride_a' = (IF Transposed(f) /\ ~ Odd(lat) /\ phi > 1 THEN phi ELSE 1)
      /\ m_stride_a' = (IF Transposed(f) /\ ~ Odd(lat) /\ phi > 1 THEN 2 ELSE padded)
  BY DEF shtns_set_grid_auto
<1>7. CASE phi = 1
  <2>1. fft_mode' = {} /\ layout' = layout /\ fftc' = fftc /\ ifftc' = ifftc
    BY <1>7 DEF shtns_set_grid_auto
  <2>2. Distance(lat, phi, f, padded) \in Nat
    BY <1>1, <1>2, GridTypes
  <2>3. TypeOK'
    <3>1. nspat' \in Nat
      BY <1>1, <1>5, <2>2
    <3> QED BY <1>1, <1>2, <1>3, <1>5, <1>6, <2>1, <2>2, <3>1 DEF PlanInv, TypeOK
  <2>4. GridInv'
    <3>1. Distance(lat, phi, f, padded) = Distance(lat, phi, layout, stride)
      BY <1>4, <1>7 DEF Distance
    <3>2. nspat' = howmany' * spat_dist'
      BY <1>1, <1>5, <2>2
    <3> QED BY <1>1, <1>3, <1>4, <1>5, <1>6, <1>7, <2>1, <3>1, <3>2 DEF GridInv
  <2>5. PlansInv'
    BY <2>1 DEF PlansInv
  <2> QED BY <2>3, <2>4, <2>5 DEF PlanInv
<1>8. CASE phi # 1
  <2>1. /\ fft_mode' = FftMode(lat, f) /\ layout' = f
        /\ ifftc' = SynthesisPlan(howmany, lat, phi, f, padded)
        /\ fftc' = AnalysisPlan(howmany, lat, phi, f, padded)
        /\ Odd(lat) => howmany = 1
    BY <1>8 DEF shtns_set_grid_auto
  <2>2. /\ Distance(lat, phi, f, padded) \in Nat
        /\ FftMode(lat, f) \in SUBSET Mode /\ FftMode(lat, f) # {}
    BY <1>1, <1>2, GridTypes
  <2>3. ifftc' \in Plan /\ fftc' \in Plan
    BY <1>1, <1>2, <2>1, PlanTypes
  <2>4. TypeOK'
    <3>1. nspat' \in Nat
      BY <1>1, <1>5, <2>2
    <3> QED BY <1>1, <1>2, <1>3, <1>5, <1>6, <2>1, <2>2, <2>3, <3>1 DEF TypeOK
  <2>5. phi > 1
    BY <1>1, <1>8
  <2>6. GridInv'
    <3>1. Distance(lat, phi, f, padded) = Distance(lat, phi, f, stride)
      BY <2>5 DEF Distance
    <3>2. nspat' = howmany' * spat_dist'
      BY <1>1, <1>5, <2>2
    <3> QED BY <1>1, <1>3, <1>5, <1>8, <2>1, <2>2, <3>1, <3>2 DEF GridInv
  <2>7. PlansInv'
    <3>1. /\ ifftc' = SynthesisPlan(howmany, lat, phi, f, stride)
          /\ fftc' = AnalysisPlan(howmany, lat, phi, f, stride)
      BY <2>1, <2>5, TransposedUnpadded
    <3> QED BY <1>5, <1>6, <2>1, <2>5, <3>1 DEF PlansInv
  <2> QED BY <2>4, <2>6, <2>7 DEF PlanInv
<1> QED BY <1>7, <1>8

(* What is decided about a grid holds as long as the grid: no call changes   *)
(* the batch or a part of the layout behind it.                              *)
THEOREM PlanInvariant == Spec => []PlanInv
<1>1. ASSUME PlanInv, [Next]_vars PROVE PlanInv'
  <2>1. CASE UNCHANGED vars
    BY <1>1, <2>1 DEF PlanInv, TypeOK, GridInv, PlansInv, vars
  <2>2. CASE \E h \in Howmany : shtns_set_many(h)
    BY <1>1, <2>2, SetManyInv
  <2>3. CASE \E lat \in Nlat, phi \in Nphi, f \in SUBSET Flag, pad \in Pad :
               shtns_set_grid_auto(lat, phi, f, pad)
    BY <1>1, <2>3, SetGridInv
  <2>4. CASE shtns_unset_grid
    BY <1>1, <2>4, UnsetInv
  <2> QED BY <1>1, <2>1, <2>2, <2>3, <2>4 DEF Next
<1> QED BY <1>1, InitInv, PTL DEF Spec

(* Every variable keeps its type. *)
THEOREM PlanTypeCorrect == Spec => []TypeOK
<1>1. PlanInv => TypeOK
  BY DEF PlanInv
<1> QED BY <1>1, PlanInvariant, PTL
-----------------------------------------------------------------------------
(* A transform is told to work in place exactly when its plan is: FFTW       *)
(* leaves anything else undefined.                                           *)
THEOREM PlacesAlwaysAgree == Spec => []PlacesAgree
<1>1. PlanInv => PlacesAgree
  BY DEF PlanInv, PlansInv, PlacesAgree, FftMode, SynthesisPlan, AnalysisPlan,
         RealDft, GuruSplitDft, GuruDft, ManyDft
<1> QED BY <1>1, PlanInvariant, PTL

(* The offset of column i in row k of a field of n rows of s numbers.        *)
LEMMA InField ==
  ASSUME NEW n \in Nat, NEW s \in Nat, NEW k \in 0 .. n - 1, NEW i \in 0 .. s - 1
  PROVE  k * s + i \in 0 .. n * s - 1
<1>1. PICK d \in Nat : n = k + 1 + d
  <2>1. n - (k + 1) \in Nat /\ n = k + 1 + (n - (k + 1))
    OBVIOUS
  <2> QED BY <2>1
<1>2. n * s = k * s + s + d * s
  BY <1>1
<1>3. k * s \in Nat /\ d * s \in Nat
  BY <1>1
<1> QED BY <1>2, <1>3

(* The fields of a batch are in the array, side by side, whatever the layout *)
(* and the padding that does not take from a row.                            *)
THEOREM FieldsAlwaysFit == Spec => []FieldsFit
<1>1. ASSUME PlanInv, nspat # 0, WholeRows, NEW b \in Batch, NEW k \in Phi, NEW i \in Lat
      PROVE  Point(b, k, i) \in b * spat_dist .. (b + 1) * spat_dist - 1
  <2>1. /\ nlat \in Nat /\ nphi \in Nat /\ nlat_padded \in Nat /\ spat_dist \in Nat
        /\ nlat_padded >= nlat /\ b \in Nat /\ k \in 0 .. nphi - 1 /\ i \in 0 .. nlat - 1
        /\ nphi = 1 => nlat_padded = nlat
        /\ spat_dist = Distance(nlat, nphi, layout, nlat_padded)
    BY <1>1 DEF PlanInv, TypeOK, GridInv, Batch, Phi, Lat, WholeRows
  <2>2. (b + 1) * spat_dist = b * spat_dist + spat_dist
    BY <2>1
  <2>3. b * spat_dist \in Nat
    BY <2>1
  <2>4. CASE Transposed(layout)
    <3>1. spat_dist = nlat * nphi
      <4>1. CASE nphi > 1
        BY <2>1, <2>4, <4>1 DEF Distance
      <4>2. CASE nphi = 1
        BY <2>1, <4>2 DEF Distance
      <4> QED BY <2>1, <4>1, <4>2
    <3>2. Point(b, k, i) = b * spat_dist + (i * nphi + k)
      <4>1. b * (nlat * nphi) + i * nphi = (b * nlat + i) * nphi
        BY <2>1
      <4>2. (b * nlat + i) * nphi \in Nat /\ i * nphi \in Nat
        BY <2>1
      <4> QED BY <2>1, <2>3, <2>4, <3>1, <4>1, <4>2 DEF Point
    <3>3. i * nphi + k \in 0 .. nlat * nphi - 1
      BY <2>1, InField
    <3> QED BY <2>1, <2>2, <2>3, <3>1, <3>2, <3>3
  <2>5. CASE ~ Transposed(layout)
    <3>1. spat_dist = nphi * nlat_padded
      BY <2>1, <2>5 DEF Distance
    <3>2. Point(b, k, i) = b * spat_dist + (k * nlat_padded + i)
      <4>1. b * (nphi * nlat_padded) + k * nlat_padded = (b * nphi + k) * nlat_padded
        BY <2>1
      <4>2. (b * nphi + k) * nlat_padded \in Nat /\ k * nlat_padded \in Nat
        BY <2>1
      <4> QED BY <2>1, <2>3, <2>5, <3>1, <4>1, <4>2 DEF Point
    <3>3. k * nlat_padded + i \in 0 .. nphi * nlat_padded - 1
      <4>1. i \in 0 .. nlat_padded - 1
        BY <2>1
      <4> QED BY <2>1, <4>1, InField
    <3> QED BY <2>1, <2>2, <2>3, <3>1, <3>2, <3>3
  <2> QED BY <2>4, <2>5
<1>2. PlanInv => FieldsFit
  BY <1>1 DEF PlanInv, GridInv, FieldsFit
<1> QED BY <1>2, PlanInvariant, PTL
-----------------------------------------------------------------------------
(* Two plans of the same columns, one by one, have the same columns.         *)
LEMMA SameColumns ==
  ASSUME NEW p, NEW row, p.many - 1 = nlat \div Group - 1, p.fields = howmany,
         \A j \in Pair, b \in Batch : Column(p, j, b) = FieldColumn(row, j, b)
  PROVE  Columns(p) = FieldColumns(row)
  BY DEF Columns, FieldColumns, Pair, Batch

(* Two records of the same positions and parts are one column. *)
LEMMA SameColumn ==
  ASSUME NEW p, NEW row, NEW j \in Pair, NEW b \in Batch,
         \A k \in Phi : At(p.space, k, j, b) = Point(b, k, Group * j),
         p.space.part = Point(b, 0, Group * j + Group - 1) - Point(b, 0, Group * j),
         \A k \in Order : At(p.fourier, k, j, b) = row[b][k][j],
         p.fourier.part = 1
  PROVE  Column(p, j, b) = FieldColumn(row, j, b)
  BY DEF Column, FieldColumn

(* What the numbers of a grid are, while it has plans. *)
LEMMA PlannedGrid ==
  ASSUME PlanInv, nspat # 0, fft_mode # {}
  PROVE  /\ nlat \in Nat \ {0} /\ nphi \in Nat \ {0} /\ howmany \in Nat \ {0}
         /\ nlat_padded \in Nat
         /\ spat_dist = IF Transposed(layout) THEN nphi * nlat ELSE nphi * nlat_padded
         /\ Batch \subseteq Nat /\ Phi \subseteq Nat /\ Pair \subseteq Nat /\ Order \subseteq Nat
  BY DEF PlanInv, TypeOK, GridInv, PlansInv, Distance, Batch, Phi, Pair, Order, Group

(* Odd numbers of latitudes: one field, one latitude in each column.         *)
LEMMA OneField ==
  ASSUME PlanInv, nspat # 0, fft_mode # {}, Odd(nlat)
  PROVE  howmany = 1 /\ Group = 1 /\ Batch = {0}
<1>1. howmany = 1
  BY DEF PlanInv, PlansInv
<1>2. Group = 1
  BY DEF Group
<1>3. Batch = {0}
  BY <1>1 DEF Batch
<1> QED BY <1>1, <1>2, <1>3

(* Real transforms of odd grids have the columns of the one field. *)
LEMMA OddColumns ==
  ASSUME PlanInv, nspat # 0, fft_mode # {}, Odd(nlat), NEW row
  PROVE  (\A k \in Order, j \in Pair : row[0][k][j] = 2 * (k * nlat + j)) =>
           Columns(SynthesisPlan(howmany, nlat, nphi, layout, nlat_padded))
             = FieldColumns(row)
<1> DEFINE phi_inc == IF Transposed(layout) THEN 1 ELSE nlat_padded
           theta_inc == IF Transposed(layout) THEN nphi ELSE 1
           p == RealDft(nlat, phi_inc, theta_inc)
<1>1. howmany = 1 /\ Group = 1 /\ Batch = {0}
  BY OneField
<1>2. p.many - 1 = nlat \div Group - 1 /\ p.fields = howmany
  <2>1. nlat \div 1 = nlat
    BY PlannedGrid
  <2>2. p.many = nlat /\ p.fields = 1
    BY DEF RealDft
  <2> QED BY <1>1, <2>1, <2>2
<1>3. ASSUME NEW j \in Pair, NEW k \in Phi PROVE At(p.space, k, j, 0) = Point(0, k, Group * j)
  <2>1. j \in Nat /\ k \in Nat /\ nlat \in Nat /\ nphi \in Nat /\ nlat_padded \in Nat
    BY PlannedGrid
  <2>2. At(p.space, k, j, 0) = 1 * (k * phi_inc + j * theta_inc + 0 * 0)
    BY DEF RealDft, At
  <2>3. Point(0, k, Group * j) = IF Transposed(layout) THEN (0 * nlat + 1 * j) * nphi + k
                                 ELSE (0 * nphi + k) * nlat_padded + 1 * j
    BY <1>1 DEF Point
  <2> QED BY <2>1, <2>2, <2>3
<1>4. ASSUME NEW j \in Pair
      PROVE  p.space.part = Point(0, 0, Group * j + Group - 1) - Point(0, 0, Group * j)
  <2>1. j \in Nat /\ nlat \in Nat /\ nphi \in Nat /\ nlat_padded \in Nat
    BY PlannedGrid
  <2>2. Group * j + Group - 1 = Group * j
    BY <1>1, <2>1
  <2>3. Point(0, 0, Group * j) \in Nat
    BY <1>1, <2>1 DEF Point
  <2>4. p.space.part = 0
    BY DEF RealDft
  <2> QED BY <2>2, <2>3, <2>4
<1>5. ASSUME NEW j \in Pair, NEW k \in Order PROVE At(p.fourier, k, j, 0) = 2 * (k * nlat + j)
  <2>1. j \in Nat /\ k \in Nat /\ nlat \in Nat
    BY PlannedGrid
  <2>2. At(p.fourier, k, j, 0) = 2 * (k * nlat + j * 1 + 0 * 0)
    BY DEF RealDft, At
  <2> QED BY <2>1, <2>2
<1>6. p.fourier.part = 1
  BY DEF RealDft
<1>7. SynthesisPlan(howmany, nlat, nphi, layout, nlat_padded) = p
  BY DEF SynthesisPlan
<1> HIDE DEF p
<1>8. ASSUME \A k \in Order, j \in Pair : row[0][k][j] = 2 * (k * nlat + j)
      PROVE  Columns(p) = FieldColumns(row)
  <2>1. ASSUME NEW j \in Pair PROVE Column(p, j, 0) = FieldColumn(row, j, 0)
    <3>1. \A k \in Order : At(p.fourier, k, j, 0) = row[0][k][j]
      BY <1>5, <1>8
    <3> QED BY <1>1, <1>3, <1>4, <1>6, <3>1, SameColumn
  <2> QED BY <1>1, <1>2, <2>1, SameColumns
<1> QED BY <1>7, <1>8

(* Half of an even number, where the plans and the kernels halve.            *)
LEMMA Halves ==
  ASSUME PlanInv, nspat # 0, fft_mode # {}, EvenRows, ~ Odd(nlat)
  PROVE  /\ Group = 2
         /\ nlat \div 2 \in Nat /\ 2 * (nlat \div 2) = nlat
         /\ nlat_padded \div 2 \in Nat /\ 2 * (nlat_padded \div 2) = nlat_padded
<1>1. nlat \in Nat /\ nlat_padded \in Nat
  BY PlannedGrid
<1>2. nlat % 2 = 0
  BY <1>1 DEF Odd
<1>3. Group = 2
  BY DEF Group
<1>4. nlat_padded % 2 = 0
  BY DEF EvenRows
<1> QED BY <1>1, <1>2, <1>3, <1>4

(* Transposed grids: a pair of latitudes is two rows of a field.             *)
LEMMA SplitColumns ==
  ASSUME PlanInv, nspat # 0, fft_mode # {}, EvenRows, ~ Odd(nlat), Transposed(layout),
         NEW ostride \in Nat, NEW odist \in Nat, NEW row
  PROVE  (\A b \in Batch, k \in Order, j \in Pair :
            row[b][k][j] = b * spat_dist + k * ostride + j * odist) =>
           Columns(GuruSplitDft(howmany, nlat, nphi, nphi * nlat, ostride, odist))
             = FieldColumns(row)
<1> DEFINE p == GuruSplitDft(howmany, nlat, nphi, nphi * nlat, ostride, odist)
<1>1. p.many - 1 = nlat \div Group - 1 /\ p.fields = howmany
  BY Halves DEF GuruSplitDft
<1>2. ASSUME NEW j \in Pair, NEW b \in Batch
      PROVE  /\ \A k \in Phi : At(p.space, k, j, b) = Point(b, k, Group * j)
             /\ p.space.part = Point(b, 0, Group * j + Group - 1) - Point(b, 0, Group * j)
             /\ \A k \in Order :
                  At(p.fourier, k, j, b) = b * spat_dist + k * ostride + j * odist
  <2>1. j \in Nat /\ b \in Nat /\ nlat \in Nat /\ nphi \in Nat /\ spat_dist = nphi * nlat
    BY PlannedGrid
  <2>2. ASSUME NEW k \in Phi PROVE At(p.space, k, j, b) = Point(b, k, Group * j)
    <3>1. k \in Nat
      BY PlannedGrid
    <3>2. At(p.space, k, j, b) = 1 * (k * 1 + j * (2 * nphi) + b * (nphi * nlat))
      BY DEF GuruSplitDft, At
    <3>3. Point(b, k, Group * j) = (b * nlat + 2 * j) * nphi + k
      BY Halves DEF Point
    <3> QED BY <2>1, <3>1, <3>2, <3>3
  <2>3. p.space.part = Point(b, 0, Group * j + Group - 1) - Point(b, 0, Group * j)
    <3>1. /\ Point(b, 0, Group * j + Group - 1) = (b * nlat + (2 * j + 2 - 1)) * nphi + 0
          /\ Point(b, 0, Group * j) = (b * nlat + 2 * j) * nphi + 0
      BY Halves DEF Point
    <3>2. p.space.part = nphi
      BY DEF GuruSplitDft
    <3> QED BY <2>1, <3>1, <3>2
  <2>4. ASSUME NEW k \in Order
        PROVE  At(p.fourier, k, j, b) = b * spat_dist + k * ostride + j * odist
    <3>1. k \in Nat
      BY PlannedGrid
    <3>2. At(p.fourier, k, j, b) = 1 * (k * ostride + j * odist + b * (nphi * nlat))
      BY DEF GuruSplitDft, At
    <3> QED BY <2>1, <3>1, <3>2
  <2> QED BY <2>2, <2>3, <2>4
<1>3. p.fourier.part = 1
  BY DEF GuruSplitDft
<1> HIDE DEF p
<1>4. ASSUME \A b \in Batch, k \in Order, j \in Pair :
               row[b][k][j] = b * spat_dist + k * ostride + j * odist
      PROVE  Columns(p) = FieldColumns(row)
  <2>1. ASSUME NEW j \in Pair, NEW b \in Batch
        PROVE  Column(p, j, b) = FieldColumn(row, j, b)
    <3>1. \A k \in Order : At(p.fourier, k, j, b) = row[b][k][j]
      BY <1>2, <1>4
    <3> QED BY <1>2, <1>3, <3>1, SameColumn
  <2> QED BY <1>1, <2>1, SameColumns
<1> QED BY <1>4 DEF p

(* Native grids: a pair of latitudes is two places of each row; the plans    *)
(* that transform in place, and the one of an analysis out of place.         *)
NativePlan(field, in_place) ==
  LET s == [unit |-> 2, stride |-> nlat_padded \div 2, dist |-> 1, field |-> field, part |-> 1]
  IN  [space |-> s, fourier |-> s, many |-> nlat \div 2, fields |-> howmany,
       in_place |-> in_place]

(* In the default layout, a column is a pair of neighbouring latitudes. *)
LEMMA NativeColumns ==
  ASSUME PlanInv, nspat # 0, fft_mode # {}, EvenRows, ~ Odd(nlat), ~ Transposed(layout),
         NEW field \in Nat, NEW ip, NEW row,
         howmany = 1 \/ field = (nlat_padded \div 2) * nphi
  PROVE  (\A b \in Batch, k \in Order, j \in Pair :
            row[b][k][j] = b * spat_dist + k * nlat_padded + 2 * j) =>
           Columns(NativePlan(field, ip)) = FieldColumns(row)
<1> DEFINE p == NativePlan(field, ip)
           stride == nlat_padded \div 2
<1>0. /\ p.space = [unit |-> 2, stride |-> stride, dist |-> 1, field |-> field, part |-> 1]
      /\ p.fourier = [unit |-> 2, stride |-> stride, dist |-> 1, field |-> field, part |-> 1]
      /\ p.many = nlat \div 2 /\ p.fields = howmany
  BY DEF NativePlan
<1> HIDE DEF p
<1>1. p.many - 1 = nlat \div Group - 1 /\ p.fields = howmany
  BY <1>0, Halves
<1>2. ASSUME NEW j \in Pair, NEW b \in Batch, NEW k \in Nat
      PROVE  /\ At(p.space, k, j, b) = b * spat_dist + k * nlat_padded + 2 * j
             /\ At(p.fourier, k, j, b) = b * spat_dist + k * nlat_padded + 2 * j
  <2>1. /\ j \in Nat /\ b \in Nat /\ nphi \in Nat /\ nlat_padded \in Nat
        /\ spat_dist = nphi * nlat_padded /\ stride \in Nat /\ 2 * stride = nlat_padded
    BY PlannedGrid, Halves
  <2>2. b * field = b * (stride * nphi)
    <3>1. CASE howmany = 1
      <4>1. b = 0
        BY <3>1 DEF Batch
      <4>2. stride * nphi \in Nat
        BY <2>1
      <4>3. 0 * (stride * nphi) = 0 /\ 0 * field = 0
        BY <4>2
      <4> QED BY <4>1, <4>3
    <3>2. CASE field = stride * nphi
      BY <3>2
    <3> QED BY <3>1, <3>2
  <2>3. /\ At(p.space, k, j, b) = 2 * (k * stride + j * 1 + b * field)
        /\ At(p.fourier, k, j, b) = 2 * (k * stride + j * 1 + b * field)
    BY <1>0 DEF At
  <2>4. b * spat_dist = 2 * (b * (stride * nphi))
    <3>1. spat_dist = 2 * (stride * nphi)
      BY <2>1
    <3>2. stride * nphi \in Nat
      BY <2>1
    <3> QED BY <2>1, <3>1, <3>2
  <2>5. k * nlat_padded = 2 * (k * stride)
    BY <2>1
  <2>6. b * (stride * nphi) \in Nat /\ k * stride \in Nat
    BY <2>1
  <2> QED BY <2>1, <2>2, <2>3, <2>4, <2>5, <2>6
<1>3. ASSUME NEW j \in Pair, NEW b \in Batch, NEW k \in Nat, NEW i \in Nat
      PROVE  Point(b, k, i) = b * spat_dist + k * nlat_padded + i
  <2>1. /\ b \in Nat /\ nphi \in Nat /\ nlat_padded \in Nat
        /\ spat_dist = nphi * nlat_padded
    BY PlannedGrid
  <2>2. Point(b, k, i) = (b * nphi + k) * nlat_padded + i
    BY DEF Point
  <2> QED BY <2>1, <2>2
<1>4. ASSUME NEW j \in Pair, NEW b \in Batch
      PROVE  /\ \A k \in Phi : At(p.space, k, j, b) = Point(b, k, Group * j)
             /\ p.space.part = Point(b, 0, Group * j + Group - 1) - Point(b, 0, Group * j)
             /\ p.fourier.part = 1
  <2>1. j \in Nat /\ Phi \subseteq Nat /\ Group = 2 /\ b * spat_dist \in Nat
    <3>1. b \in Nat /\ nphi \in Nat /\ nlat_padded \in Nat /\ spat_dist = nphi * nlat_padded
      BY PlannedGrid
    <3>2. spat_dist \in Nat
      BY <3>1
    <3> QED BY <3>1, <3>2, PlannedGrid, Halves
  <2>2. ASSUME NEW k \in Phi PROVE At(p.space, k, j, b) = Point(b, k, Group * j)
    <3>1. k \in Nat /\ 2 * j \in Nat
      BY <2>1
    <3>2. /\ At(p.space, k, j, b) = b * spat_dist + k * nlat_padded + 2 * j
          /\ Point(b, k, 2 * j) = b * spat_dist + k * nlat_padded + 2 * j
      BY <1>2, <1>3, <3>1
    <3> QED BY <2>1, <3>2
  <2>3. /\ Point(b, 0, Group * j + Group - 1) = b * spat_dist + 0 * nlat_padded + (2 * j + 1)
        /\ Point(b, 0, Group * j) = b * spat_dist + 0 * nlat_padded + 2 * j
    <3>1. 2 * j + 1 \in Nat /\ 2 * j \in Nat /\ 0 \in Nat
      BY <2>1
    <3>2. Group * j + Group - 1 = 2 * j + 1 /\ Group * j = 2 * j
      BY <2>1
    <3> QED BY <1>3, <3>1, <3>2
  <2>4. 0 * nlat_padded = 0
    BY PlannedGrid
  <2>5. p.space.part = 1 /\ p.fourier.part = 1
    BY <1>0
  <2>6. p.space.part = Point(b, 0, Group * j + Group - 1) - Point(b, 0, Group * j)
    BY <2>1, <2>3, <2>4, <2>5
  <2> QED BY <2>2, <2>5, <2>6
<1>5. ASSUME \A b \in Batch, k \in Order, j \in Pair :
               row[b][k][j] = b * spat_dist + k * nlat_padded + 2 * j
      PROVE  Columns(p) = FieldColumns(row)
  <2>1. ASSUME NEW j \in Pair, NEW b \in Batch
        PROVE  Column(p, j, b) = FieldColumn(row, j, b)
    <3>1. ASSUME NEW k \in Order PROVE At(p.fourier, k, j, b) = row[b][k][j]
      <4>1. k \in Nat
        BY PlannedGrid
      <4>2. At(p.fourier, k, j, b) = b * spat_dist + k * nlat_padded + 2 * j
        BY <1>2, <4>1
      <4> QED BY <1>5, <4>2
    <3> QED BY <1>4, <3>1, SameColumn
  <2> QED BY <1>1, <2>1, SameColumns
<1> QED BY <1>5 DEF p

(* Whatever the layout and the batch, and any padding that is even, a        *)
(* synthesis transforms the rows its kernel wrote into the documented        *)
(* places, all and only these; an odd number of latitudes takes any padding. *)
THEOREM SynthesisAlwaysPlanned == Spec => []SynthesisPlanned
<1>1. ASSUME PlanInv, nspat # 0, fft_mode # {}, EvenRows
      PROVE  Columns(ifftc) = FieldColumns(WrittenRow)
  <2> USE <1>1
  <2>1. ifftc = SynthesisPlan(howmany, nlat, nphi, layout, nlat_padded)
    BY DEF PlanInv, PlansInv
  <2>2. CASE Odd(nlat)
    <3>1. \A k \in Order, j \in Pair : WrittenRow[0][k][j] = 2 * (k * nlat + j)
      <4>1. 0 \in Batch
        BY <2>2, OneField
      <4> QED BY <2>2, <4>1 DEF WrittenRow
    <3> QED BY <2>1, <2>2, <3>1, OddColumns
  <2>3. CASE ~ Odd(nlat)
    <3>1. ASSUME NEW b \in Batch, NEW k \in Order, NEW j \in Pair
          PROVE  WrittenRow[b][k][j] = b * spat_dist + k * nlat_padded + 2 * j
      <4>1. /\ b \in Nat /\ k \in Nat /\ j \in Nat /\ nphi \in Nat
            /\ nlat \div 2 \in Nat /\ 2 * (nlat \div 2) = nlat
            /\ nlat_padded \div 2 \in Nat /\ 2 * (nlat_padded \div 2) = nlat_padded
            /\ spat_dist = IF Transposed(layout) THEN nphi * nlat ELSE nphi * nlat_padded
        BY <2>3, PlannedGrid, Halves
      <4>2. PICK d \in Nat : spat_dist = 2 * d
        <5>1. nphi * (nlat \div 2) \in Nat /\ nphi * (nlat_padded \div 2) \in Nat
          BY <4>1
        <5>2. nphi * nlat = 2 * (nphi * (nlat \div 2))
          BY <4>1
        <5>3. nphi * nlat_padded = 2 * (nphi * (nlat_padded \div 2))
          BY <4>1
        <5> QED BY <4>1, <5>1, <5>2, <5>3
      <4>3. b * spat_dist = 2 * (b * d) /\ b * d \in Nat
        BY <4>1, <4>2
      <4>4. (b * spat_dist) \div 2 = b * d
        BY <4>3
      <4>5. k * nlat_padded = 2 * (k * (nlat_padded \div 2)) /\ k * (nlat_padded \div 2) \in Nat
        BY <4>1
      <4>6. WrittenRow[b][k][j]
              = 2 * ((b * spat_dist) \div 2 + k * (nlat_padded \div 2) + j)
        BY <2>3 DEF WrittenRow
      <4> QED BY <4>1, <4>3, <4>4, <4>5, <4>6
    <3>2. CASE Transposed(layout)
      <4>1. nlat \in Nat /\ 2 \in Nat /\ nlat_padded = nlat
        BY <3>2, PlannedGrid DEF PlanInv, PlansInv
      <4>2. \A b \in Batch, k \in Order, j \in Pair :
              WrittenRow[b][k][j] = b * spat_dist + k * nlat + j * 2
        <5>1. Pair \subseteq Nat
          BY PlannedGrid
        <5>2. \A j \in Pair : 2 * j = j * 2
          BY <5>1
        <5> QED BY <3>1, <4>1, <5>2
      <4>3. ifftc = GuruSplitDft(howmany, nlat, nphi, nphi * nlat, nlat, 2)
        BY <2>1, <2>3, <3>2 DEF SynthesisPlan
      <4> QED BY <2>3, <3>2, <4>1, <4>2, <4>3, SplitColumns
    <3>3. CASE ~ Transposed(layout)
      <4> DEFINE field == IF howmany = 1 THEN 0 ELSE (nlat_padded \div 2) * nphi
      <4>1. ifftc = NativePlan(field, TRUE)
        BY <2>1, <2>3, <3>3 DEF SynthesisPlan, ManyDft, GuruDft, NativePlan
      <4>2. field \in Nat
        <5>1. (nlat_padded \div 2) * nphi \in Nat
          BY <2>3, PlannedGrid, Halves
        <5> QED BY <5>1
      <4>3. howmany = 1 \/ field = (nlat_padded \div 2) * nphi
        OBVIOUS
      <4>4. \A b \in Batch, k \in Order, j \in Pair :
              WrittenRow[b][k][j] = b * spat_dist + k * nlat_padded + 2 * j
        BY <3>1
      <4> HIDE DEF field
      <4> QED BY <2>3, <3>3, <4>1, <4>2, <4>3, <4>4, NativeColumns
    <3> QED BY <3>2, <3>3
  <2> QED BY <2>2, <2>3
<1>2. PlanInv => SynthesisPlanned
  BY <1>1 DEF SynthesisPlanned
<1> QED BY <1>2, PlanInvariant, PTL

(* An analysis of one field, or in place, or of a transposed grid, transforms*)
(* the columns its kernel reads: all of those of the fields and only these.  *)
THEOREM AnalysisOfFieldAlwaysPlanned == Spec => []AnalysisOfFieldPlanned
<1>1. ASSUME PlanInv, nspat # 0, fft_mode # {}, EvenRows,
             howmany = 1 \/ Destroys(layout) \/ Transposed(layout)
      PROVE  Columns(fftc) = FieldColumns(ReadRow)
  <2> USE <1>1
  <2>1. fftc = AnalysisPlan(howmany, nlat, nphi, layout, nlat_padded)
    BY DEF PlanInv, PlansInv
  <2>2. CASE Odd(nlat)
    <3>1. \A k \in Order, j \in Pair : ReadRow[0][k][j] = 2 * (k * nlat + j)
      <4>1. 0 \in Batch
        BY <2>2, OneField
      <4> QED BY <2>2, <4>1 DEF ReadRow
    <3>2. fftc = SynthesisPlan(howmany, nlat, nphi, layout, nlat_padded)
      BY <2>1, <2>2 DEF AnalysisPlan
    <3> QED BY <2>2, <3>1, <3>2, OddColumns
  <2>3. CASE ~ Odd(nlat) /\ Transposed(layout)
    <3>1. k_stride_a = nphi /\ m_stride_a = 2 /\ nphi \in Nat /\ 2 * nphi \in Nat
      BY <2>3, PlannedGrid DEF PlanInv, PlansInv
    <3>2. ASSUME NEW b \in Batch, NEW k \in Order, NEW j \in Pair
          PROVE  ReadRow[b][k][j] = b * spat_dist + k * 2 + j * (2 * nphi)
      <4>1. ReadRow[b][k][j] = b * spat_dist + k * 2 + 2 * j * nphi
        BY <2>3, <3>1 DEF ReadRow
      <4>2. j \in Nat /\ nphi \in Nat
        BY PlannedGrid
      <4>3. 2 * j * nphi = j * (2 * nphi)
        BY <4>2
      <4> QED BY <4>1, <4>3
    <3>3. fftc = GuruSplitDft(howmany, nlat, nphi, nphi * nlat, 2, 2 * nphi)
      BY <2>1, <2>3 DEF AnalysisPlan
    <3>4. 2 \in Nat
      OBVIOUS
    <3> QED BY <2>3, <3>1, <3>2, <3>3, <3>4, SplitColumns
  <2>4. CASE ~ Odd(nlat) /\ ~ Transposed(layout)
    <3> DEFINE field == IF howmany = 1 THEN 0 ELSE (nlat_padded \div 2) * nphi
    <3>1. field \in Nat
      <4>1. (nlat_padded \div 2) * nphi \in Nat
        BY <2>4, PlannedGrid, Halves
      <4> QED BY <4>1
    <3>2. howmany = 1 \/ field = (nlat_padded \div 2) * nphi
      OBVIOUS
    <3>3. \A b \in Batch, k \in Order, j \in Pair :
            ReadRow[b][k][j] = b * spat_dist + k * nlat_padded + 2 * j
      <4>1. k_stride_a = 1 /\ m_stride_a = nlat_padded
        BY <2>4 DEF PlanInv, PlansInv
      <4>2. \A b \in Batch, k \in Order, j \in Pair :
              ReadRow[b][k][j] = b * spat_dist + k * nlat_padded + 2 * j * 1
        BY <2>4, <4>1 DEF ReadRow
      <4>3. \A j \in Pair : 2 * j * 1 = 2 * j
        BY PlannedGrid
      <4> QED BY <4>2, <4>3
    <3>4. fftc = NativePlan(field, TRUE) \/ fftc = NativePlan(field, FALSE)
      <4>1. CASE Destroys(layout)
        BY <2>1, <2>4, <4>1 DEF AnalysisPlan, SynthesisPlan, ManyDft, GuruDft, NativePlan
      <4>2. CASE ~ Destroys(layout)
        <5>1. howmany = 1
          BY <2>4, <4>2
        <5>2. (nlat \div 2) * 1 = nlat \div 2
          BY <2>4, Halves
        <5> QED BY <2>1, <2>4, <4>2, <5>1, <5>2 DEF AnalysisPlan, ManyDft, GuruDft, NativePlan
      <4> QED BY <4>1, <4>2
    <3> HIDE DEF field
    <3>5. Columns(NativePlan(field, TRUE)) = FieldColumns(ReadRow)
      BY <2>4, <3>1, <3>2, <3>3, NativeColumns
    <3>6. Columns(NativePlan(field, FALSE)) = FieldColumns(ReadRow)
      BY <2>4, <3>1, <3>2, <3>3, NativeColumns
    <3> QED BY <3>4, <3>5, <3>6
  <2> QED BY <2>2, <2>3, <2>4
<1>2. PlanInv => AnalysisOfFieldPlanned
  BY <1>1 DEF AnalysisOfFieldPlanned
<1> QED BY <1>2, PlanInvariant, PTL

(* A transform tells by the mode of its configuration whether the analysis   *)
(* of its batch is planned, with no look at the layout: one field, or a mode *)
(* that is not out of place for analyses alone. Those are planned as         *)
(* shtns_set_many documents them.                                            *)
PlannedMode ==
  howmany = 1 \/ fft_mode \cap {"FFT_OOP", "FFT_OOP_ANALYS"} # {"FFT_OOP_ANALYS"}

THEOREM AnalysisPlannedByMode == Spec => [](PlannedMode => AnalysisPlanned)
<1>1. ASSUME PlanInv, PlannedMode, nspat # 0, fft_mode # {}
      PROVE  howmany = 1 \/ Destroys(layout) \/ Transposed(layout)
  <2> SUFFICES ASSUME ~ Destroys(layout), ~ Transposed(layout) PROVE howmany = 1
    OBVIOUS
  <2>1. (Odd(nlat) => howmany = 1) /\ fft_mode = FftMode(nlat, layout)
    BY <1>1 DEF PlanInv, PlansInv
  <2>2. ~ Odd(nlat) => fft_mode \cap {"FFT_OOP", "FFT_OOP_ANALYS"} = {"FFT_OOP_ANALYS"}
    BY <2>1 DEF FftMode
  <2> QED BY <1>1, <2>1, <2>2 DEF PlannedMode
<1>2. PlanInv /\ AnalysisOfFieldPlanned => (PlannedMode => AnalysisPlanned)
  BY <1>1 DEF AnalysisOfFieldPlanned, AnalysisPlanned
<1> QED BY <1>2, PlanInvariant, AnalysisOfFieldAlwaysPlanned, PTL
-----------------------------------------------------------------------------
(* Rows of s numbers do not overlap: an offset is one place of one row.      *)
LEMMA UniqueOffset ==
  ASSUME NEW s \in Nat, NEW k \in Nat, NEW l \in Nat,
         NEW i \in 0 .. s - 1, NEW j \in 0 .. s - 1, k * s + i = l * s + j
  PROVE  k = l /\ i = j
<1>1. ASSUME NEW a \in Nat, NEW b \in Nat, a < b,
             NEW x \in 0 .. s - 1, NEW y \in 0 .. s - 1
      PROVE  a * s + x # b * s + y
  <2>1. PICK d \in Nat : b = a + 1 + d
    <3>1. b - (a + 1) \in Nat /\ b = a + 1 + (b - (a + 1))
      BY <1>1
    <3> QED BY <3>1
  <2>2. b * s = a * s + s + d * s
    BY <2>1
  <2>3. a * s \in Nat /\ d * s \in Nat
    BY <2>1
  <2> QED BY <2>2, <2>3
<1>2. ~ (k < l) /\ ~ (l < k)
  BY <1>1
<1>3. k = l
  BY <1>2
<1>4. k * s \in Nat
  OBVIOUS
<1> QED BY <1>3, <1>4

(* The latitude that a step of the adjoint weights. *)
Latitude(s) == IF s.south THEN nlat - 1 - s.it ELSE s.it

(* A step weights the point of its longitude and latitude. *)
LEMMA StepWeights ==
  ASSUME PlanInv, nspat # 0, ~ Odd(nlat), WholeRows,
         NEW s \in AdjointStep, NEW k \in Phi, NEW i \in Lat
  PROVE  Weighted(s) = Point(0, k, i) <=> s.ip = k /\ Latitude(s) = i
<1>1. /\ nlat \in Nat \ {0} /\ nphi \in Nat \ {0} /\ nlat_padded \in Nat
      /\ nlat_padded >= nlat /\ (nphi = 1 => nlat_padded = nlat /\ fft_mode = {})
      /\ fft_mode = {} => nphi = 1 /\ k_stride_a = 1
      /\ fft_mode # {} => k_stride_a = IF Transposed(layout) THEN nphi ELSE 1
  BY DEF PlanInv, TypeOK, GridInv, PlansInv, WholeRows
<1>2. k \in 0 .. nphi - 1 /\ i \in 0 .. nlat - 1 /\ s.ip \in 0 .. nphi - 1
  BY DEF Phi, Lat, AdjointStep
<1>3. Latitude(s) \in 0 .. nlat - 1
  <2>1. (nlat + 1) \div 2 =< nlat
    BY <1>1
  <2>2. s.it \in 0 .. nlat - 1
    BY <1>1, <2>1 DEF AdjointStep, Half
  <2> QED BY <1>1, <2>2 DEF Latitude
<1>4. Weighted(s) = IF k_stride_a = 1 THEN s.ip * nlat_padded + Latitude(s)
                    ELSE s.ip + Latitude(s) * k_stride_a
  BY DEF Weighted, Latitude
<1>5. Point(0, k, i) = IF Transposed(layout) THEN i * nphi + k ELSE k * nlat_padded + i
  BY <1>1, <1>2 DEF Point
<1> DEFINE l == Latitude(s)
<1> HIDE DEF l
<1>6. l \in 0 .. nlat - 1
  BY <1>3 DEF l
<1>7. CASE nphi = 1
  <2>1. k = 0 /\ s.ip = 0 /\ k_stride_a = 1
    BY <1>1, <1>2, <1>7
  <2>2. Weighted(s) = l
    BY <1>1, <1>4, <1>6, <2>1 DEF l
  <2>3. Point(0, k, i) = i
    BY <1>1, <1>2, <1>5, <1>7, <2>1
  <2> QED BY <2>1, <2>2, <2>3 DEF l
<1>8. CASE nphi # 1 /\ Transposed(layout)
  <2>1. Weighted(s) = l * nphi + s.ip /\ Point(0, k, i) = i * nphi + k
    <3>1. k_stride_a = nphi
      BY <1>1, <1>8
    <3>2. l * nphi \in Nat
      BY <1>1, <1>6
    <3> QED BY <1>1, <1>2, <1>4, <1>5, <1>8, <3>1, <3>2 DEF l
  <2>2. l * nphi + s.ip = i * nphi + k => l = i /\ s.ip = k
    BY <1>1, <1>2, <1>6, UniqueOffset
  <2> QED BY <2>1, <2>2 DEF l
<1>9. CASE nphi # 1 /\ ~ Transposed(layout)
  <2>1. Weighted(s) = s.ip * nlat_padded + l /\ Point(0, k, i) = k * nlat_padded + i
    BY <1>1, <1>4, <1>5, <1>9 DEF l
  <2>2. l \in 0 .. nlat_padded - 1 /\ i \in 0 .. nlat_padded - 1
    BY <1>1, <1>2, <1>6
  <2>3. s.ip \in Nat /\ k \in Nat /\ nlat_padded \in Nat
    BY <1>1, <1>2
  <2>4. s.ip * nlat_padded + l = k * nlat_padded + i => s.ip = k /\ l = i
    BY <2>2, <2>3, UniqueOffset
  <2> QED BY <2>1, <2>4 DEF l
<1> QED BY <1>7, <1>8, <1>9

(* The adjoint of the synthesis weights each point of a field once, with the *)
(* weight of its latitude, whatever the layout and the padding that does not *)
(* take from a row.                                                          *)
THEOREM AdjointAlwaysWeighted == Spec => []AdjointWeighted
<1>1. ASSUME PlanInv, nspat # 0, ~ Odd(nlat), WholeRows, NEW k \in Phi, NEW i \in Lat
      PROVE  {s \in AdjointStep : Weighted(s) = Point(0, k, i)} =
               {[ip |-> k, it |-> IF 2 * i < nlat THEN i ELSE nlat - 1 - i,
                 south |-> 2 * i >= nlat]}
  <2> DEFINE it == IF 2 * i < nlat THEN i ELSE nlat - 1 - i
             south == 2 * i >= nlat
             t == [ip |-> k, it |-> it, south |-> south]
  <2>1. nlat \in Nat /\ nlat % 2 = 0 /\ i \in 0 .. nlat - 1
    BY <1>1 DEF PlanInv, TypeOK, Odd, Lat
  <2>2. (nlat + 1) \div 2 = nlat \div 2 /\ 2 * (nlat \div 2) = nlat
    BY <2>1
  <2>3. Half = 0 .. nlat \div 2 - 1
    BY <2>2 DEF Half
  <2>4. t \in AdjointStep /\ t.ip = k /\ Latitude(t) = i
    <3>1. it \in Half /\ south \in BOOLEAN
      BY <2>1, <2>2, <2>3
    <3>2. t \in AdjointStep
      BY <1>1, <3>1 DEF AdjointStep
    <3>3. Latitude(t) = IF south THEN nlat - 1 - it ELSE it
      BY DEF Latitude
    <3>4. (IF south THEN nlat - 1 - it ELSE it) = i
      BY <2>1
    <3> QED BY <3>2, <3>3, <3>4
  <2>5. ASSUME NEW s \in AdjointStep, s.ip = k, Latitude(s) = i PROVE s = t
    <3>1. s.it \in 0 .. nlat \div 2 - 1 /\ s.south \in BOOLEAN
      BY <2>3 DEF AdjointStep
    <3>2. s.it = it /\ s.south = south
      <4>1. CASE s.south
        <5>1. s.it = nlat - 1 - i /\ ~ (2 * i < nlat) /\ 2 * i >= nlat
          BY <2>1, <2>2, <2>5, <3>1, <4>1 DEF Latitude
        <5> QED BY <4>1, <5>1
      <4>2. CASE ~ s.south
        <5>1. s.it = i /\ 2 * i < nlat /\ ~ (2 * i >= nlat)
          BY <2>1, <2>2, <2>5, <3>1, <4>2 DEF Latitude
        <5> QED BY <3>1, <4>2, <5>1
      <4> QED BY <4>1, <4>2
    <3>3. s = [ip |-> s.ip, it |-> s.it, south |-> s.south]
      BY DEF AdjointStep
    <3> QED BY <2>5, <3>2, <3>3
  <2> HIDE DEF t
  <2>6. \A s \in AdjointStep : Weighted(s) = Point(0, k, i) <=> s = t
    BY <1>1, <2>4, <2>5, StepWeights
  <2>7. {s \in AdjointStep : Weighted(s) = Point(0, k, i)} = {t}
    BY <2>4, <2>6
  <2> QED BY <2>7 DEF t
<1>2. PlanInv => AdjointWeighted
  BY <1>1 DEF AdjointWeighted
<1> QED BY <1>2, PlanInvariant, PTL
=============================================================================
