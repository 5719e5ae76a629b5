# TLA+ models of SHTns

SHTns computes spherical harmonic transforms: from the coefficients of a field
(*synthesis*) to its values on a grid of latitudes and longitudes, and back
(*analysis*). Most of its lines are numerical kernels. What can go wrong
*besides* the numbers is bookkeeping: positions in arrays, tables shared between
configurations, memory layouts that three pieces of code must agree on, loops
handed out to threads without a barrier between them, caches and a file that
outlive what they were computed for. These are what the modules in this directory
model, check with TLC and, for every value of the constants, prove with TLAPS.

Paths such as `sht_init.c:1183` are relative to `src/`.

## 1. Inventory

| component | state it keeps | operations |
|---|---|---|
| **Index arithmetic** `shtns.h:105-125`, `sht_init.c:95-135, 1207-1230` | `lmax, mmax, mres, nlm, nlm_cplx`, the arrays `li[]`, `mi[]` | `LiM`, `LM`, `LM_cplx`, `nlm_calc`, `nlm_cplx_calc`, `im_from_lm`, the filling loop |
| **Configurations** `sht_init.c:328-382, 1135-1349` | the list `sht_data`; in every `struct shtns_info` pointers to Legendre tables, `li/mi`, `l_2`, rotation tables, grid arrays, vector matrices, FFTW plans | `shtns_create`, `shtns_create_with_grid` (clone), `shtns_set_grid_auto`, `shtns_unset_grid`, `shtns_destroy`, `shtns_reset`, and the scan `ref_count` / `free_unused` |
| **FFT planning and layout** `sht_init.c:384-580, 1389-1606` | `howmany, nlat, nphi, nlat_padded, nspat, spat_dist`, strides, `fft_mode`, plans `fftc`, `ifftc` | `shtns_set_many`, `shtns_set_grid_auto` → `planFFT`, `shtns_unset_grid` |
| **Threaded transforms** `SHT/omp_*.gen.c` | the caller's spectral and spatial arrays, a temporary array | `SH_to_spat_omp_a`, `spat_to_SH_omp_a`, instantiated for scalars, vectors and both |
| **Sequential transforms, dispatch, adjoint** `SHT/fly_*.gen.c`, `sht_odd_nlat.c`, `sht_com.c` | the same arrays; the table of functions of a configuration; the weights of a grid | `SH_to_spat*`, `spat_to_SH*`, the adjoint flag, `_l` and `_ml` variants |
| **Complex fields** `sht_func.c:905-1235` | two temporary coefficient arrays, a temporary field | `SH_to_spat_cplx`, `spat_cplx_to_SH`, vector versions, `SH_2real_to_cplx`, `SH_cplx_to_2real` |
| **Algorithm selection** `sht_init.c:200-330, 840-1110` | the global table of functions, the files `shtns_cfg`, `shtns_cfg_fftw` | `init_sht_array_func`, `set_sht_fly`, `choose_best_sht`, `config_save`, `config_load` |
| **Fortran interface** `sht_init.c:1695-1795` | saved configurations by tag | `shtns_save_cfg`, `shtns_load_cfg`, `shtns_set_size_`, `shtns_reset_`, ... |
| **Rotations** `sht_func.c:1406-2255` | an object `shtns_rot_`: three angles, their phases, the Legendre functions of the second angle, a configuration of its own with one degree more | `shtns_rotation_create`, `_set_angles_ZYZ`, `_ZXZ`, `_angle_axis`, `_apply_real`, `_apply_cplx`, `_destroy` |
| **Latitude and point evaluation** `sht_func.c:541-905` | the caches `ct_lat`, `nphi_lat`, `ylm_lat`, `ifft_lat` of a configuration | `SHqst_to_lat`, `SH_to_lat`, `SH_to_point` |
| **Legendre functions and kernels** `sht_legendre.c`, `SHT/kernel_*.gen.c` | tables | numerical recurrences |
| **GPU** `sht_gpu.cu` | device buffers, streams, plans | `cushtns_init_gpu`, `cushtns_clone`, staging, transforms |
| **Python interface** `shtns_numpy.i`, `shtns.py` | none but wrapped configurations | argument checks and calls, `im_from_idx` |

**How they interact.** A caller creates a configuration, chooses a batch size,
sets a grid, then calls transforms. `shtns_create` looks through the list of
configurations and borrows tables from them by copying pointers; a clone copies
the whole struct, caches and plans included. `shtns_destroy` frees a block when a
scan of the list finds no other pointer to it *at the same offset of the struct*.
The Fortran interface moves a configuration to the head of the list, which is the
one it works on. `shtns_set_grid_auto` decides the layout of the spatial arrays,
and `planFFT` makes plans for it; it refills the one global table of functions and
chooses from it, by a file that programs share or by timing. Kernels then write or
read Fourier rows at addresses which they compute from strides of their own, and
transforms execute the plan, in place or not, according to the flags in
`fft_mode`. A rotation makes a configuration for its own use; a complex field is
rotated directly or as two real ones. All of these compute positions of
coefficients with the formulas of the first component, in some places closed and
in others by running indices.

**What is hard.** Long histories of create / clone / re-grid / load / destroy; two
dynamically scheduled loops without a barrier between them; several threads'
worth of running indices through one array of coefficients; a plan, a kernel and
a document that must describe the same columns of the same array in eight layouts
and any batch; truncation boundaries; angles normalised in several steps by three
conventions. The only state that outlives a process is the two files of
measurements: what a killed program or a line cut at its end leaves in
`shtns_cfg` is modelled. There is no network and no message passing. The library
says nothing of two application threads that create configurations concurrently;
each operation on the list is modelled as one atomic step.

**What makes each component correct.**

* Index arithmetic: the closed formulas, the loops and the counts define one
  bijection between coefficients and positions, within the width of their integers.
* Configurations: no configuration ever reaches freed memory, nothing is freed
  twice, the last user frees, and borrowed tables are those it would have computed.
* Planning: plans, kernels and documents agree on each column, and weights are
  applied to each point once.
* Transforms, threaded or not: no race, and the result is the one of a single step.
* Complex fields: the same, and every coefficient goes to its place with its sign.
* Algorithm selection: every function a configuration calls exists and suits its
  grid, whatever is in the file; what was saved is what is found again.
* Tags and caches: what is found under a key was put or computed there for that key.
* Rotations: the angles that are kept stand for the rotation that was asked for, and
  threads that work in place on degrees of their own store the rotated field.

The list of hazards, each at its line, with the properties that cover it or the
reason why none does yet, is in `PROJECT.json`.

## 2. Modules

| module | stands for | uses |
|---|---|---|
| `LmIndex` | the formulas of positions and sizes | |
| `LmFill` | the loop that fills `li`, `mi` | `LmIndex` |
| `TwoReal` | a complex field as two real ones and back | `LmFill` |
| `ConfigShare` | the list of configurations and the heap | `LmIndex` |
| `Fortran` | the tags of the Fortran interface | `ConfigShare` |
| `LatCache` | the caches of latitude evaluation | `ConfigShare` |
| `Local` | tags and latitudes over one list of configurations | `Fortran`, `LatCache` |
| `Fields`, `Transform` | real fields without their numbers; **abstract specification** of a transform | |
| `OmpTransform` | the threaded transforms of a batch of real fields | `Fields`, instantiates `Transform` |
| `FlyTransform` | the sequential ones, and calls that mix both | `OmpTransform` |
| `CplxValues`, `CplxField` | complex fields; **abstract specification** of their transforms | |
| `CplxTransform` | the threaded transforms of complex fields | `CplxValues`, `LmIndex`, instantiates `CplxField` |
| `FftPlan` | layout of batches, FFTW plans, adjoint weights | |
| `AlgoSelect` | tables of functions, the file of choices | |
| `Rotation` | the rotation object and its threads | `LmIndex` |
| `MC*` | values of constants for TLC | |
| `*_proofs` | theorems; `ConfigShare_proofs` is about `Fortran`, `LatCache` and `Local` too, `LmFill_proofs` about `TwoReal`, `OmpTransform_proofs` about `FlyTransform` | |

In a module with definitions marked *Mutant*, each of those is a plausible bug of
the definition that follows it, and one property of the runs is violated when it
takes its place; none is part of a specification.

### ConfigShare

A pointer is a pair of the field it was allocated for and a block number; `heap`
says for which truncation and normalisation a block was computed, or that it is
free. `malloc` takes a free block (any will do: blocks of a field are
interchangeable), so a freed block is reused at once and a stale pointer to it
would see other data. Actions are the six public functions. `shtns_reset` is one
step per turn of its loop. The fields are those that are freed: `alm`, `clm` and
`glm` (the blocks of a `legendre_precomp` call), `li` (with `mi` in one block),
`l_2`, `ct_rot`, `wg`, `ct`, `mx_stdt`, `mx_van` (which point to one block unless
the normalisation is Schmidt's), and two plans: `fft` for those of a grid and
`fft_rot`. After a free that leaves defined behaviour (`ub`) nothing else happens.

Things worth knowing of the code that the model makes explicit: `ref_count`
compares one offset only, which is enough because a pointer of one field is never
copied to another one, except `mx_van`, which `shtns_destroy` treats apart;
a clone with fewer orders is a donor for truncations between its `mmax` and that
of its base, and tables still fit because they were computed for at least as many
orders.

### Fortran and LatCache

Both extend the list by variables of their own and conjoin a step of them to every
action of `ConfigShare`. In `Fortran` a tag holds a configuration that may have
been destroyed, and whose memory another one may have taken; `shtns_load_cfg`
looks for it in the list before it uses it. The other Fortran routines pass the
head of the list to the C function of their name.

In `LatCache` a configuration has a table of Legendre functions with the latitude
it was filled for, and a plan with its number of longitudes. An entry of a table is
`Unset` until a call fills it, and a call fills what its own truncation needs.
The allocator may put a table or a plan at any address where nothing is (`Vacant`).
`filled` and `mingled` are history variables: the entries the last filling
computed, and the configurations whose cache is not their own. Those are the two of
which one was cloned from the other after a first latitude, and one more: once a
clone has made another plan, its base goes on pointing to the plan that was
destroyed, and a configuration that was never cloned may get its plan at that very
address. The base then executes, or destroys, a plan of the third. (A model whose
allocator always takes the address just freed misses this; the proof of `LatPlanned`
does not go through without it.) `Local` lets one program use tags and latitudes.

### LmIndex, LmFill and TwoReal

The state is the local state of the loop (`lm`, `im`, `l`) and the arrays. The
initial states are all truncations `shtns_create` accepts; every one of the
formulas of `LmIndex` is compared with what the loop does. `im_from_lm` takes the
square root in double precision, adds and truncates; the model takes the exact
integer ceiling that the expression denotes. `LiMSteps` are the intermediate
results of `LiM`, each of which must fit an int.

`TwoReal` adds no state: when the loop is done, `li` and `mi` say which coefficient
each position of a real field has, and the conversions walk the complex array to
both sides of order 0. Numbers are pairs of integers; what the code halves is not
halved, so a field comes back doubled.

### Fields, Transform, OmpTransform and FlyTransform

A value is the set of the coefficients `<<field, order, degree>>` it was computed
from. A spatial array holds either grid values or Fourier rows; as a Fourier
transform is invertible, a field on the grid is given by its rows, and the
transform of a row written twice, not at all or by the wrong order is wrong and
visible. `Unknown` is memory that nobody wrote. What a synthesis takes of an order
(`Summed`) and what an analysis leaves of it (`Truncated`) differ at a truncation at
degree 0 (section 4). The FFT itself (FFTW) is external.
`Planned` stands for the result of `FftPlan`: the combination of layout and batch
for which the analysis was planned wrongly (section 4) loses the field.

One threaded call is: `SH_to_spat_omp_a` (enter the region) → iterations taken by
threads from the first loop (`TakeOrder`), each writing two rows (`WriteLow`,
`WriteHigh`) → without waiting, iterations of the second loop which zero the other
rows (`TakeZero`, `ZeroRow`) → the barrier at the end of the region (`EndRegion`)
→ the FFT by the calling thread. An analysis starts with the FFT, then hands out
orders (`TakeAnalysis`, `Analyse`) and fields whose tail is zeroed (`TakeField`,
`ZeroSpec`). `next` and `zero` are the counters of the two `omp for` loops.

A sequential call goes through the orders by itself (`FlyOrder`, `FlyAnalyse`) and
zeroes the rest at the end (`FlyZeroRows`, `FlyZeroSpec`). The table of functions
may hold a threaded function for one direction and a sequential one for the other,
so `FlyNext` lets the caller choose at every call.

`Transform` has the same two operations in one step each. `specBar` and `spatBar`
are the refinement mapping: during a call, the result it will have.

### CplxTransform

The loop over orders is `schedule(static,1)`: thread `t` has orders `t`,
`t + nthreads`, ... For each, a thread *gathers* coefficients of both signs from
the caller's array with a running index `ll` (synthesis) or *scatters* them there
(analysis); the index is increased by `2*l` while degrees are complete and by
`2*mmax+1` after. A coefficient has a real and an imaginary part, of which order
0 makes two real fields, and a sign that odd negative orders change. Rows are
`NLAT` long, as in every layout without padding (section 4); whether the transform
works in place is a parameter.

### FftPlan

An address is a number of reals from the start of an array. A plan is what FFTW is
given: for each side a stride, a distance between transforms, a distance between
fields, and where imaginary parts are. `Columns` is the set of columns a plan
transforms and `FieldColumns` the set of columns of the fields of a batch, whose
spatial side is the layout documented at `shtns_set_many` and whose Fourier side
is where the kernels write (`WrittenRow`) or read (`ReadRow`). The correctness
property is the equality of the two sets. `AdjointStep` and `Weighted` are the loop
of the adjoint analysis over points and the weight it takes for each.

### AlgoSelect

The global table `sht_func` of each process, the table `ftable` of its
configuration, and the lines of the file. A function is named by its family (`fly`,
`omp`, `m0`, `m`, `odd`, `s+v`), its width in vectors and its transform; `Compiled` lists
those that exist. `shtns_set_grid_auto` clears and refills the global table, takes
the default, then searches the file or times; `choose_best_sht` lets any candidate
win; `config_save` appends. `ShortWrite` cuts a line at any name (the results of
`fprintf` are not looked at), and `Exit` ends a process anywhere. What is read from
a file with a cut line is modelled by what `fscanf` does with it: the next line
stands for the names that are missing (`Merged`), and what follows ends every
search. `Reread` is the reading of names seven letters at a time, which loses one
of them.

### Rotation

Angles are in quarter turns. The reference is exact: a rotation of space is the
images of the three axes, vectors of integers, and `Euler` composes three turns,
the first angle first. A coefficient is the set of those it was computed from,
`<<l, m, before, tilt, after>>`, with the turns made before and after the tilt.
Arrays reach past the expansion (`Reach`), so a write behind it shows. Each call
hands out degrees from the last one to the threads (`Take`), which gather all
orders of a degree by a running position (`Gather`) and store them (`Scatter`), in the
same array if the caller says so. `Sound` names the calls for which the promise
holds: of a real field about another axis than z, and of a complex field with all
orders once angles were set (section 4 says what happens to the others). Wigner
functions are taken to tilt by the angle their Legendre functions were computed
for.

## 3. Runs

| run | instance | states | shows |
|---|---|---|---|
| `config_share` | 3 configurations, 3 truncations (one axisymmetric, one with another `mres`), 2 normalisations, 2 blocks per field, symmetric in configurations | 198 626 | `TypeOK`, `ListOK`, `TablesFit`, `TablesUntouched`: a borrowed table always fits, and no call changes a table under its user |
| `config_grid` | 2 configurations, clones, grids with and without vector matrices and FFT | 263 476 | `NoDangling`, `NoDoubleFree`, `NoLeak`; `LostByRegridOnly`: a matrix or a plan is lost by a second grid of a configuration that goes on, and in no other way |
| `local` | 2 configurations of one truncation, clones, one tag, 2 latitudes, 2 or 4 longitudes, 2 tables and 2 plans at any address, symmetric in configurations, latitudes and addresses | 249 096 | `ListOK`, whatever a tag holds; `LatOfFilling`, `LatPlanned`: what is cached is of the latitude and longitudes it is remembered by |
| `lm_fill` | every valid truncation with `lmax <= 8`, `mres <= 9`; ints up to 71 | 2 153 | `AtLiM`, `NoUnexpectedError`, `Inverse`, `RootAgrees`, `BorrowersFit`, `LiMFits`, and `RoundTrip` of a complex field through two real ones for `mres` 1 |
| `omp` | 3 threads or the caller alone, 2 fields, orders 0..2 with `mres` 2, 5 longitudes, truncated at degree 0 or 3 or not, 3 FFT modes | 503 102 | `TypeOK`, `NoRace`, `Implements` (refines `Transform`), `Returns` under fairness |
| `cplx` | degrees 0..3, orders up to 2, 6 longitudes, teams of 2 or 3 | 7 166 | `TypeOK`, `RunningIndex`, `NoRace`, `Implements` (refines `CplxField`) |
| `fft_plan` | 8 or 9 latitudes, 1, 4 or 5 longitudes, batches of 1 to 3, all layouts, paddings of -2, 0, 1 and 2, grids set and unset in any order | 1 746 | `TypeOK`, `SynthesisPlanned`, `AnalysisOfFieldPlanned`, `PlacesAgree`, `FieldsFit`, `AdjointWeighted` |
| `algo` | 2 processes, 4 grids (even and odd `nlat`, one longitude, poles), widths 1 to 3 of one double, 3 transforms, 2 lines | 173 175 | `TableRight`, `OnlyDefault`, `SavedAgain`, `LoadStable` |
| `rotation` | degrees up to 3, all orders or one less, 2 threads, turns of -1, 0, 2, 3 quarters, tilts of -1 and 0, by an axis up to a half turn, both phase conventions, in place or not | 28 467 | `AnglesRight`, `Rotated`, `NoRace` |

`TypeOK` of a module is checked by its run, or part of an invariant that is proved
(`LmFill`, `AlgoSelect`, `LatTypeOK`, and `Kept`, `Calls`, `HandedOut` of `Rotation`).

**Bounds, and why they are enough to be of use.** `Block` bounds how many blocks a
field may have at once: two of them let one be freed and reused while another is
in use; `shtns_create` is disabled when none is free, which cuts off histories
that need more. Three configurations are needed for a third one to borrow from a
pair that share, or from the one of two that is left. In `config_grid` two are
enough for a base and its clone, each re-gridded. With two blocks for the matrices
and plans, which leak (section 4), one leak and one re-gridding are reached, and
the theorems of section 6 have no bound. In `local` two configurations and two
`Buffer`s let a clone share a table while the other buffer is filled, and one tag
outlive its configuration and meet its memory again; the two calls differ in
degrees and in longitudes. In `lm_fill` the greatest int is scaled so that degree 7
is the last one claimed, as 46340 is for 32 bits, and degree 8 is accepted without
being claimed. Two fields and three orders on three threads give every pair of
iterations of the same and of different loops; with `llim = 3` the last order is
truncated away and there are rows to zero, with `llim = 5` there are none, and with
`llim = 0` order 0 alone is left, of which a synthesis keeps degree 1. In
`cplx` the last degree has fewer orders than degrees, which is where the running
index changes its step, and there is a row above `mmax`; team 2 gives a thread two
orders. In `fft_plan` eight latitudes are the fewest that vector builds accept,
five longitudes the fewest for two orders, four the even number that does not fit
them; paddings are one even, one odd, one negative and none.
In `algo` the four grids have four sets of functions that exist; two lines
(`MaxLines`) are one to be found and one to be cut, merged or shadowed, and two
processes let one append between the search and the save of another. In `rotation`
three degrees on two threads let one thread have two of them and the last degree be
truncated; half turns and turns beyond are there because the normalisations add
them, and the two truncations tell whole expansions from others.

**Deadlock** is checked in `omp`, `cplx`, `fft_plan`, `algo` and `rotation`: a call
is always possible, so every dead end would be a bug. It is switched off where the
configurations stop after leaving defined behaviour (`config_share`, `config_grid`,
`config_plans`, `local`), and for `lm_fill`, whose loop ends.

**Fairness.** `Returns` needs weak fairness of each thread, of the
calling thread after the region, and of a sequential call: in an OpenMP parallel
region all threads of the team run to the end of the region, and a function that
was called goes on. The caller is never forced to call anything.

## 4. Disagreements between the code and its documentation

Three runs state what a document or comment says and are violated.

| run | property | what happens |
|---|---|---|
| `config_plans` | `PlansAlive` | A clone copies plans; `shtns_destroy` (`sht_init.c:1323`) destroys them without a scan, so the other configuration is left with destroyed plans, and destroying it destroys them again. |
| `fft_batch` | `AnalysisPlanned` | The out-of-place analysis of a batch in the default layout is one loop of `nlat_2*howmany` transforms (`sht_init.c:542`), where rows of one field are only `nlat_2` long: it never reaches the second field. |
| `rotation_z` | `RealRotated` | With no tilt, a real expansion is handed to `SH_Zrotate` with the configuration of the rotation (`sht_func.c:1701`), which has one degree and one order more than the caller's array: from order 1 on, every position is taken for one of another order. |

Other things that were met while modelling, each a hazard in `PROJECT.json` at its
line, with what the passing runs say of them:

* A second grid overwrites matrices and plans of the first (`sht_init.c:1445`), which
  a reset no longer frees: `NoLeak` is about the other fields, and `LostByRegridOnly`
  says that nothing but a second grid loses one of these.
* With a truncation at degree 0, the kernel of order 0 copies and sums degree 1 too
  (`SHT/kernel_SH_to_spat.gen.c:101`, `136`), which an analysis leaves out: `Summed`
  and `Truncated` have the difference.
* `SHTNS_PAD` is any int (`sht_init.c:434`). Plans and kernels halve the stride of a
  pair of latitudes, so an odd one puts them beside the documented places, and one
  that is negative makes rows overlap. The properties of `FftPlan` have these as
  conditions (`EvenRows`, `WholeRows`); a padding that leaves nothing of a row is not
  modelled.
* A clone with fewer orders keeps the `nlm` of its base (`sht_init.c:1269`), which
  `shtns.h:85` describes as the number of components.
* A clone copies its base's latitude caches; both then fill one table and plan. The
  cache knows the cosine only, so a second call at one latitude with more degrees or
  orders reads entries nobody computed (`sht_func.c:779`), and a plan asked for with
  more longitudes lets more orders through. When one of the two makes another plan,
  the other one goes on pointing to the plan that was destroyed, at whose address a
  third configuration may get its own. `LatOfFilling` claims the entries of the
  last filling, of configurations that are not `mingled`; `LatPlanned` excludes those
  too.
* `LiM` computes in ints and is right up to degree 46340, where 65535 is accepted:
  `LiMFits` states its condition.
* Complex transforms address rows by `NLAT`, their plan by `nlat_padded`
  (`sht_func.c:1071`, `sht_init.c:561`): `CplxTransform` has unpadded rows.
* The check that a batch has an even number of latitudes is made before the grid is
  known (`sht_init.c:1409`); an odd number makes the plan for complex fields in
  place and uses it out of place (`sht_init.c:559`). `AnalysisOfFieldPlanned` says
  which analyses are right, and `omp` has every FFT mode but the one of `fft_batch`.
* The adjoint analysis weights the first field of a batch only, and the equator of
  an odd grid twice (`sht_com.c:231`): `AdjointWeighted` is about one field on an
  even number of latitudes. The adjoint weights are cleared one number too far
  (`sht_init.c:690`).
* The omp function of scalar synthesis is not found again in a saved line: no space
  is printed between `std:` and a name of five letters (`sht_init.c:987`).
  `SavedAgain` excepts it by name.
* `shtns_reset` clears no tags; `shtns_load_cfg` looks the pointer up before it uses
  it, but a new configuration at the same address answers to the old tag. `Fortran`
  has such tags, and the list stays whole with them.
* A rotation of a complex expansion with fewer orders than degrees is wrong in three
  ways: about z the loop over orders goes to the degree (`sht_func.c:1993`), before a
  tilt order 0 is read where a whole expansion has it (2033), and without a turn
  before it the padded copy lies under the lines of the Wigner matrix (2016). Phases
  are 0 until angles are set. `Sound` excludes these, and the model has them.
* The Legendre functions of a rotation stay those of an earlier tilt when the tilt is
  0 (`sht_func.c:1494`), which matters to `shtns_rotation_wigner_d_matrix` alone.
  The configuration of a rotation is in the list, so `shtns_reset` destroys it under
  the rotation (`sht_func.c:1427`).
* The Python method `im_from_idx` passes `mmax` for `mres` (`shtns_numpy.i:350`).

## 5. Assumptions

Named assumptions on constants, evaluated by TLC in the runs: `SizeAssumption`
(sizes that `shtns_create` accepts; more than `2*mmax` longitudes, which
`shtns_set_grid_auto` enforces), `TruncationAssumption`, `WidthAssumption` (an int
is longer than a short), `CplxSizeAssumption`, `GridAssumption`,
`SentinelAssumption`, `SlotAssumption`, `LatAssumption`, `ModeAssumption`,
`TeamAssumption`, `ThreadAssumption` (a team has a thread), `LayoutAssumption`, `CallAssumption` (grids that are not refused as
too small; vectors have at least one double and functions of width 2 exist),
`RotationAssumption`, and `PlanAssumption`, which leaves the padding any integers.

Allocation never fails. Integers are unbounded but for those of `LiM`. FFTW does what
its plans say.

## 6. What is proved

The theorems hold for every value of the constants: any number of configurations,
blocks, tags, threads, orders, fields, latitudes, processes, lines.

* **`ConfigShare_proofs`**. The inductive invariant `ShareInv` is
  `TypeOK /\ ListOK /\ NoDangling /\ PlansApart /\ NoDoubleFree /\ TablesFit`.
  None of these is inductive alone. That a destruction frees nothing another
  configuration reaches needs that the list has every allocated struct once
  (`ListOK`, otherwise the scan would count one struct twice or miss one) and that
  a pointer at the offset of a field is to a block of this field (`NoDangling`'s
  second half, `PlansApart`), otherwise comparing one offset would not be enough;
  that a donor's table fits needs that the donor's table fits the donor. From it:
  `TypeCorrect`, `ListCorrect`, `NeverDangling`, `NeverDoubleFree`,
  `TablesAlwaysFit`. The core lemmas are about `ref_count` = 1 (nobody else has
  the pointer) and about `Malloc` (what is allocated was nobody's).
  `NeverLeaks`: a block is freed by the last user because the scan that counts one
  reference counts all of them. `NeverTouched` follows from the same: a call writes
  only to blocks that were free, and frees only what nobody who stays has.
  `OnlyRegridLoses`: a pointer to a matrix or a plan is at a place of matrices or plans
  (`MatrixOrPlan`), a destruction frees what no other configuration has there, one
  block at two places included, and what is left is the second grid.
* The same module on **`Fortran`, `LatCache` and `Local`**. `ShareInv` is also kept
  when tags move configurations to the head of the list, so that a search meets them
  in another order: `ListCorrectByTag`, `TablesFitByTag`. The argument for moving is that a list without
  repetition stays one when an element is taken out and put in front. For the caches,
  `LatInv` says that the table, the latitude, the plan and the longitudes of a
  configuration come together (`LatTogether`), that only `mingled` configurations have
  one in common with another (`LatApart`), and that the plan of any other one is for
  the longitudes it keeps (`LatPlans`). `LocalInvariant` is the conjunction of the three
  invariants, for a program that uses everything at once: `LatitudesRight`,
  `PlansRight`.
* **`LmIndex_proofs`**: products of consecutive numbers are even, so the halvings of
  `LiM` and `nlm_calc` are exact; `LiM` is monotone and grows from order to order by
  the degrees of an order; `LM_cplx` is a bijection onto the positions of a complex
  array (`CplxReach`, `CplxInjective`, `CplxOnto`); the argument of the square root of
  `im_from_lm` lies between the squares of two numbers that are `2*mres` apart
  (`RootArgument`), so the division that follows is exact for every step of orders
  (`RootIsOrder`).
* **`LmFill_proofs`**. `FillInv` ties the running position to `LiM` and keeps
  `Inverse` for what is written: `LoopCountsLikeLiM`, `NeverOutOfBounds`,
  `NeverUnexpectedError`, `ArraysInvertLM`, `RootAlwaysAgrees`, `BorrowersAlwaysFit`,
  `CplxCountAgrees`. `LiMAlwaysFits`: nothing `LiM` computes on its way overflows
  while `lmax*(lmax+1)` is an int. `RoundTripRight`: the running index of an order is
  `LM_cplx` of order 0 (`RunningIsCentre`), the two signs of a position are where
  `LM_cplx` has them (`BothSides`), every coefficient has an entry (`EntryOfCoefficient`),
  and what `Split` takes apart `Combined` puts together (`ValuesReturn`, for any field).
* **`OmpTransform_proofs`**, about `FlySpec`. `RegionInv`: an iteration that runs was
  handed out and is within its loop, no two threads have the same one, all threads
  are in the same call, and none while a sequential call runs. `NeverRace` follows
  since orders up to `lim`, their mirror rows and the rows in between do not meet
  when there are more than `2*mmax` rows. `ContentInv` adds the contents: a row or an
  order holds its final value unless its iteration was not handed out or a thread is
  about to write it (`RowPending`, `OrderPending`), and a thread leaves a loop when
  nothing is left of it. At the barrier nothing is pending, so the step after it is
  the one step of the abstract transform and all the others are stutters:
  `RefinesTransform`. Its hypothesis `AlwaysPlanned` (one field, or no layout whose
  analysis alone works out of place) leaves out the case in which the analysis is
  planned wrongly (section 4), where there is nothing to refine; that planning is right
  otherwise is `AnalysisPlannedByMode` of `FftPlan_proofs`.
* **`CplxTransform_proofs`**. `LoopInv`: a thread has the orders of its residue
  modulo the team, and its running indices are the macros one degree before.
  `IndexAlwaysMacro` and `NeverRace` follow, the latter because `LM_cplx` is
  injective and a position determines the absolute value of its order. `FieldInv` adds
  what the temporary arrays of a thread hold of the order it works on (`TempInv`), and
  that modes and coefficients of orders that are not pending are final (`ModeInv`,
  `DegreeInv`): `RefinesField`.
* **`FftPlan_proofs`**. `PlanInv`: while a grid is set, everything about it is what
  one call decided for the batch there is. From it `PlacesAlwaysAgree`,
  `FieldsAlwaysFit`, the equality of columns, by cases on the four planners
  (`SynthesisAlwaysPlanned`, `AnalysisOfFieldAlwaysPlanned`), and
  `AdjointAlwaysWeighted`. `AnalysisPlannedByMode`: where the mode of a configuration
  says so, `AnalysisPlanned`, which the run `fft_batch` violates, holds. Columns need
  `EvenRows` and points `WholeRows`: conditions on the padding that are stated in the
  properties and not assumed of the constants.
* **`AlgoSelect_proofs`**. `AlgoInv` is
  `TypeOK /\ TableOfCall /\ LinesSuit /\ TableRight /\ OnlyDefault`: the global table is
  the one of the last grid, a table of a configuration holds what is offered there,
  and the names of a line, cut and merged ones included, are never those of the
  transforms for odd `nlat`. From it `TableAlwaysRight`, `OnlyDefaultAlways`,
  `LoadAlwaysStable` and `AlwaysSavedAgain`.
* **`Rotation_proofs`**. `RotInv`: phases and Legendre functions belong to the angles
  once they are computed (`Kept`), a degree is handed out once and no thread rests
  before all are (`HandedOut`), and what a sound call has stored of a degree is the
  rotated field or untouched (`Working`). `NeverRace` and `RotatedRight` follow from it
  and from positions: the running ones are the macros (`RunningPosition`), and the
  macros are injective. `AnglesAlwaysRight` is about matrices: turns about one axis
  add (`TurnsAdd`), a negative tilt is a tilt between half turns, and with these
  `Normal` changes angles without changing the rotation (`NormalRight`), whatever
  the three conventions ask.

Running positions (`Position`, `Running`, `TurnedAboutZ`) are recursive functions. Each is
proved equal to its closed form by the least counterexample: were there one, it
would not be the first value, and the value before it and one step of the recursion
give the closed form (`LeastNatural`).

Besides the assumptions of section 5 no theorem about a run's property has a hypothesis
but `RefinesTransform`. The proofs changed the models in two places where they were wrong
or said too little: the allocator of `LatCache`, and a team without threads, which
`OmpTransform` and `Rotation` no longer admit.

**Only model-checked.** Every invariant of a passing run has a theorem, and so have the
action properties and both refinements. Left to TLC, since they are out of the prover's
reach: the liveness property `Returns`, and anything with `ENABLED`.
The bodies of the three violated properties are refuted by their runs.

## 7. Not modelled, and the plan

Not modelled because it is numerical: Legendre recurrences, quadrature, Wigner
functions, the pseudo-spectral rotations (`SH_Yrotate`, `SH_Xrotate90`), SIMD
arithmetic, accuracy checks. Because it is a caller or third-party code: tests,
examples, `time_SHT.c`, build files, generated wrappers, the vendored FFT, which are
most of the lines of the repository. The GPU code is left out because what its steps
do, and what is left when one fails, is decided by CUDA calls outside of it.

Left out of components that are modelled: the transforms for odd `nlat` (one field,
`nphi/2+1` rows) and the scaling of order 0 by the adjoint; the `_ml` variants; the
second pair of plans for complex fields; padded complex fields; rotations in the list
of configurations; `set_angle_axis` for other axes than those of space; the stores of
kernels at the last latitudes, of which `AlgoSelect` has the limit on widths.

To come:

1. A composition of `FftPlan` and the transforms in place of `Planned`.
2. The transforms for odd `nlat` as a third implementation of `Transform`.

## 8. Running

    tlc -workers 2 -config ConfigShare.cfg MCConfigShare
    tlapm ConfigShare_proofs.tla

The pairs of module and configuration are under `runs` in `PROJECT.json`, together
with the lines of `src/` each definition stands for (`map`). The longest runs are
`omp`, `algo`, `local` and `config_grid`, of one to three minutes each.
