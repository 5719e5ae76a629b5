--------------------------- MODULE CplxTransform ---------------------------
(* The transforms of complex-valued fields: a parallel loop over the orders  *)
(* m >= 0, handed out in turn to the threads (schedule(static,1)). Order m   *)
(* gathers the coefficients of orders m and -m from the caller's array with  *)
(* a running index, or scatters them there, and works on two Fourier rows.   *)
(* The scalar transforms stand for the vector ones, which do the same on two *)
(* arrays. There is more than one longitude: one needs no Fourier transform. *)
EXTENDS CplxValues, LmIndex

CONSTANTS
  Team,    \* the numbers of threads a configuration may have
  Layout   \* the layouts: FFT out of place or not (rows are not padded)

ASSUME TeamAssumption == Team \subseteq Nat \ {0}
ASSUME LayoutAssumption == Layout \subseteq [oop : BOOLEAN]

VARIABLES
  alm,       \* the array of the caller
  z,         \* his spatial array
  mem,       \* the rows allocated for an out-of-place transform
  rlm, ilm,  \* temporary coefficients of orders m and of orders -m
  nthreads,  \* the number of threads of the configuration
  layout,    \* its layout
  call,      \* "none", "synthesis" or "analysis"
  stage,     \* "fft" or "region": what the call is doing
  th         \* th[t]: where thread t is, its order, degree and indices

vars == <<alm, z, mem, rlm, ilm, nthreads, layout, call, stage, th>>

nlm == nlm_calc(lmax, mmax, 1)
nlm_cplx == nlm_cplx_calc(lmax, mmax, 1)
Thread == 0 .. nthreads - 1

(* Spatial arrays hold values on the grid or on the Fourier rows. *)
Array == [domain : {"grid", "fourier"}, row : [Mode -> Value]]
LostTemp == [k \in 0 .. nlm - 1 |-> Unknown]

Re(v) == IF v = Unknown THEN Unknown ELSE {c \in v : c[1] = "re"}
Im(v) == IF v = Unknown THEN Unknown ELSE {c \in v : c[1] = "im"}

(* The same backward plan both ways: an analysis gets mode -k in row k.      *)
Mirrored(row) == [k \in Mode |-> IF k = 0 THEN row[0] ELSE row[nphi - k]]
ToGrid(a) == [domain |-> "grid", row |-> a.row]
ToFourier(a) ==
  [domain |-> "fourier",
   row |-> IF a.domain = "grid" THEN Mirrored(a.row) ELSE LostField]

(* Q, the rows the loops work on. *)
Q == IF layout.oop THEN mem ELSE z
SetQ(a) == IF layout.oop THEN mem' = a /\ UNCHANGED z ELSE z' = a /\ UNCHANGED mem

Loop(m) == [at |-> "loop", m |-> m, l |-> 0, ll |-> 0, lm |-> 0]
Out == [at |-> "out", m |-> 0, l |-> 0, ll |-> 0, lm |-> 0]
EnterRegion ==
  /\ stage' = "region"
  /\ th' = [t \in Thread |-> Loop(t)]
-----------------------------------------------------------------------------
(* The caller uses LM_cplx. *)
Filled ==
  [k \in 0 .. nlm_cplx - 1 |->
     UNION {Coef(lm) : lm \in {d \in DegreeOrder : LM_cplx(mmax, d[1], d[2]) = k}}]

FillArray ==
  /\ call = "none"
  /\ alm' = Filled
  /\ UNCHANGED <<z, mem, rlm, ilm, nthreads, layout, call, stage, th>>

Synthesis ==
  /\ call = "none"
  /\ call' = "synthesis"
  /\ rlm' = LostTemp /\ ilm' = LostTemp
  /\ LET a == [domain |-> "fourier", row |-> LostField]
     IN  IF layout.oop THEN mem' = a /\ UNCHANGED z ELSE z' = a /\ UNCHANGED mem
  /\ EnterRegion
  /\ UNCHANGED <<alm, nthreads, layout>>

Analysis ==
  /\ call = "none"
  /\ call' = "analysis"
  /\ rlm' = LostTemp /\ ilm' = LostTemp
  /\ stage' = "fft"
  /\ UNCHANGED <<alm, z, mem, nthreads, layout, th>>

ForwardFft ==
  /\ call = "analysis" /\ stage = "fft"
  /\ SetQ(ToFourier(z))
  /\ EnterRegion
  /\ UNCHANGED <<alm, rlm, ilm, nthreads, layout, call>>
-----------------------------------------------------------------------------
StartOrder(t) ==
  LET m == th[t].m
  IN  /\ th[t].at = "loop" /\ m <= mmax
      /\ th' = [th EXCEPT ![t] =
           [at |-> IF call = "synthesis" THEN "gather" ELSE "analyse", m |-> m, l |-> m,
            ll |-> IF call = "synthesis" THEN m * m ELSE (m - 1) * m,
            lm |-> LM(lmax, 1, m, m)]]
      /\ UNCHANGED <<alm, z, mem, rlm, ilm, nthreads, layout, call, stage>>

(* Mutant: the last full degree is taken for a truncated one.                *)
NextIndexEarly(l, ll) == ll + IF l < mmax THEN 2 * l ELSE 2 * mmax + 1

(* The index of the next degree: each degree has all its orders up to mmax.  *)
NextIndex(l, ll) == ll + IF l <= mmax THEN 2 * l ELSE 2 * mmax + 1

(* Mutant: the loop over degrees goes one too far. *)
NextDegreePast(t, after) ==
  LET s == th[t]
  IN  [at |-> IF s.l <= lmax THEN s.at ELSE after, m |-> s.m,
       l |-> s.l + 1, ll |-> NextIndex(s.l, s.ll), lm |-> s.lm + 1]

(* The next degree of an order, then what follows the loop over degrees. *)
NextDegree(t, after) ==
  LET s == th[t]
  IN  [at |-> IF s.l < lmax THEN s.at ELSE after, m |-> s.m,
       l |-> s.l + 1, ll |-> NextIndex(s.l, s.ll), lm |-> s.lm + 1]

Gather(t) ==
  LET m == th[t].m
      lm == th[t].lm
      ll == NextIndex(th[t].l, th[t].ll)
  IN  /\ th[t].at = "gather"
      /\ rlm' = [rlm EXCEPT ![lm] = IF m = 0 THEN Re(alm[ll]) ELSE alm[ll]]
      /\ ilm' = [ilm EXCEPT ![lm] = IF m = 0 THEN Im(alm[ll])
                                             ELSE Parity(m, alm[ll - 2 * m])]
      /\ th' = [th EXCEPT ![t] = NextDegree(t, "rows")]
      /\ UNCHANGED <<alm, z, mem, nthreads, layout, call, stage>>

(* The positions of the coefficients of order m in the temporary arrays. *)
OfOrder(m) == LM(lmax, 1, m, m) .. LM(lmax, 1, lmax, m)

(* Mutant: the schedule forgets the orders of the other threads. *)
NextOrderOwn(t) == [th EXCEPT ![t] = Loop(th[t].m + 1)]
NextOrder(t) == [th EXCEPT ![t] = Loop(th[t].m + nthreads)]

(* Order 0 also zeroes the rows of the orders past mmax. *)
Rows(t) ==
  LET m == th[t].m
      plus == {rlm[k] : k \in OfOrder(m)}
      minus == {ilm[k] : k \in OfOrder(m)}
  IN  /\ th[t].at = "rows"
      /\ SetQ([Q EXCEPT !.row =
           [k \in Mode |->
              IF m = 0 THEN IF k = 0 THEN Sum(plus \cup minus)
                            ELSE IF k > mmax /\ k < nphi - mmax THEN {}
                            ELSE @[k]
              ELSE IF k = m THEN Sum(plus)
              ELSE IF k = nphi - m THEN Sum(minus)
              ELSE @[k]]])
      /\ th' = NextOrder(t)
      /\ UNCHANGED <<alm, rlm, ilm, nthreads, layout, call, stage>>

(* Order m of a forward transform is in row -m. *)
Analyse(t) ==
  LET m == th[t].m
      plus == IF m = 0 THEN Re(Q.row[0]) ELSE Q.row[nphi - m]
      minus == IF m = 0 THEN Im(Q.row[0]) ELSE Q.row[m]
      Of(v, temp) == [k \in 0 .. nlm - 1 |->
                        IF k \in OfOrder(m) THEN Projected(v, k - LM(lmax, 1, 0, m))
                                            ELSE temp[k]]
  IN  /\ th[t].at = "analyse"
      /\ rlm' = Of(plus, rlm)
      /\ ilm' = Of(minus, ilm)
      /\ th' = [th EXCEPT ![t].at = "store"]
      /\ UNCHANGED <<alm, z, mem, nthreads, layout, call, stage>>

(* Mutant: the sign of odd orders is left as it is. *)
StoreUnsigned(t) ==
  LET m == th[t].m
      lm == th[t].lm
      ll == NextIndex(th[t].l, th[t].ll)
  IN  /\ th[t].at = "store"
      /\ alm' = IF m = 0 THEN [alm EXCEPT ![ll] = Sum({rlm[lm], ilm[lm]})]
                ELSE [alm EXCEPT ![ll + m] = rlm[lm], ![ll - m] = ilm[lm]]
      /\ th' = IF th[t].l < lmax THEN [th EXCEPT ![t] = NextDegree(t, "loop")]
                                 ELSE NextOrder(t)
      /\ UNCHANGED <<z, mem, rlm, ilm, nthreads, layout, call, stage>>

Store(t) ==
  LET m == th[t].m
      lm == th[t].lm
      ll == NextIndex(th[t].l, th[t].ll)
  IN  /\ th[t].at = "store"
      /\ alm' = IF m = 0 THEN [alm EXCEPT ![ll] = Sum({rlm[lm], ilm[lm]})]
                ELSE [alm EXCEPT ![ll + m] = rlm[lm], ![ll - m] = Parity(m, ilm[lm])]
      /\ th' = IF th[t].l < lmax THEN [th EXCEPT ![t] = NextDegree(t, "loop")]
                                 ELSE NextOrder(t)
      /\ UNCHANGED <<z, mem, rlm, ilm, nthreads, layout, call, stage>>

LeaveLoop(t) ==
  /\ th[t].at = "loop" /\ th[t].m > mmax
  /\ th' = [th EXCEPT ![t] = Out]
  /\ UNCHANGED <<alm, z, mem, rlm, ilm, nthreads, layout, call, stage>>

(* The implicit barrier at the end of the loop. *)
EndRegion ==
  /\ call # "none" /\ stage = "region"
  /\ \A t \in Thread : th[t].at = "out"
  /\ stage' = "fft"
  /\ call' = IF call = "synthesis" THEN call ELSE "none"
  /\ UNCHANGED <<alm, z, mem, rlm, ilm, nthreads, layout, th>>

InverseFft ==
  /\ call = "synthesis" /\ stage = "fft"
  /\ z' = ToGrid(Q)
  /\ call' = "none"
  /\ UNCHANGED <<alm, mem, rlm, ilm, nthreads, layout, stage, th>>
-----------------------------------------------------------------------------
Init ==
  /\ alm = Filled
  /\ z = [domain |-> "grid", row |-> LostField]
  /\ mem = [domain |-> "fourier", row |-> LostField]
  /\ rlm = LostTemp /\ ilm = LostTemp
  /\ nthreads \in Team /\ layout \in Layout
  /\ call = "none" /\ stage = "fft"
  /\ th = [t \in Thread |-> Out]

Step(t) ==
  \/ StartOrder(t) \/ LeaveLoop(t)
  \/ Gather(t) \/ Rows(t)
  \/ Analyse(t) \/ Store(t)

Master == ForwardFft \/ EndRegion \/ InverseFft

Next ==
  \/ FillArray
  \/ Synthesis
  \/ Analysis
  \/ \E t \in Thread : Step(t)
  \/ Master

Spec == Init /\ [][Next]_vars
-----------------------------------------------------------------------------
At == {"out", "loop", "gather", "rows", "analyse", "store"}

(* Every variable keeps its type; a degree that is worked on is not past the *)
(* last one.                                                                 *)
TypeOK ==
  /\ alm \in [0 .. nlm_cplx - 1 -> Value]
  /\ z \in Array /\ mem \in Array
  /\ rlm \in [0 .. nlm - 1 -> Value] /\ ilm \in [0 .. nlm - 1 -> Value]
  /\ nthreads \in Team /\ layout \in Layout
  /\ call \in {"none", "synthesis", "analysis"}
  /\ stage \in {"fft", "region"}
  /\ th \in [Thread -> [at : At, m : Nat, l : Nat, ll : Int, lm : Int]]
  /\ \A t \in Thread : th[t].at \in {"gather", "store"} => th[t].l <= lmax

(* The running indices are the macros: the coefficient of degree l and order *)
(* m, or of order 0 for a scatter, is at the index the next step computes.   *)
RunningIndex ==
  \A t \in Thread :
    LET s == th[t]
    IN  /\ s.at = "gather" => NextIndex(s.l, s.ll) = LM_cplx(mmax, s.l, s.m)
        /\ s.at = "store" => NextIndex(s.l, s.ll) = LM_cplx(mmax, s.l, 0)
        /\ s.at \in {"gather", "store"} => s.lm = LM(lmax, 1, s.l, s.m)

(* The memory a step of a thread writes, and what it reads. *)
TempOf(m) == {<<temp, k>> : temp \in {"rlm", "ilm"}, k \in OfOrder(m)}
RowsOf(m) ==
  IF m = 0 THEN {<<"row", k>> : k \in {0} \cup (mmax + 1 .. nphi - mmax - 1)}
           ELSE {<<"row", m>>, <<"row", nphi - m>>}
Writes(t) ==
  LET s == th[t]
      ll == NextIndex(s.l, s.ll)
  IN  CASE s.at = "gather" -> {<<"rlm", s.lm>>, <<"ilm", s.lm>>}
        [] s.at = "rows" -> RowsOf(s.m)
        [] s.at = "analyse" -> TempOf(s.m)
        [] s.at = "store" -> {<<"alm", ll - s.m>>, <<"alm", ll + s.m>>}
        [] OTHER -> {}
Reads(t) ==
  LET s == th[t]
      ll == NextIndex(s.l, s.ll)
  IN  CASE s.at = "gather" -> {<<"alm", ll>>, <<"alm", ll - 2 * s.m>>}
        [] s.at = "rows" -> TempOf(s.m)
        [] s.at = "analyse" -> RowsOf(s.m)
        [] s.at = "store" -> {<<"rlm", s.lm>>, <<"ilm", s.lm>>}
        [] OTHER -> {}

(* Threads work on orders of their own, but all gather from one array with a *)
(* single index, and scatter there: no two of them ever meet.                *)
NoRace ==
  \A t, u \in Thread : t # u => Writes(t) \cap (Writes(u) \cup Reads(u)) = {}

(* Inductive: a thread in the loop has the orders of its residue modulo the  *)
(* number of threads, and its indices are the macros of one degree less.     *)
OwnOrders ==
  \A t \in Thread : th[t].at # "out" => \E j \in Nat : th[t].m = t + j * nthreads
Indices ==
  \A t \in Thread :
    LET s == th[t]
    IN  /\ s.at \in {"gather", "rows", "analyse", "store"} => s.m <= mmax
        /\ s.at \in {"gather", "analyse", "store"} =>
             /\ s.m <= s.l /\ s.l <= lmax
             /\ s.lm = LM(lmax, 1, s.l, s.m)
             /\ s.ll = LM_cplx(mmax, s.l - 1, IF s.at = "gather" THEN s.m ELSE 0)
        /\ s.at = "analyse" => s.l = s.m
LoopInv ==
  /\ nthreads \in Nat \ {0}
  /\ th \in [Thread -> [at : At, m : Nat, l : Nat, ll : Int, lm : Int]]
  /\ OwnOrders /\ Indices

(* What the caller is promised, as the abstract field holds it: during a     *)
(* call, the result the call will have.                                      *)
zArray == IF z.domain = "grid" THEN z.row ELSE LostField
modes == IF stage = "fft" THEN zArray ELSE Mirrored(Q.row)
field == [lm \in DegreeOrder |-> alm[LM_cplx(mmax, lm[1], lm[2])]]
almBar == IF call = "analysis" THEN Expanded(modes) ELSE field
zBar ==
  IF call = "synthesis" THEN Evaluated(field)
  ELSE IF call = "analysis" /\ ~ layout.oop THEN LostField
  ELSE zArray

Field == INSTANCE CplxField WITH alm <- almBar, z <- zBar

(* However many threads there are and in whatever order they run, a call     *)
(* does what the abstract transform does in one step: every coefficient of   *)
(* either sign goes where LM_cplx says, with the sign of its order.          *)
Implements == Field!Spec
-----------------------------------------------------------------------------
(* Degree l of orders m and -m, as the temporary arrays hold them once they  *)
(* were gathered, or analysed.                                               *)
Plus(l, m) ==
  IF call = "synthesis" THEN IF m = 0 THEN Re(field[<<l, 0>>]) ELSE field[<<l, m>>]
  ELSE Projected(IF m = 0 THEN Re(Q.row[0]) ELSE Q.row[nphi - m], l)
Minus(l, m) ==
  IF call = "synthesis"
  THEN IF m = 0 THEN Im(field[<<l, 0>>]) ELSE Parity(m, field[<<l, -m>>])
  ELSE Projected(IF m = 0 THEN Im(Q.row[0]) ELSE Q.row[m], l)
Held(l, m) ==
  /\ rlm[LM(lmax, 1, l, m)] = Plus(l, m)
  /\ ilm[LM(lmax, 1, l, m)] = Minus(l, m)

(* An order that the thread it belongs to has not finished; its coefficients *)
(* are stored by increasing degree.                                          *)
Owner(m) == th[m % nthreads]
Pending(m) == Owner(m).at # "out" /\ Owner(m).m <= m
DegreePending(l, m) ==
  Pending(m) /\ (Owner(m).at = "store" /\ Owner(m).m = m => Owner(m).l <= l)
ModeDone(k) == Q.row[k] = Evaluated(field)[k]
DegreeDone(lm) == field[lm] = Expanded(modes)[lm]

(* Inductive: threads are in the loop of the call; the temporary arrays hold *)
(* what the next step reads; what is not pending is done. Order 0 zeroes the *)
(* modes that no order has.                                                  *)
CallInv ==
  \A t \in Thread :
    /\ th[t].at # "out" => call # "none" /\ stage = "region"
    /\ th[t].at \in {"gather", "rows"} => call = "synthesis"
    /\ th[t].at \in {"analyse", "store"} => call = "analysis"
TempInv ==
  \A t \in Thread, m \in 0 .. mmax : th[t].m = m =>
    \A l \in m .. lmax :
      th[t].at \in {"rows", "store"} \/ (th[t].at = "gather" /\ l < th[t].l) => Held(l, m)
ModeInv ==
  call = "synthesis" =>
    \A k \in Mode : LET m == Abs(OrderOf(k))
                    IN  ModeDone(k) \/ Pending(IF m <= mmax THEN m ELSE 0)
DegreeInv ==
  call = "analysis" /\ stage = "region" =>
    /\ ~ layout.oop => z.domain = "fourier"
    /\ \A lm \in DegreeOrder : DegreeDone(lm) \/ DegreePending(lm[1], Abs(lm[2]))
FieldInv == TypeOK /\ LoopInv /\ CallInv /\ TempInv /\ ModeInv /\ DegreeInv
=============================================================================
