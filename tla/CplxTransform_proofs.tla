----------------------- MODULE CplxTransform_proofs -----------------------
(* The parallel loops of the complex transforms never meet, for every        *)
(* truncation and every number of threads. The argument: the running indices *)
(* are the macros, so all that an iteration of order m touches is Memory(m); *)
(* the macros are injective, so two orders share no memory; and threads work *)
(* on orders of different residues. Then the contents: an order belongs to   *)
(* one thread, and what that thread has left behind is final, so that a call *)
(* does what the abstract transform does in one step.                        *)
EXTENDS CplxTransform, LmIndex_proofs

(* All that order m may touch. *)
Memory(m) ==
  RowsOf(m) \cup TempOf(m)
    \cup {<<"alm", LM_cplx(mmax, d, k)>> : d \in m .. lmax, k \in {m, -m}}

(* Orders share no memory: there are more rows than 2 * mmax, and the        *)
(* indices of the macros are distinct.                                       *)
LEMMA OrdersDisjoint ==
  ASSUME NEW m \in 0 .. mmax, NEW n \in 0 .. mmax, m < n
  PROVE  Memory(m) \cap Memory(n) = {}
<1> USE CplxSizeAssumption
<1>1. RowsOf(m) \cap RowsOf(n) = {}
  BY DEF RowsOf
<1>2. TempOf(m) \cap TempOf(n) = {}
  <2>1. LM(lmax, 1, lmax, m) < LM(lmax, 1, n, n)
    <3>1. lmax \in Nat /\ m \in Nat /\ n \in Nat /\ n <= lmax
      OBVIOUS
    <3> QED BY <3>1, OrdersApart
  <2>2. OfOrder(m) \cap OfOrder(n) = {}
    <3>1. LM(lmax, 1, lmax, m) \in Int /\ LM(lmax, 1, n, n) \in Int
      BY DEF LM
    <3> QED BY <2>1, <3>1 DEF OfOrder
  <2> QED BY <2>2 DEF TempOf
<1>3. ASSUME NEW d \in m .. lmax, NEW e \in n .. lmax, NEW j \in {m, -m}, NEW k \in {n, -n}
      PROVE  LM_cplx(mmax, d, j) # LM_cplx(mmax, e, k)
  <2>1. mmax \in Nat /\ d \in Nat /\ e \in Nat /\ j \in Int /\ k \in Int
    OBVIOUS
  <2>2. j <= d /\ j <= mmax /\ -d <= j /\ -mmax <= j /\ k <= e /\ k <= mmax /\ -e <= k /\ -mmax <= k
    OBVIOUS
  <2>3. j # k
    OBVIOUS
  <2> QED BY <2>1, <2>2, <2>3, CplxInjective
<1>4. \A x \in RowsOf(m) \cup RowsOf(n) : x[1] = "row"
  BY DEF RowsOf
<1>5. \A x \in TempOf(m) \cup TempOf(n) : x[1] \in {"rlm", "ilm"}
  BY DEF TempOf
<1> DEFINE A(x) == {<<"alm", LM_cplx(mmax, d, k)>> : d \in x .. lmax, k \in {x, -x}}
<1>6. A(m) \cap A(n) = {}
  BY <1>3
<1>7. \A x \in A(m) \cup A(n) : x[1] = "alm"
  OBVIOUS
<1>8. Memory(m) = RowsOf(m) \cup TempOf(m) \cup A(m) /\ Memory(n) = RowsOf(n) \cup TempOf(n) \cup A(n)
  BY DEF Memory
<1> HIDE DEF A
<1> QED BY <1>1, <1>2, <1>4, <1>5, <1>6, <1>7, <1>8

(* Two threads never have the same order. *)
LEMMA ResiduesApart ==
  ASSUME NEW T \in Nat, NEW t \in 0 .. T - 1, NEW u \in 0 .. T - 1, t # u,
         NEW i \in Nat, NEW j \in Nat
  PROVE  t + i * T # u + j * T
<1>1. \A a, b \in Nat : a < b => a * T + T <= b * T
  <2> SUFFICES ASSUME NEW a \in Nat, NEW b \in Nat, a < b PROVE a * T + T <= b * T
    OBVIOUS
  <2> DEFINE k == b - (a + 1)
  <2>1. k \in Nat /\ b = a + 1 + k
    OBVIOUS
  <2> HIDE DEF k
  <2>2. b * T = a * T + T + k * T /\ k * T >= 0
    BY <2>1
  <2>3. a * T \in Int /\ b * T \in Int /\ k * T \in Int
    BY <2>1
  <2> QED BY <2>2, <2>3
<1>2. i * T \in Int /\ j * T \in Int
  OBVIOUS
<1>3. CASE i = j
  BY <1>2, <1>3
<1>4. CASE i < j
  <2>1. i * T + T <= j * T
    BY <1>1, <1>4
  <2> QED BY <1>2, <2>1
<1>5. CASE j < i
  <2>1. j * T + T <= i * T
    BY <1>1, <1>5
  <2> QED BY <1>2, <2>1
<1> QED BY <1>3, <1>4, <1>5

-----------------------------------------------------------------------------
(* Initially all threads are out of the loop. *)
LEMMA InitLoopInv == Init => LoopInv
<1> SUFFICES ASSUME Init PROVE LoopInv
  OBVIOUS
<1>1. nthreads \in Nat \ {0} /\ th = [t \in Thread |-> Out]
  BY TeamAssumption DEF Init
<1> QED BY <1>1 DEF LoopInv, OwnOrders, Indices, Out, At

(* A thread enters the loop with its number for first order. *)
LEMMA EnterLoopInv ==
  ASSUME LoopInv, nthreads' = nthreads, th' = [t \in Thread |-> Loop(t)]
  PROVE  LoopInv'
<1>1. nthreads \in Nat \ {0}
  BY DEF LoopInv
<1>2. Thread' = Thread /\ Thread \subseteq Nat
  BY <1>1 DEF Thread
<1>3. (th \in [Thread -> [at : At, m : Nat, l : Nat, ll : Int, lm : Int]])'
  BY <1>2 DEF Loop, At
<1>4. OwnOrders'
  <2> SUFFICES ASSUME NEW t \in Thread PROVE \E j \in Nat : th'[t].m = t + j * nthreads
    BY <1>2 DEF OwnOrders
  <2>1. th'[t].m = t + 0 * nthreads
    BY <1>1, <1>2 DEF Loop
  <2> QED BY <2>1
<1>5. Indices'
  BY <1>2 DEF Indices, Loop
<1> QED BY <1>1, <1>3, <1>4, <1>5 DEF LoopInv

(* What a step must give the thread that takes it for the invariant to hold  *)
(* again: the other threads are where they were.                             *)
Good(t, s) ==
  /\ s \in [at : At, m : Nat, l : Nat, ll : Int, lm : Int]
  /\ s.at # "out" => \E j \in Nat : s.m = t + j * nthreads
  /\ s.at \in {"gather", "rows", "analyse", "store"} => s.m <= mmax
  /\ s.at \in {"gather", "analyse", "store"} =>
       /\ s.m <= s.l /\ s.l <= lmax
       /\ s.lm = LM(lmax, 1, s.l, s.m)
       /\ s.ll = LM_cplx(mmax, s.l - 1, IF s.at = "gather" THEN s.m ELSE 0)
  /\ s.at = "analyse" => s.l = s.m

(* LoopInv, said of one thread at a time. *)
LEMMA GoodIsInv ==
  LoopInv <=> /\ nthreads \in Nat \ {0}
              /\ th = [t \in Thread |-> th[t]]
              /\ \A t \in Thread : Good(t, th[t])
<1>1. LoopInv => /\ nthreads \in Nat \ {0}
                 /\ th = [t \in Thread |-> th[t]]
                 /\ \A t \in Thread : Good(t, th[t])
  BY DEF LoopInv, OwnOrders, Indices, Good
<1>2. ASSUME nthreads \in Nat \ {0}, th = [t \in Thread |-> th[t]],
             \A t \in Thread : Good(t, th[t])
      PROVE  LoopInv
  <2>1. th \in [Thread -> [at : At, m : Nat, l : Nat, ll : Int, lm : Int]]
    BY <1>2 DEF Good
  <2> QED BY <1>2, <2>1 DEF LoopInv, OwnOrders, Indices, Good
<1> QED BY <1>1, <1>2

(* A step that leaves one thread good, and the others alone, keeps LoopInv. *)
LEMMA ThreadInv ==
  ASSUME LoopInv, NEW t \in Thread, NEW s, Good(t, s),
         nthreads' = nthreads, th' = [th EXCEPT ![t] = s]
  PROVE  LoopInv'
<1>1. /\ nthreads \in Nat \ {0} /\ th = [u \in Thread |-> th[u]]
      /\ \A u \in Thread : Good(u, th[u])
  BY GoodIsInv
<1>2. Thread' = Thread
  BY DEF Thread
<1>3. th' = [u \in Thread |-> IF u = t THEN s ELSE th[u]]
  BY <1>1
<1>4. \A u \in Thread : th'[u] = IF u = t THEN s ELSE th[u]
  BY <1>3
<1>5. \A u \in Thread : Good(u, th'[u])
  BY <1>1, <1>4
<1>6. (th \in [Thread -> [at : At, m : Nat, l : Nat, ll : Int, lm : Int]])'
  <2>1. \A u \in Thread : th'[u] \in [at : At, m : Nat, l : Nat, ll : Int, lm : Int]
    BY <1>5 DEF Good
  <2> QED BY <1>2, <1>3, <2>1
<1>7. OwnOrders'
  BY <1>2, <1>5 DEF OwnOrders, Good
<1>8. Indices'
  BY <1>2, <1>5 DEF Indices, Good
<1> QED BY <1>1, <1>6, <1>7, <1>8 DEF LoopInv

(* The index a step computes is the macro of its own degree. *)
LEMMA IndexIsMacro ==
  ASSUME LoopInv, NEW t \in Thread, th[t].at \in {"gather", "store"}
  PROVE  /\ NextIndex(th[t].l, th[t].ll)
              = LM_cplx(mmax, th[t].l, IF th[t].at = "gather" THEN th[t].m ELSE 0)
         /\ th[t].lm = LM(lmax, 1, th[t].l, th[t].m)
         /\ th[t].m \in 0 .. mmax /\ th[t].l \in th[t].m .. lmax
<1>1. Good(t, th[t])
  BY GoodIsInv
<1>2. th[t].l \in Nat /\ th[t].m \in Nat /\ mmax \in Nat
  BY <1>1, CplxSizeAssumption DEF Good
<1>3. \A m \in Int : NextIndex(th[t].l, LM_cplx(mmax, th[t].l - 1, m)) = LM_cplx(mmax, th[t].l, m)
  BY <1>2, CplxStep DEF NextIndex
<1> QED BY <1>1, <1>2, <1>3, CplxSizeAssumption DEF Good

(* The next degree of an order keeps the indices on the macros. *)
LEMMA NextDegreeGood ==
  ASSUME LoopInv, NEW t \in Thread, th[t].at \in {"gather", "store"},
         NEW after \in {"rows", "loop"}
  PROVE  Good(t, NextDegree(t, after))
<1> DEFINE s == th[t]
           r == NextDegree(t, after)
<1>1. Good(t, s) /\ s.at \in {"gather", "store"}
  BY GoodIsInv
<1>2. /\ r.at = (IF s.l < lmax THEN s.at ELSE after) /\ r.m = s.m /\ r.l = s.l + 1
      /\ r.ll = NextIndex(s.l, s.ll) /\ r.lm = s.lm + 1
      /\ r \in [at : At, m : Nat, l : Nat, ll : Int, lm : Int]
  <2>1. NextIndex(s.l, s.ll) \in Int
    BY <1>1, CplxSizeAssumption DEF Good, NextIndex
  <2>2. s \in [at : At, m : Nat, l : Nat, ll : Int, lm : Int]
    BY <1>1 DEF Good
  <2>3. r = [at |-> IF s.l < lmax THEN s.at ELSE after, m |-> s.m, l |-> s.l + 1,
             ll |-> NextIndex(s.l, s.ll), lm |-> s.lm + 1]
    BY DEF NextDegree
  <2>4. (IF s.l < lmax THEN s.at ELSE after) \in At
    BY <2>2 DEF At
  <2> HIDE DEF s, r
  <2> QED BY <2>1, <2>2, <2>3, <2>4
<1>3. /\ NextIndex(s.l, s.ll) = LM_cplx(mmax, s.l, IF s.at = "gather" THEN s.m ELSE 0)
      /\ s.lm = LM(lmax, 1, s.l, s.m)
      /\ s.m \in 0 .. mmax /\ s.l \in s.m .. lmax
  BY <1>1, IndexIsMacro
<1>4. s.lm + 1 = LM(lmax, 1, s.l + 1, s.m) /\ (s.l + 1) - 1 = s.l
  <2>1. s.l \in Int /\ s.m \in Int /\ lmax \in Nat
    BY <1>3, CplxSizeAssumption
  <2>2. ((s.m \div 1) * (2 * lmax + 2 - (s.m + 1))) \div 2 \in Int
    BY <2>1
  <2> QED BY <1>3, <2>1, <2>2 DEF LM
<1> HIDE DEF s, r
<1>5. s.l < lmax => s.l + 1 <= lmax /\ s.m <= s.l + 1
  BY <1>3, CplxSizeAssumption
<1>6. s.at # "out" /\ \E j \in Nat : s.m = t + j * nthreads
  BY <1>1 DEF Good
<1> QED BY <1>1, <1>2, <1>3, <1>4, <1>5, <1>6 DEF Good, r

(* The next order of a thread has its residue again. *)
LEMMA NextOrderGood ==
  ASSUME LoopInv, NEW t \in Thread, th[t].at # "out"
  PROVE  Good(t, Loop(th[t].m + nthreads))
<1>1. Good(t, th[t]) /\ nthreads \in Nat \ {0}
  BY GoodIsInv
<1>2. PICK j \in Nat : th[t].m = t + j * nthreads
  BY <1>1 DEF Good
<1>3. t \in Nat
  BY <1>1 DEF Thread
<1>4. th[t].m + nthreads = t + (j + 1) * nthreads /\ j + 1 \in Nat
  BY <1>1, <1>2, <1>3
<1>5. th[t].m + nthreads \in Nat
  BY <1>1 DEF Good
<1> QED BY <1>4, <1>5 DEF Good, Loop, At

(* Every step of a thread keeps the loop invariant. *)
LEMMA StepInv ==
  ASSUME LoopInv, NEW t \in Thread, Step(t)
  PROVE  LoopInv'
<1>1. /\ nthreads \in Nat \ {0} /\ Good(t, th[t])
      /\ lmax \in Nat /\ mmax \in Nat /\ mmax <= lmax
  BY GoodIsInv, CplxSizeAssumption
<1>2. CASE StartOrder(t)
  <2> DEFINE m == th[t].m
             s == [at |-> IF call = "synthesis" THEN "gather" ELSE "analyse", m |-> m, l |-> m,
                   ll |-> IF call = "synthesis" THEN m * m ELSE (m - 1) * m,
                   lm |-> LM(lmax, 1, m, m)]
  <2>1. th' = [th EXCEPT ![t] = s] /\ nthreads' = nthreads /\ m <= mmax /\ th[t].at = "loop"
    BY <1>2 DEF StartOrder
  <2>2. m \in Nat
    BY <1>1 DEF Good
  <2>3. LM_cplx(mmax, m - 1, m) = m * m /\ LM_cplx(mmax, m - 1, 0) = (m - 1) * m
    <3>1. m - 1 <= mmax /\ (m - 1) + 1 = m
      BY <1>1, <2>1, <2>2
    <3>2. (m - 1) * m + m = m * m
      BY <2>2
    <3> QED BY <2>2, <3>1, <3>2 DEF LM_cplx
  <2>4. LM(lmax, 1, m, m) \in Int /\ m * m \in Int /\ (m - 1) * m \in Int
    BY <1>1, <2>2 DEF LM
  <2>5. \E j \in Nat : m = t + j * nthreads
    BY <1>1, <2>1 DEF Good
  <2> HIDE DEF m
  <2>6. Good(t, s)
    <3>1. s.at \in {"gather", "analyse"} /\ s.m = m /\ s.l = m /\ s.lm = LM(lmax, 1, m, m)
      OBVIOUS
    <3>2. s \in [at : At, m : Nat, l : Nat, ll : Int, lm : Int]
      BY <2>2, <2>4 DEF At
    <3>3. s.ll = LM_cplx(mmax, s.l - 1, IF s.at = "gather" THEN s.m ELSE 0)
      BY <2>3
    <3>4. m <= lmax
      BY <1>1, <2>1, <2>2
    <3> HIDE DEF s
    <3> QED BY <2>1, <2>2, <2>5, <3>1, <3>2, <3>3, <3>4 DEF Good
  <2> QED BY <2>1, <2>6, ThreadInv
<1>3. CASE LeaveLoop(t)
  <2>1. th' = [th EXCEPT ![t] = Out] /\ nthreads' = nthreads
    BY <1>3 DEF LeaveLoop
  <2>2. Good(t, Out)
    BY DEF Good, Out, At
  <2> QED BY <2>1, <2>2, ThreadInv
<1>4. CASE Gather(t)
  <2>1. th' = [th EXCEPT ![t] = NextDegree(t, "rows")] /\ nthreads' = nthreads
        /\ th[t].at = "gather"
    BY <1>4 DEF Gather
  <2>2. Good(t, NextDegree(t, "rows"))
    BY <2>1, NextDegreeGood
  <2> QED BY <2>1, <2>2, ThreadInv
<1>5. CASE Rows(t)
  <2>1. th' = [th EXCEPT ![t] = Loop(th[t].m + nthreads)] /\ nthreads' = nthreads
        /\ th[t].at # "out"
    BY <1>5 DEF Rows, NextOrder
  <2>2. Good(t, Loop(th[t].m + nthreads))
    BY <2>1, NextOrderGood
  <2> QED BY <2>1, <2>2, ThreadInv
<1>6. CASE Analyse(t)
  <2> DEFINE s == [th[t] EXCEPT !.at = "store"]
  <2>1. th' = [th EXCEPT ![t] = s] /\ nthreads' = nthreads /\ th[t].at = "analyse"
    BY <1>6 DEF Analyse
  <2>2. Good(t, s)
    BY <1>1, <2>1 DEF Good, At
  <2> QED BY <2>1, <2>2, ThreadInv
<1>7. CASE Store(t)
  <2>1. nthreads' = nthreads /\ th[t].at = "store"
    BY <1>7 DEF Store
  <2>2. CASE th[t].l < lmax
    <3>1. th' = [th EXCEPT ![t] = NextDegree(t, "loop")]
      BY <1>7, <2>2 DEF Store
    <3>2. Good(t, NextDegree(t, "loop"))
      BY <2>1, NextDegreeGood
    <3> QED BY <2>1, <3>1, <3>2, ThreadInv
  <2>3. CASE ~ (th[t].l < lmax)
    <3>1. th' = [th EXCEPT ![t] = Loop(th[t].m + nthreads)]
      BY <1>7, <2>3 DEF Store, NextOrder
    <3>2. Good(t, Loop(th[t].m + nthreads))
      BY <2>1, NextOrderGood
    <3> QED BY <2>1, <3>1, <3>2, ThreadInv
  <2> QED BY <2>2, <2>3
<1> QED BY <1>2, <1>3, <1>4, <1>5, <1>6, <1>7 DEF Step

(* The loop invariant does not depend on other variables. *)
LEMMA StutterInv ==
  ASSUME LoopInv, th' = th, nthreads' = nthreads
  PROVE  LoopInv'
<1>1. Thread' = Thread
  BY DEF Thread
<1> QED BY <1>1 DEF LoopInv, OwnOrders, Indices

(* Every step keeps the loop invariant. *)
LEMMA NextInv == LoopInv /\ [Next]_vars => LoopInv'
<1> SUFFICES ASSUME LoopInv, [Next]_vars PROVE LoopInv'
  OBVIOUS
<1>1. CASE FillArray \/ Analysis \/ EndRegion \/ InverseFft \/ UNCHANGED vars
  <2>1. th' = th /\ nthreads' = nthreads
    BY <1>1 DEF FillArray, Analysis, EndRegion, InverseFft, vars
  <2> QED BY <2>1, StutterInv
<1>2. CASE Synthesis \/ ForwardFft
  <2>1. th' = [t \in Thread |-> Loop(t)] /\ nthreads' = nthreads
    BY <1>2 DEF Synthesis, ForwardFft, EnterRegion
  <2> QED BY <2>1, EnterLoopInv
<1>3. CASE \E t \in Thread : Step(t)
  BY <1>3, StepInv
<1> QED BY <1>1, <1>2, <1>3 DEF Next, Master

(* The invariant of the parallel loops: threads keep to their own orders, and*)
(* running indices are the macros of one degree less.                        *)
THEOREM LoopInvariant == Spec => []LoopInv
<1>1. Init => LoopInv
  BY InitLoopInv
<1>2. LoopInv /\ [Next]_vars => LoopInv'
  BY NextInv
<1> QED BY <1>1, <1>2, PTL DEF Spec

(* The running indices of spat_cplx_to_SH and SH_to_spat_cplx are LM_cplx    *)
(* and LM at every step, whatever the truncation.                            *)
THEOREM IndexAlwaysMacro == Spec => []RunningIndex
<1>1. LoopInv => RunningIndex
  BY IndexIsMacro DEF RunningIndex
<1> QED BY <1>1, LoopInvariant, PTL

(* No two threads of a complex transform touch the same row, temporary or    *)
(* coefficient, whatever the number of threads.                              *)
THEOREM NeverRace == Spec => []NoRace
<1>1. ASSUME LoopInv, NEW t \in Thread
      PROVE  \/ Writes(t) = {} /\ Reads(t) = {}
             \/ /\ th[t].m \in 0 .. mmax /\ th[t].at # "out"
                /\ Writes(t) \cup Reads(t) \subseteq Memory(th[t].m)
  <2> DEFINE s == th[t]
             ll == NextIndex(s.l, s.ll)
  <2>1. Good(t, s) /\ mmax \in Nat /\ lmax \in Nat
    BY <1>1, GoodIsInv, CplxSizeAssumption
  <2>2. s.at \in At
    BY <2>1 DEF Good
  <2>3. s.at \in {"gather", "rows", "analyse", "store"} => s.m \in 0 .. mmax /\ s.at # "out"
    BY <2>1 DEF Good
  <2>4. s.at \in {"gather", "store"} => s.lm \in OfOrder(s.m)
    <3> SUFFICES ASSUME s.at \in {"gather", "store"} PROVE s.lm \in OfOrder(s.m)
      OBVIOUS
    <3>1. s.lm = LM(lmax, 1, s.l, s.m) /\ s.m \in 0 .. mmax /\ s.l \in s.m .. lmax
      BY <1>1, IndexIsMacro
    <3> DEFINE h == ((s.m \div 1) * (2 * lmax + 2 - (s.m + 1))) \div 2
    <3>2. h \in Int /\ s.m \in Int /\ s.l \in Int
      BY <2>1, <3>1
    <3>3. LM(lmax, 1, s.l, s.m) = h + s.l /\ LM(lmax, 1, s.m, s.m) = h + s.m
          /\ LM(lmax, 1, lmax, s.m) = h + lmax
      BY DEF LM
    <3> HIDE DEF h, s
    <3> QED BY <2>1, <3>1, <3>2, <3>3 DEF OfOrder
  <2>5. CASE s.at = "gather"
    <3>1. ll = LM_cplx(mmax, s.l, s.m) /\ s.l \in s.m .. lmax /\ s.m \in Nat
      BY <1>1, <2>5, IndexIsMacro
    <3>2. ll - 2 * s.m = LM_cplx(mmax, s.l, -s.m)
      <4>1. s.l * (s.l + 1) \in Int /\ mmax * (2 * s.l - mmax) \in Int /\ s.l \in Int
        BY <2>1, <3>1
      <4> QED BY <3>1, <4>1 DEF LM_cplx
    <3>3. Writes(t) = {<<"rlm", s.lm>>, <<"ilm", s.lm>>}
          /\ Reads(t) = {<<"alm", ll>>, <<"alm", ll - 2 * s.m>>}
      BY <2>5 DEF Writes, Reads
    <3>4. Writes(t) \subseteq TempOf(s.m)
      BY <2>4, <2>5, <3>3 DEF TempOf
    <3>5. Reads(t) \subseteq Memory(s.m)
      BY <3>1, <3>2, <3>3 DEF Memory
    <3> QED BY <2>3, <2>5, <3>4, <3>5 DEF Memory
  <2>6. CASE s.at = "store"
    <3>1. ll = LM_cplx(mmax, s.l, 0) /\ s.l \in s.m .. lmax /\ s.m \in Nat
      BY <1>1, <2>6, IndexIsMacro
    <3>2. ll - s.m = LM_cplx(mmax, s.l, -s.m) /\ ll + s.m = LM_cplx(mmax, s.l, s.m)
      <4>1. s.l * (s.l + 1) \in Int /\ mmax * (2 * s.l - mmax) \in Int /\ s.l \in Int
        BY <2>1, <3>1
      <4> QED BY <3>1, <4>1 DEF LM_cplx
    <3>3. Reads(t) = {<<"rlm", s.lm>>, <<"ilm", s.lm>>}
          /\ Writes(t) = {<<"alm", ll - s.m>>, <<"alm", ll + s.m>>}
      BY <2>6 DEF Writes, Reads
    <3>4. Reads(t) \subseteq TempOf(s.m)
      BY <2>4, <2>6, <3>3 DEF TempOf
    <3>5. Writes(t) \subseteq Memory(s.m)
      BY <3>1, <3>2, <3>3 DEF Memory
    <3> QED BY <2>3, <2>6, <3>4, <3>5 DEF Memory
  <2>7. CASE s.at \in {"rows", "analyse"}
    <3>1. Writes(t) \cup Reads(t) = RowsOf(s.m) \cup TempOf(s.m)
      BY <2>7 DEF Writes, Reads
    <3> QED BY <2>3, <2>7, <3>1 DEF Memory
  <2>8. CASE s.at \in {"out", "loop"}
    BY <2>8 DEF Writes, Reads
  <2> QED BY <2>2, <2>5, <2>6, <2>7, <2>8 DEF At
<1>2. ASSUME LoopInv, NEW t \in Thread, NEW u \in Thread, t # u,
             th[t].at # "out", th[u].at # "out"
      PROVE  th[t].m # th[u].m
  <2>1. nthreads \in Nat /\ Good(t, th[t]) /\ Good(u, th[u])
    BY <1>2, GoodIsInv
  <2>2. PICK i \in Nat : th[t].m = t + i * nthreads
    BY <1>2, <2>1 DEF Good
  <2>3. PICK j \in Nat : th[u].m = u + j * nthreads
    BY <1>2, <2>1 DEF Good
  <2>4. t \in 0 .. nthreads - 1 /\ u \in 0 .. nthreads - 1
    BY DEF Thread
  <2> QED BY <1>2, <2>1, <2>2, <2>3, <2>4, ResiduesApart
<1>3. \A m, n \in 0 .. mmax : m # n => Memory(m) \cap Memory(n) = {}
  <2> TAKE m, n \in 0 .. mmax
  <2>1. m < n => Memory(m) \cap Memory(n) = {}
    BY OrdersDisjoint
  <2>2. n < m => Memory(n) \cap Memory(m) = {}
    BY OrdersDisjoint
  <2>3. m \in Int /\ n \in Int
    OBVIOUS
  <2> QED BY <2>1, <2>2, <2>3
<1>4. LoopInv => NoRace
  <2> SUFFICES ASSUME LoopInv, NEW t \in Thread, NEW u \in Thread, t # u
               PROVE  Writes(t) \cap (Writes(u) \cup Reads(u)) = {}
    BY DEF NoRace
  <2>1. CASE Writes(t) = {} \/ (Writes(u) = {} /\ Reads(u) = {})
    BY <2>1
  <2>2. CASE ~ (Writes(t) = {} \/ (Writes(u) = {} /\ Reads(u) = {}))
    <3>1. /\ th[t].m \in 0 .. mmax /\ th[t].at # "out"
          /\ Writes(t) \cup Reads(t) \subseteq Memory(th[t].m)
      BY <1>1, <2>2
    <3>2. /\ th[u].m \in 0 .. mmax /\ th[u].at # "out"
          /\ Writes(u) \cup Reads(u) \subseteq Memory(th[u].m)
      BY <1>1, <2>2
    <3>3. Memory(th[t].m) \cap Memory(th[u].m) = {}
      BY <1>2, <1>3, <3>1, <3>2
    <3> QED BY <3>1, <3>2, <3>3
  <2> QED BY <2>1, <2>2
<1> QED BY <1>4, LoopInvariant, PTL

-----------------------------------------------------------------------------
(* What a transform computes of values is a value, and unknown only if one   *)
(* of them is.                                                               *)
LEMMA ParityValue ==
  ASSUME NEW v \in Value, NEW m \in Int
  PROVE  /\ Parity(m, v) \in Value
         /\ Parity(m, v) = Unknown <=> v = Unknown
<1>1. CASE v = Unknown
  BY <1>1 DEF Parity, Unknown, Value
<1>2. CASE v \in SUBSET Term
  <2>1. \A c \in v : /\ c[1] \in {"re", "im"} /\ c[2] \in 0 .. lmax
                     /\ c[3] \in -mmax .. mmax /\ c[4] \in {1, -1}
    BY <1>2 DEF Term
  <2> DEFINE w == {<<c[1], c[2], c[3], -c[4]>> : c \in v}
  <2>2. w \in SUBSET Term
    <3>1. \A c \in v : -c[4] \in {1, -1}
      BY <2>1
    <3>2. \A c \in v : <<c[1], c[2], c[3], -c[4]>> \in Term
      BY <2>1, <3>1 DEF Term
    <3> QED BY <3>2
  <2>3. w # Unknown /\ v # Unknown
    <3>1. \A x \in w : x[1] \in {"re", "im"}
      BY <2>1
    <3>2. <<"?", 0, 0, 0>>[1] \notin {"re", "im"}
      OBVIOUS
    <3> HIDE DEF w
    <3> QED BY <2>1, <3>1, <3>2 DEF Unknown
  <2> HIDE DEF w
  <2>4. Parity(m, v) = v \/ Parity(m, v) = w
    BY DEF Parity, w
  <2> QED BY <1>2, <2>2, <2>3, <2>4 DEF Value
<1> QED BY <1>1, <1>2 DEF Value

LEMMA TermNotUnknown ==
  ASSUME NEW v \in SUBSET Term
  PROVE  v # Unknown /\ v \in Value
<1>1. \A c \in v : c[1] \in {"re", "im"}
  BY DEF Term
<1>2. <<"?", 0, 0, 0>>[1] \notin {"re", "im"}
  OBVIOUS
<1> QED BY <1>1, <1>2 DEF Unknown, Value

LEMMA PartValue ==
  ASSUME NEW v \in Value
  PROVE  /\ Re(v) \in Value /\ Im(v) \in Value
         /\ Re(v) = Unknown <=> v = Unknown
         /\ Im(v) = Unknown <=> v = Unknown
         /\ v # Unknown => Re(v) \cup Im(v) = v
<1>1. CASE v = Unknown
  BY <1>1 DEF Re, Im, Value
<1>2. CASE v \in SUBSET Term
  <2>1. \A c \in v : c[1] \in {"re", "im"}
    BY <1>2 DEF Term
  <2>2. v # Unknown
    BY <1>2, TermNotUnknown
  <2>3. Re(v) \in SUBSET Term /\ Im(v) \in SUBSET Term
    BY <1>2, <2>2 DEF Re, Im
  <2>4. Re(v) # Unknown /\ Im(v) # Unknown /\ Re(v) \in Value /\ Im(v) \in Value
    BY <2>3, TermNotUnknown
  <2> QED BY <2>1, <2>2, <2>4 DEF Re, Im
<1> QED BY <1>1, <1>2 DEF Value

LEMMA ProjectedValue ==
  ASSUME NEW v \in Value, NEW l
  PROVE  /\ Projected(v, l) \in Value
         /\ Projected(v, l) = Unknown <=> v = Unknown
<1>1. CASE v = Unknown
  BY <1>1 DEF Projected, Value
<1>2. CASE v \in SUBSET Term
  <2>1. v # Unknown
    BY <1>2, TermNotUnknown
  <2>2. Projected(v, l) \in SUBSET Term
    BY <1>2, <2>1 DEF Projected
  <2> QED BY <2>1, <2>2, TermNotUnknown
<1> QED BY <1>1, <1>2 DEF Value

LEMMA SumValue ==
  ASSUME NEW S \in SUBSET Value
  PROVE  /\ Sum(S) \in Value
         /\ Sum(S) = Unknown <=> Unknown \in S
<1>1. CASE Unknown \in S
  BY <1>1 DEF Sum, Value
<1>2. CASE Unknown \notin S
  <2>1. S \subseteq SUBSET Term
    BY <1>2 DEF Value
  <2>2. Sum(S) \in SUBSET Term
    BY <1>2, <2>1 DEF Sum
  <2> QED BY <1>2, <2>2, TermNotUnknown
<1> QED BY <1>1, <1>2

(* The sum of both parts of the terms is the sum of the terms. *)
LEMMA SumOfParts ==
  ASSUME NEW D, NEW f \in [D -> Value]
  PROVE  Sum({Re(f[d]) : d \in D} \cup {Im(f[d]) : d \in D}) = Sum({f[d] : d \in D})
<1> DEFINE A == {Re(f[d]) : d \in D}
           B == {Im(f[d]) : d \in D}
           C == {f[d] : d \in D}
<1>1. \A d \in D : f[d] \in Value
  OBVIOUS
<1>2. \A d \in D : /\ Re(f[d]) = Unknown <=> f[d] = Unknown
                   /\ Im(f[d]) = Unknown <=> f[d] = Unknown
                   /\ f[d] # Unknown => Re(f[d]) \cup Im(f[d]) = f[d]
  BY <1>1, PartValue
<1>3. (Unknown \in A \cup B) <=> (Unknown \in C)
  BY <1>2
<1>4. CASE Unknown \in C
  BY <1>3, <1>4 DEF Sum
<1>5. CASE Unknown \notin C
  <2>1. \A d \in D : Re(f[d]) \cup Im(f[d]) = f[d]
    BY <1>2, <1>5
  <2>2. UNION (A \cup B) = UNION C
    <3>1. ASSUME NEW x, x \in UNION (A \cup B) PROVE x \in UNION C
      <4>1. PICK d \in D : x \in Re(f[d]) \/ x \in Im(f[d])
        BY <3>1
      <4> QED BY <2>1, <4>1
    <3>2. ASSUME NEW x, x \in UNION C PROVE x \in UNION (A \cup B)
      <4>1. PICK d \in D : x \in f[d]
        BY <3>2
      <4>2. x \in Re(f[d]) \/ x \in Im(f[d])
        BY <2>1, <4>1
      <4> QED BY <4>2
    <3> HIDE DEF A, B, C
    <3> QED BY <3>1, <3>2
  <2> QED BY <1>3, <1>5, <2>2 DEF Sum
<1> QED BY <1>4, <1>5

LEMMA ProjectedParts ==
  ASSUME NEW v \in Value, NEW l
  PROVE  Sum({Projected(Re(v), l), Projected(Im(v), l)}) = Projected(v, l)
<1>1. CASE v = Unknown
  BY <1>1 DEF Re, Im, Projected, Sum
<1>2. CASE v # Unknown
  <2>1. /\ Re(v) # Unknown /\ Im(v) # Unknown /\ Re(v) \cup Im(v) = v
        /\ Re(v) \in Value /\ Im(v) \in Value
    BY <1>2, PartValue
  <2>2. Projected(Re(v), l) # Unknown /\ Projected(Im(v), l) # Unknown
    BY <2>1, ProjectedValue
  <2>3. Sum({Projected(Re(v), l), Projected(Im(v), l)})
          = Projected(Re(v), l) \cup Projected(Im(v), l)
    BY <2>2 DEF Sum
  <2> QED BY <1>2, <2>1, <2>3 DEF Projected
<1> QED BY <1>1, <1>2

(* The sign of an order is the sign of its opposite, and goes through sums.  *)
LEMMA ParityOpposite ==
  ASSUME NEW m \in Int, NEW v
  PROVE  Parity(-m, v) = Parity(m, v)
<1>1. (-m) % 2 = 0 <=> m % 2 = 0
  OBVIOUS
<1> QED BY <1>1 DEF Parity

LEMMA SumParity ==
  ASSUME NEW D, NEW f \in [D -> Value], NEW m \in Int
  PROVE  Sum({Parity(m, f[d]) : d \in D}) = Parity(m, Sum({f[d] : d \in D}))
<1>1. CASE m % 2 = 0
  BY <1>1 DEF Parity
<1>2. CASE m % 2 # 0
  <2>1. \A d \in D : Parity(m, f[d]) = Unknown <=> f[d] = Unknown
    BY ParityValue
  <2>2. CASE \E d \in D : f[d] = Unknown
    <3>1. Sum({f[d] : d \in D}) = Unknown
      BY <2>2 DEF Sum
    <3>2. Sum({Parity(m, f[d]) : d \in D}) = Unknown
      BY <2>1, <2>2 DEF Sum
    <3>3. Parity(m, Unknown) = Unknown
      BY ParityValue DEF Value
    <3> QED BY <3>1, <3>2, <3>3
  <2>3. CASE \A d \in D : f[d] # Unknown
    <3>1. Sum({f[d] : d \in D}) = UNION {f[d] : d \in D}
      BY <2>3 DEF Sum
    <3>2. Sum({Parity(m, f[d]) : d \in D}) = UNION {Parity(m, f[d]) : d \in D}
      BY <2>1, <2>3 DEF Sum
    <3>3. \A v : Parity(m, v) = {<<c[1], c[2], c[3], -c[4]>> : c \in v}
      BY <1>2 DEF Parity
    <3>4. UNION {Parity(m, f[d]) : d \in D} \subseteq Parity(m, UNION {f[d] : d \in D})
      BY <3>3
    <3>5. Parity(m, UNION {f[d] : d \in D}) \subseteq UNION {Parity(m, f[d]) : d \in D}
      BY <3>3
    <3> QED BY <3>1, <3>2, <3>4, <3>5
  <2> QED BY <2>2, <2>3
<1> QED BY <1>1, <1>2

-----------------------------------------------------------------------------
(* The positions LM gives are those of the temporary arrays, and distinct.   *)
LEMMA TempPosition ==
  ASSUME NEW m \in 0 .. mmax, NEW l \in m .. lmax
  PROVE  LM(lmax, 1, l, m) \in 0 .. nlm - 1
<1>1. /\ lmax \in Nat /\ mmax \in Nat /\ mmax <= lmax /\ m \in Nat /\ l \in Nat
      /\ m <= mmax /\ l <= lmax /\ m <= lmax
  BY CplxSizeAssumption
<1> DEFINE h == (m * (2 * lmax + 2 - (m + 1))) \div 2
<1>2. h \in Nat
  <2>1. m * (2 * lmax + 2 - (m + 1)) \in Nat
    BY <1>1
  <2> QED BY <2>1
<1>3. LM(lmax, 1, l, m) = h + l /\ LiM(lmax, 1, lmax + 1, m) = h + (lmax + 1)
  <2>1. m \div 1 = m /\ (m + 1) * 1 = m + 1
    BY <1>1
  <2> QED BY <2>1 DEF LM, LiM
<1>4. h + (lmax + 1) <= nlm
  <2>1. LiM(lmax, 1, lmax + 1, m) <= LiM(lmax, 1, lmax + 1, mmax)
    BY <1>1, OrdersGrow
  <2>2. nlm = LiM(lmax, 1, lmax + 1, mmax)
    BY <1>1, NlmIsEnd DEF nlm
  <2> QED BY <1>3, <2>1, <2>2
<1>5. nlm \in Int
  <2>1. nlm = LiM(lmax, 1, lmax + 1, mmax)
    BY <1>1, NlmIsEnd DEF nlm
  <2>2. LiM(lmax, 1, lmax + 1, mmax) = mmax * (lmax + 1) - 1 * Triangle(mmax) + (lmax + 1)
    BY <1>1, LiMAtEnd
  <2> QED BY <1>1, <2>1, <2>2, TriangleExact
<1> HIDE DEF h
<1> QED BY <1>1, <1>2, <1>3, <1>4, <1>5

LEMMA TempApart ==
  ASSUME NEW m \in 0 .. mmax, NEW l \in m .. lmax, NEW n \in 0 .. mmax, NEW d \in n .. lmax,
         LM(lmax, 1, l, m) = LM(lmax, 1, d, n)
  PROVE  m = n /\ l = d
<1>1. /\ lmax \in Nat /\ mmax \in Nat /\ mmax <= lmax /\ m \in Nat /\ l \in Nat
      /\ n \in Nat /\ d \in Nat
  BY CplxSizeAssumption
<1> DEFINE h(x) == ((x \div 1) * (2 * lmax + 2 - (x + 1))) \div 2
<1>2. h(m) \in Int /\ h(n) \in Int
  BY <1>1
<1>3. \A x, y : LM(lmax, 1, x, y) = h(y) + x
  BY DEF LM
<1> HIDE DEF h
<1>4. ~ (m < n)
  <2> SUFFICES ASSUME m < n PROVE FALSE
    OBVIOUS
  <2>1. LM(lmax, 1, lmax, m) < LM(lmax, 1, n, n)
    BY <1>1, OrdersApart
  <2> QED BY <1>1, <1>2, <1>3, <2>1
<1>5. ~ (n < m)
  <2> SUFFICES ASSUME n < m PROVE FALSE
    OBVIOUS
  <2>1. LM(lmax, 1, lmax, n) < LM(lmax, 1, m, m)
    BY <1>1, OrdersApart
  <2> QED BY <1>1, <1>2, <1>3, <2>1
<1>6. m = n
  BY <1>1, <1>4, <1>5
<1>7. h(m) + l = h(m) + d
  BY <1>3, <1>6
<1> QED BY <1>1, <1>2, <1>6, <1>7

(* The positions of an order in the temporary arrays are those of its        *)
(* degrees.                                                                  *)
LEMMA OrderPositions ==
  ASSUME NEW m \in 0 .. mmax, NEW k
  PROVE  /\ k \in OfOrder(m) <=> \E l \in m .. lmax : k = LM(lmax, 1, l, m)
         /\ \A l \in Int : LM(lmax, 1, l, m) - LM(lmax, 1, 0, m) = l
<1>1. lmax \in Nat /\ mmax \in Nat /\ mmax <= lmax /\ m \in Nat
  BY CplxSizeAssumption
<1> DEFINE h == ((m \div 1) * (2 * lmax + 2 - (m + 1))) \div 2
<1>2. h \in Int
  BY <1>1
<1>3. \A x : LM(lmax, 1, x, m) = h + x
  BY DEF LM
<1> HIDE DEF h
<1>4. OfOrder(m) = h + m .. h + lmax
  BY <1>3 DEF OfOrder
<1>5. k \in OfOrder(m) => \E l \in m .. lmax : k = h + l
  <2> SUFFICES ASSUME k \in OfOrder(m) PROVE \E l \in m .. lmax : k = h + l
    OBVIOUS
  <2>1. k - h \in m .. lmax /\ k = h + (k - h)
    BY <1>1, <1>2, <1>4
  <2> QED BY <2>1
<1>6. \A l \in m .. lmax : h + l \in OfOrder(m)
  BY <1>1, <1>2, <1>4
<1> QED BY <1>2, <1>3, <1>5, <1>6

(* The positions LM_cplx gives are those of the caller's array. *)
LEMMA CplxPosition ==
  ASSUME NEW l \in 0 .. lmax, NEW m \in -mmax .. mmax, Abs(m) <= l
  PROVE  LM_cplx(mmax, l, m) \in 0 .. nlm_cplx - 1
<1>1. /\ lmax \in Nat /\ mmax \in Nat /\ mmax <= lmax /\ l \in Nat /\ m \in Int
      /\ m <= l /\ -l <= m
  BY CplxSizeAssumption DEF Abs
<1>2. LM_cplx(mmax, l, m) < LM_cplx(mmax, lmax + 1, -mmax)
  BY <1>1, CplxGrows
<1>3. LM_cplx(mmax, lmax + 1, -mmax) = nlm_cplx
  <2>1. ~ (lmax + 1 <= mmax) /\ mmax * 1 = mmax /\ ~ (mmax > lmax)
    BY <1>1
  <2>2. LM_cplx(mmax, lmax + 1, -mmax) = mmax * (2 * (lmax + 1) - mmax) + (lmax + 1) + (-mmax)
    BY <2>1 DEF LM_cplx
  <2>3. nlm_cplx = (2 * mmax + 1) * (lmax + 1) - (mmax * 1) * (mmax + 1)
    BY <2>1 DEF nlm_cplx, nlm_cplx_calc
  <2>4. mmax * (2 * (lmax + 1) - mmax) + (lmax + 1) + (-mmax)
          = (2 * mmax + 1) * (lmax + 1) - (mmax * 1) * (mmax + 1)
    BY <1>1
  <2> QED BY <2>2, <2>3, <2>4
<1>4. LM_cplx(mmax, l, m) \in Nat
  <2>1. CASE l <= mmax
    <3>1. l * (l + 1) \in Nat /\ l * (l + 1) >= l
      BY <1>1
    <3> QED BY <1>1, <2>1, <3>1 DEF LM_cplx
  <2>2. CASE ~ (l <= mmax)
    <3>1. mmax * (2 * l - mmax) \in Nat
      BY <1>1, <2>2
    <3> QED BY <1>1, <2>2, <3>1 DEF LM_cplx
  <2> QED BY <2>1, <2>2
<1>5. nlm_cplx \in Int
  BY <1>1 DEF nlm_cplx, nlm_cplx_calc
<1> QED BY <1>2, <1>3, <1>4, <1>5

LEMMA CplxApart ==
  ASSUME NEW p \in DegreeOrder, NEW q \in DegreeOrder,
         LM_cplx(mmax, p[1], p[2]) = LM_cplx(mmax, q[1], q[2])
  PROVE  p = q
<1>1. /\ p[1] \in Nat /\ p[2] \in Int /\ q[1] \in Nat /\ q[2] \in Int /\ mmax \in Nat
      /\ p[2] <= p[1] /\ -p[1] <= p[2] /\ p[2] <= mmax /\ -mmax <= p[2]
      /\ q[2] <= q[1] /\ -q[1] <= q[2] /\ q[2] <= mmax /\ -mmax <= q[2]
      /\ p = <<p[1], p[2]>> /\ q = <<q[1], q[2]>>
  BY CplxSizeAssumption DEF DegreeOrder, Abs
<1>2. p[1] = q[1] /\ p[2] = q[2]
  BY <1>1, CplxInjective
<1> QED BY <1>1, <1>2

(* The caller finds with LM_cplx what he put there. *)
LEMMA FilledIs ==
  /\ Filled \in [0 .. nlm_cplx - 1 -> Value]
  /\ \A p \in DegreeOrder : Filled[LM_cplx(mmax, p[1], p[2])] = Coef(p)
<1>1. \A p \in DegreeOrder : Coef(p) \in SUBSET Term
  BY DEF DegreeOrder, Coef, Term
<1>2. ASSUME NEW k \in 0 .. nlm_cplx - 1
      PROVE  UNION {Coef(lm) : lm \in {d \in DegreeOrder : LM_cplx(mmax, d[1], d[2]) = k}} \in Value
  BY <1>1 DEF Value
<1>3. ASSUME NEW p \in DegreeOrder
      PROVE  Filled[LM_cplx(mmax, p[1], p[2])] = Coef(p)
  <2> DEFINE k == LM_cplx(mmax, p[1], p[2])
  <2>1. k \in 0 .. nlm_cplx - 1
    BY CplxPosition DEF DegreeOrder
  <2>2. {d \in DegreeOrder : LM_cplx(mmax, d[1], d[2]) = k} = {p}
    BY CplxApart
  <2> HIDE DEF k
  <2>3. Filled[k] = UNION {Coef(lm) : lm \in {p}}
    BY <2>1, <2>2 DEF Filled
  <2> QED BY <2>3 DEF k
<1> QED BY <1>2, <1>3 DEF Filled

-----------------------------------------------------------------------------
(* The rows a loop works on; what is assigned to them is what they are next. *)
LEMMA QArray ==
  ASSUME TypeOK
  PROVE  Q \in Array /\ Q.row \in [Mode -> Value]
BY DEF TypeOK, Q, Array

LEMMA SetQIs ==
  ASSUME TypeOK, NEW a, SetQ(a), layout' = layout
  PROVE  Q' = a /\ (a \in Array => z' \in Array /\ mem' \in Array)
BY DEF SetQ, Q, TypeOK

LEMMA LostValue ==
  /\ Unknown \in Value /\ {} \in Value /\ LostField \in [Mode -> Value]
  /\ LostTemp \in [0 .. nlm - 1 -> Value]
  /\ \A d \in {"grid", "fourier"} : [domain |-> d, row |-> LostField] \in Array
BY DEF Value, LostField, LostTemp, Array

LEMMA MirroredValue ==
  ASSUME NEW f \in [Mode -> Value]
  PROVE  /\ Mirrored(f) \in [Mode -> Value]
         /\ Mirrored(Mirrored(f)) = f
<1>1. /\ nphi \in Nat /\ nphi > 1 /\ 0 \in Mode
      /\ \A k \in Mode : k # 0 => nphi - k \in Mode /\ nphi - k # 0 /\ nphi - (nphi - k) = k
  BY CplxSizeAssumption DEF Mode
<1>2. Mirrored(f) \in [Mode -> Value]
  BY <1>1 DEF Mirrored
<1>3. \A k \in Mode : Mirrored(f)[k] = IF k = 0 THEN f[0] ELSE f[nphi - k]
  BY DEF Mirrored
<1>4. \A k \in Mode : Mirrored(Mirrored(f))[k] = f[k]
  <2> TAKE k \in Mode
  <2>1. Mirrored(Mirrored(f))[k] = IF k = 0 THEN Mirrored(f)[0] ELSE Mirrored(f)[nphi - k]
    BY DEF Mirrored
  <2> QED BY <1>1, <1>3, <2>1
<1>5. Mirrored(Mirrored(f)) = [k \in Mode |-> Mirrored(Mirrored(f))[k]]
  BY DEF Mirrored
<1> QED BY <1>2, <1>4, <1>5

(* Orders and degrees a thread works on are those of the arrays. *)
LEMMA WorkBounds ==
  ASSUME LoopInv, NEW t \in Thread
  PROVE  /\ th[t].at \in {"gather", "rows", "analyse", "store"} =>
              th[t].m \in 0 .. mmax /\ th[t].m \in Mode
              /\ (th[t].m # 0 => nphi - th[t].m \in Mode)
         /\ th[t].at \in {"gather", "store"} =>
              /\ th[t].l \in th[t].m .. lmax
              /\ th[t].lm = LM(lmax, 1, th[t].l, th[t].m)
              /\ <<th[t].l, th[t].m>> \in DegreeOrder
              /\ <<th[t].l, -th[t].m>> \in DegreeOrder
              /\ <<th[t].l, 0>> \in DegreeOrder
         /\ th[t].at = "gather" =>
              /\ NextIndex(th[t].l, th[t].ll) = LM_cplx(mmax, th[t].l, th[t].m)
              /\ NextIndex(th[t].l, th[t].ll) - 2 * th[t].m = LM_cplx(mmax, th[t].l, -th[t].m)
         /\ th[t].at = "store" =>
              /\ NextIndex(th[t].l, th[t].ll) = LM_cplx(mmax, th[t].l, 0)
              /\ NextIndex(th[t].l, th[t].ll) + th[t].m = LM_cplx(mmax, th[t].l, th[t].m)
              /\ NextIndex(th[t].l, th[t].ll) - th[t].m = LM_cplx(mmax, th[t].l, -th[t].m)
<1> DEFINE s == th[t]
           ll == NextIndex(s.l, s.ll)
<1>1. Good(t, s) /\ mmax \in Nat /\ lmax \in Nat /\ nphi \in Nat /\ nphi > 2 * mmax /\ nphi > 1
      /\ mmax <= lmax
  BY GoodIsInv, CplxSizeAssumption
<1>2. s.at \in {"gather", "rows", "analyse", "store"} =>
              s.m \in 0 .. mmax /\ s.m \in Mode /\ (s.m # 0 => nphi - s.m \in Mode)
  BY <1>1 DEF Good, Mode
<1>3. ASSUME s.at \in {"gather", "store"}
      PROVE  /\ s.m \in 0 .. mmax /\ s.l \in s.m .. lmax /\ s.lm = LM(lmax, 1, s.l, s.m)
             /\ ll = LM_cplx(mmax, s.l, IF s.at = "gather" THEN s.m ELSE 0)
  BY <1>3, IndexIsMacro
<1> HIDE DEF s, ll
<1>4. ASSUME s.at \in {"gather", "store"}
      PROVE  /\ <<s.l, s.m>> \in DegreeOrder /\ <<s.l, -s.m>> \in DegreeOrder
             /\ <<s.l, 0>> \in DegreeOrder
  BY <1>1, <1>3, <1>4 DEF DegreeOrder, Abs
<1>5. ASSUME s.at \in {"gather", "store"}
      PROVE  /\ LM_cplx(mmax, s.l, 0) + s.m = LM_cplx(mmax, s.l, s.m)
             /\ LM_cplx(mmax, s.l, 0) - s.m = LM_cplx(mmax, s.l, -s.m)
             /\ LM_cplx(mmax, s.l, s.m) - 2 * s.m = LM_cplx(mmax, s.l, -s.m)
  <2>1. s.l \in Nat /\ s.m \in Nat
    BY <1>1, <1>3, <1>5
  <2>2. s.l * (s.l + 1) \in Int /\ mmax * (2 * s.l - mmax) \in Int
    BY <1>1, <2>1
  <2> QED BY <1>1, <2>1, <2>2 DEF LM_cplx
<1> QED BY <1>2, <1>3, <1>4, <1>5 DEF s, ll

(* The same, for each place. *)
LEMMA OrderBounds ==
  ASSUME LoopInv, NEW t \in Thread, th[t].at \in {"gather", "rows", "analyse", "store"}
  PROVE  /\ th[t].m \in 0 .. mmax /\ th[t].m \in Mode /\ 0 \in Mode
         /\ th[t].m # 0 => nphi - th[t].m \in Mode
<1>1. 0 \in Mode
  BY CplxSizeAssumption DEF Mode
<1> QED BY <1>1, WorkBounds

LEMMA GatherBounds ==
  ASSUME LoopInv, NEW t \in Thread, th[t].at = "gather"
  PROVE  /\ NextIndex(th[t].l, th[t].ll) = LM_cplx(mmax, th[t].l, th[t].m)
         /\ NextIndex(th[t].l, th[t].ll) - 2 * th[t].m = LM_cplx(mmax, th[t].l, -th[t].m)
         /\ <<th[t].l, th[t].m>> \in DegreeOrder /\ <<th[t].l, -th[t].m>> \in DegreeOrder
         /\ <<th[t].l, 0>> \in DegreeOrder
         /\ th[t].m \in 0 .. mmax /\ th[t].l \in th[t].m .. lmax
         /\ th[t].lm = LM(lmax, 1, th[t].l, th[t].m) /\ th[t].lm \in 0 .. nlm - 1
<1>1. th[t].m \in 0 .. mmax /\ th[t].l \in th[t].m .. lmax
      /\ th[t].lm = LM(lmax, 1, th[t].l, th[t].m)
  BY WorkBounds
<1>2. th[t].lm \in 0 .. nlm - 1
  BY <1>1, TempPosition
<1> QED BY <1>1, <1>2, WorkBounds

LEMMA StoreBounds ==
  ASSUME LoopInv, NEW t \in Thread, th[t].at = "store"
  PROVE  /\ NextIndex(th[t].l, th[t].ll) = LM_cplx(mmax, th[t].l, 0)
         /\ NextIndex(th[t].l, th[t].ll) + th[t].m = LM_cplx(mmax, th[t].l, th[t].m)
         /\ NextIndex(th[t].l, th[t].ll) - th[t].m = LM_cplx(mmax, th[t].l, -th[t].m)
         /\ <<th[t].l, th[t].m>> \in DegreeOrder /\ <<th[t].l, -th[t].m>> \in DegreeOrder
         /\ <<th[t].l, 0>> \in DegreeOrder
         /\ th[t].m \in 0 .. mmax /\ th[t].l \in th[t].m .. lmax
         /\ th[t].lm = LM(lmax, 1, th[t].l, th[t].m) /\ th[t].lm \in 0 .. nlm - 1
<1>1. th[t].m \in 0 .. mmax /\ th[t].l \in th[t].m .. lmax
      /\ th[t].lm = LM(lmax, 1, th[t].l, th[t].m)
  BY WorkBounds
<1>2. th[t].lm \in 0 .. nlm - 1
  BY <1>1, TempPosition
<1> QED BY <1>1, <1>2, WorkBounds

(* What order m adds to rows is right in type. *)
LEMMA TermsOfOrder ==
  ASSUME TypeOK, NEW m \in 0 .. mmax
  PROVE  /\ {rlm[k] : k \in OfOrder(m)} \subseteq Value
         /\ {ilm[k] : k \in OfOrder(m)} \subseteq Value
<1>1. \A k \in OfOrder(m) : k \in 0 .. nlm - 1
  BY OrderPositions, TempPosition
<1> QED BY <1>1 DEF TypeOK

(* Every step keeps the types of the arrays. *)
LEMMA DataType ==
  ASSUME TypeOK, LoopInv, Next
  PROVE  /\ alm' \in [0 .. nlm_cplx - 1 -> Value]
         /\ z' \in Array /\ mem' \in Array
         /\ rlm' \in [0 .. nlm - 1 -> Value] /\ ilm' \in [0 .. nlm - 1 -> Value]
         /\ nthreads' \in Team /\ layout' \in Layout
         /\ call' \in {"none", "synthesis", "analysis"} /\ stage' \in {"fft", "region"}
<1> USE DEF TypeOK
<1>1. Q \in Array /\ Q.row \in [Mode -> Value]
  BY QArray
<1>2. nthreads' = nthreads /\ layout' = layout
  BY DEF Next, FillArray, Synthesis, Analysis, Master, ForwardFft, EndRegion, InverseFft,
         Step, StartOrder, LeaveLoop, Gather, Rows, Analyse, Store
<1>3. CASE FillArray
  BY <1>2, <1>3, FilledIs DEF FillArray
<1>4. CASE Synthesis
  <2>1. [domain |-> "fourier", row |-> LostField] \in Array
    BY LostValue
  <2> QED BY <1>2, <1>4, <2>1, LostValue DEF Synthesis, EnterRegion
<1>5. CASE Analysis
  BY <1>2, <1>5, LostValue DEF Analysis
<1>6. CASE ForwardFft
  <2>1. ToFourier(z) \in Array
    <3>1. z.row \in [Mode -> Value]
      BY DEF Array
    <3>2. Mirrored(z.row) \in [Mode -> Value] /\ LostField \in [Mode -> Value]
      BY <3>1, MirroredValue, LostValue
    <3> QED BY <3>2 DEF ToFourier, Array
  <2> QED BY <1>2, <1>6, <2>1, SetQIs DEF ForwardFft, EnterRegion
<1>7. CASE EndRegion
  BY <1>2, <1>7 DEF EndRegion
<1>8. CASE InverseFft
  <2>1. ToGrid(Q) \in Array
    BY <1>1 DEF ToGrid, Array
  <2> QED BY <1>2, <1>8, <2>1 DEF InverseFft
<1>9. CASE \E t \in Thread : StartOrder(t) \/ LeaveLoop(t)
  BY <1>2, <1>9 DEF StartOrder, LeaveLoop
<1>10. CASE \E t \in Thread : Gather(t)
  <2>1. PICK t \in Thread : Gather(t)
    BY <1>10
  <2> DEFINE s == th[t]
             ll == NextIndex(s.l, s.ll)
  <2>2. /\ s.at = "gather"
        /\ rlm' = [rlm EXCEPT ![s.lm] = IF s.m = 0 THEN Re(alm[ll]) ELSE alm[ll]]
        /\ ilm' = [ilm EXCEPT ![s.lm] = IF s.m = 0 THEN Im(alm[ll])
                                                   ELSE Parity(s.m, alm[ll - 2 * s.m])]
        /\ alm' = alm /\ z' = z /\ mem' = mem /\ call' = call /\ stage' = stage
    BY <2>1 DEF Gather
  <2>3. /\ ll = LM_cplx(mmax, s.l, s.m) /\ ll - 2 * s.m = LM_cplx(mmax, s.l, -s.m)
        /\ <<s.l, s.m>> \in DegreeOrder /\ <<s.l, -s.m>> \in DegreeOrder /\ s.m \in Int
    <3> HIDE DEF TypeOK
    <3>1. th[t].at = "gather"
      BY <2>2
    <3>2. th[t].m \in 0 .. mmax
      BY <3>1, GatherBounds
    <3>3. ll = LM_cplx(mmax, s.l, s.m)
      BY <3>1, GatherBounds
    <3>4. ll - 2 * s.m = LM_cplx(mmax, s.l, -s.m)
      BY <3>1, GatherBounds
    <3>5. <<s.l, s.m>> \in DegreeOrder /\ <<s.l, -s.m>> \in DegreeOrder
      BY <3>1, GatherBounds
    <3> QED BY <3>2, <3>3, <3>4, <3>5
  <2>4. alm[ll] \in Value /\ alm[ll - 2 * s.m] \in Value
    BY <2>3, CplxPosition DEF DegreeOrder
  <2>5. Re(alm[ll]) \in Value /\ Im(alm[ll]) \in Value /\ Parity(s.m, alm[ll - 2 * s.m]) \in Value
    BY <2>3, <2>4, PartValue, ParityValue
  <2> HIDE DEF s, ll
  <2> QED BY <1>2, <2>2, <2>4, <2>5
<1>11. CASE \E t \in Thread : Rows(t)
  <2>1. PICK t \in Thread : Rows(t)
    BY <1>11
  <2>2. th[t].at = "rows" /\ th[t].m \in 0 .. mmax
    BY <2>1, OrderBounds DEF Rows
  <2> DEFINE m == th[t].m
             plus == {rlm[k] : k \in OfOrder(m)}
             minus == {ilm[k] : k \in OfOrder(m)}
             f == [k \in Mode |->
                     IF m = 0 THEN IF k = 0 THEN Sum(plus \cup minus)
                                   ELSE IF k > mmax /\ k < nphi - mmax THEN {}
                                   ELSE Q.row[k]
                     ELSE IF k = m THEN Sum(plus)
                     ELSE IF k = nphi - m THEN Sum(minus)
                     ELSE Q.row[k]]
  <2>3. plus \subseteq Value /\ minus \subseteq Value
    BY <2>2, TermsOfOrder
  <2>4. Sum(plus) \in Value /\ Sum(minus) \in Value /\ Sum(plus \cup minus) \in Value
    BY <2>3, SumValue
  <2>5. /\ SetQ([Q EXCEPT !.row = f])
        /\ alm' = alm /\ rlm' = rlm /\ ilm' = ilm /\ call' = call /\ stage' = stage
    BY <1>1, <2>1 DEF Rows
  <2> HIDE DEF plus, minus
  <2>6. f \in [Mode -> Value]
    BY <1>1, <2>4, LostValue
  <2> HIDE DEF f
  <2>7. [Q EXCEPT !.row = f] \in Array
    BY <1>1, <2>6 DEF Array
  <2> QED BY <1>2, <2>5, <2>7, SetQIs
<1>12. CASE \E t \in Thread : Analyse(t)
  <2>1. PICK t \in Thread : Analyse(t)
    BY <1>12
  <2> DEFINE m == th[t].m
             plus == IF m = 0 THEN Re(Q.row[0]) ELSE Q.row[nphi - m]
             minus == IF m = 0 THEN Im(Q.row[0]) ELSE Q.row[m]
             Of(v, temp) == [k \in 0 .. nlm - 1 |->
                               IF k \in OfOrder(m) THEN Projected(v, k - LM(lmax, 1, 0, m))
                                                   ELSE temp[k]]
  <2>2. /\ th[t].at = "analyse" /\ rlm' = Of(plus, rlm) /\ ilm' = Of(minus, ilm)
        /\ alm' = alm /\ z' = z /\ mem' = mem /\ call' = call /\ stage' = stage
    BY <2>1 DEF Analyse
  <2>3. m \in Mode /\ (m # 0 => nphi - m \in Mode) /\ 0 \in Mode
    BY <2>2, OrderBounds
  <2>4. plus \in Value /\ minus \in Value
    BY <1>1, <2>3, PartValue
  <2> HIDE DEF plus, minus
  <2>5. \A v \in Value, temp \in [0 .. nlm - 1 -> Value] :
          Of(v, temp) \in [0 .. nlm - 1 -> Value]
    BY ProjectedValue
  <2> HIDE DEF Of
  <2> QED BY <1>2, <2>2, <2>4, <2>5
<1>13. CASE \E t \in Thread : Store(t)
  <2>1. PICK t \in Thread : Store(t)
    BY <1>13
  <2> DEFINE s == th[t]
             ll == NextIndex(s.l, s.ll)
  <2>2. /\ s.at = "store"
        /\ alm' = IF s.m = 0 THEN [alm EXCEPT ![ll] = Sum({rlm[s.lm], ilm[s.lm]})]
                  ELSE [alm EXCEPT ![ll + s.m] = rlm[s.lm], ![ll - s.m] = Parity(s.m, ilm[s.lm])]
        /\ rlm' = rlm /\ ilm' = ilm /\ z' = z /\ mem' = mem /\ call' = call /\ stage' = stage
    BY <2>1 DEF Store
  <2>3. s.lm \in 0 .. nlm - 1 /\ s.m \in Int
    <3> HIDE DEF TypeOK
    <3>1. th[t].at = "store"
      BY <2>2
    <3>2. th[t].lm \in 0 .. nlm - 1 /\ th[t].m \in 0 .. mmax
      BY <3>1, StoreBounds
    <3> QED BY <3>2
  <2>4. rlm[s.lm] \in Value /\ ilm[s.lm] \in Value
    BY <2>3
  <2>5. Sum({rlm[s.lm], ilm[s.lm]}) \in Value /\ Parity(s.m, ilm[s.lm]) \in Value
    BY <2>3, <2>4, SumValue, ParityValue
  <2> HIDE DEF s, ll
  <2> QED BY <1>2, <2>2, <2>4, <2>5
<1> QED BY <1>3, <1>4, <1>5, <1>6, <1>7, <1>8, <1>9, <1>10, <1>11, <1>12, <1>13
        DEF Next, Step, Master

(* Every variable keeps its type. *)
LEMMA NextTypeOK == TypeOK /\ LoopInv /\ LoopInv' /\ [Next]_vars => TypeOK'
<1> SUFFICES ASSUME TypeOK, LoopInv, LoopInv', [Next]_vars PROVE TypeOK'
  OBVIOUS
<1>1. CASE Next
  <2>1. (\A t \in Thread : th[t].at \in {"gather", "store"} => th[t].l <= lmax)'
    BY DEF LoopInv, Indices
  <2> QED BY <1>1, <2>1, DataType DEF TypeOK, LoopInv, nlm, nlm_cplx
<1>2. CASE UNCHANGED vars
  BY <1>2 DEF TypeOK, vars, Thread, nlm, nlm_cplx
<1> QED BY <1>1, <1>2

(* The types of the run, for every truncation and number of threads. *)
THEOREM TypeCorrect == Spec => []TypeOK
<1>1. Init => TypeOK
  <2> SUFFICES ASSUME Init PROVE TypeOK
    OBVIOUS
  <2>1. th \in [Thread -> [at : At, m : Nat, l : Nat, ll : Int, lm : Int]]
    BY InitLoopInv DEF LoopInv
  <2>2. \A t \in Thread : th[t].at = "out"
    BY DEF Init, Out
  <2> QED BY <2>1, <2>2, FilledIs, LostValue DEF Init, TypeOK
<1>2. LoopInv /\ TypeOK /\ [Next]_vars => TypeOK'
  BY NextInv, NextTypeOK
<1> QED BY <1>1, <1>2, LoopInvariant, PTL DEF Spec

-----------------------------------------------------------------------------
(* Threads are in the loop of the call, and out of it between calls.         *)
LEMMA CallKept == TypeOK /\ CallInv /\ [Next]_vars => CallInv'
<1> SUFFICES ASSUME TypeOK, CallInv, [Next]_vars PROVE CallInv'
  OBVIOUS
<1> DEFINE Placed(p, c, g) == /\ p # "out" => c # "none" /\ g = "region"
                              /\ p \in {"gather", "rows"} => c = "synthesis"
                              /\ p \in {"analyse", "store"} => c = "analysis"
<1>1. \A t \in Thread : Placed(th[t].at, call, stage)
  BY DEF CallInv
<1>2. nthreads' = nthreads /\ Thread' = Thread
  BY DEF Next, FillArray, Synthesis, Analysis, Master, ForwardFft, EndRegion, InverseFft,
         Step, StartOrder, LeaveLoop, Gather, Rows, Analyse, Store, vars, Thread
<1>3. SUFFICES ASSUME NEW u \in Thread PROVE Placed(th'[u].at, call', stage')
  BY <1>2 DEF CallInv
<1>4. CASE Synthesis
  BY <1>1, <1>4 DEF Synthesis, EnterRegion, Loop
<1>5. CASE ForwardFft
  BY <1>1, <1>5 DEF ForwardFft, EnterRegion, Loop
<1>6. CASE FillArray \/ Analysis \/ EndRegion \/ InverseFft \/ UNCHANGED vars
  BY <1>1, <1>6 DEF FillArray, Analysis, EndRegion, InverseFft, vars
<1>7. ASSUME NEW t \in Thread, Step(t) PROVE Placed(th'[u].at, call', stage')
  <2>1. call' = call /\ stage' = stage
    BY <1>7 DEF Step, StartOrder, LeaveLoop, Gather, Rows, Analyse, Store
  <2>2. ASSUME NEW s, th' = [th EXCEPT ![t] = s], Placed(s.at, call, stage)
        PROVE  Placed(th'[u].at, call', stage')
    <3>1. th'[u] = th[u] \/ th'[u] = s
      BY <2>2
    <3> HIDE DEF Placed
    <3> QED BY <1>1, <2>1, <2>2, <3>1
  <2> USE <1>1 DEF Placed
  <2>3. CASE StartOrder(t)
    <3> DEFINE s == [at |-> IF call = "synthesis" THEN "gather" ELSE "analyse",
                     m |-> th[t].m, l |-> th[t].m,
                     ll |-> IF call = "synthesis" THEN th[t].m * th[t].m
                                                  ELSE (th[t].m - 1) * th[t].m,
                     lm |-> LM(lmax, 1, th[t].m, th[t].m)]
    <3>1. th' = [th EXCEPT ![t] = s] /\ th[t].at = "loop"
      BY <2>3 DEF StartOrder
    <3>2. s.at = IF call = "synthesis" THEN "gather" ELSE "analyse"
      OBVIOUS
    <3>3. call = "analysis" \/ call = "synthesis"
      BY <3>1 DEF TypeOK
    <3>4. Placed(s.at, call, stage)
      BY <3>1, <3>2, <3>3
    <3> QED BY <2>2, <3>1, <3>4
  <2>4. CASE LeaveLoop(t)
    BY <2>2, <2>4 DEF LeaveLoop, Out
  <2>5. CASE Gather(t)
    <3>1. th' = [th EXCEPT ![t] = NextDegree(t, "rows")] /\ th[t].at = "gather"
      BY <2>5 DEF Gather
    <3>2. NextDegree(t, "rows").at \in {"gather", "rows"}
      BY <3>1 DEF NextDegree
    <3> QED BY <2>2, <3>1, <3>2
  <2>6. CASE Rows(t) \/ (Store(t) /\ ~ (th[t].l < lmax))
    <3>1. th' = [th EXCEPT ![t] = Loop(th[t].m + nthreads)] /\ th[t].at \in {"rows", "store"}
      BY <2>6 DEF Rows, Store, NextOrder
    <3>2. Loop(th[t].m + nthreads).at = "loop"
      BY DEF Loop
    <3> QED BY <2>2, <3>1, <3>2
  <2>7. CASE Analyse(t)
    <3>1. th' = [th EXCEPT ![t] = [th[t] EXCEPT !.at = "store"]] /\ th[t].at = "analyse"
      BY <2>7 DEF Analyse
    <3>2. [th[t] EXCEPT !.at = "store"].at = "store"
      BY DEF TypeOK
    <3> QED BY <2>2, <3>1, <3>2
  <2>8. CASE Store(t) /\ th[t].l < lmax
    <3>1. th' = [th EXCEPT ![t] = NextDegree(t, "loop")] /\ th[t].at = "store"
      BY <2>8 DEF Store
    <3>2. NextDegree(t, "loop").at \in {"store", "loop"}
      BY <3>1 DEF NextDegree
    <3> QED BY <2>2, <3>1, <3>2
  <2> QED BY <1>7, <2>3, <2>4, <2>5, <2>6, <2>7, <2>8 DEF Step
<1> QED BY <1>4, <1>5, <1>6, <1>7 DEF Next, Master

-----------------------------------------------------------------------------
(* The order of a thread in the loop is one of its residue: the thread owns  *)
(* it, and the next order it owns is nthreads further.                       *)
LEMMA OwnerOf ==
  ASSUME NEW T \in Nat \ {0}, NEW n \in Nat
  PROVE  /\ n % T \in 0 .. T - 1 /\ n % T <= n
         /\ \A t \in 0 .. T - 1, j \in Nat : n = t + j * T => n % T = t
<1>1. n % T \in 0 .. T - 1 /\ n \div T \in Nat /\ n = (n % T) + (n \div T) * T
  OBVIOUS
<1>2. n % T <= n
  BY <1>1
<1>3. ASSUME NEW t \in 0 .. T - 1, NEW j \in Nat, n = t + j * T
      PROVE  n % T = t
  BY <1>1, <1>3, ResiduesApart
<1> QED BY <1>1, <1>2, <1>3

LEMMA NextOwned ==
  ASSUME NEW T \in Nat \ {0}, NEW m \in Nat, NEW n \in Nat, m % T = n % T, m <= n, m # n
  PROVE  m + T <= n
<1> DEFINE r == m % T
           a == m \div T
           b == n \div T
<1>1. a \in Nat /\ b \in Nat /\ r \in Nat /\ m = r + a * T /\ n = r + b * T
  OBVIOUS
<1> HIDE DEF r, a, b
<1>2. a < b
  <2> SUFFICES ASSUME b <= a PROVE FALSE
    BY <1>1
  <2> DEFINE k == a - b
  <2>1. k \in Nat /\ a = b + k
    BY <1>1
  <2> HIDE DEF k
  <2>2. a * T = b * T + k * T /\ k * T >= 0 /\ a * T \in Int /\ b * T \in Int /\ k * T \in Int
    BY <1>1, <2>1
  <2> QED BY <1>1, <2>2
<1> DEFINE k == b - (a + 1)
<1>3. k \in Nat /\ b = a + 1 + k
  BY <1>1, <1>2
<1> HIDE DEF k
<1>4. b * T = a * T + T + k * T /\ k * T >= 0 /\ a * T \in Int /\ k * T \in Int /\ b * T \in Int
  BY <1>1, <1>3
<1> QED BY <1>1, <1>4

LEMMA OwnOrder ==
  ASSUME LoopInv, NEW t \in Thread, th[t].at # "out"
  PROVE  th[t].m % nthreads = t /\ Owner(th[t].m) = th[t]
<1>1. Good(t, th[t]) /\ nthreads \in Nat \ {0} /\ t \in 0 .. nthreads - 1
  BY GoodIsInv DEF Thread
<1>2. th[t].m \in Nat /\ \E j \in Nat : th[t].m = t + j * nthreads
  BY <1>1 DEF Good
<1>3. th[t].m % nthreads = t
  BY <1>1, <1>2, OwnerOf
<1> QED BY <1>3 DEF Owner

(* Every order has an owner, for whom it is pending when the loop starts.    *)
LEMMA StartPending ==
  ASSUME LoopInv, nthreads' = nthreads, th' = [t \in Thread |-> Loop(t)], NEW n \in Nat
  PROVE  Pending(n)' /\ Owner(n)'.at = "loop"
<1>1. nthreads \in Nat \ {0}
  BY DEF LoopInv
<1>2. n % nthreads \in Thread /\ n % nthreads <= n
  BY <1>1, OwnerOf DEF Thread
<1>3. Owner(n)' = Loop(n % nthreads)
  BY <1>2 DEF Owner
<1> QED BY <1>2, <1>3 DEF Pending, Loop

(* A step of a thread changes what is pending for that thread only.          *)
LEMMA OwnerStep ==
  ASSUME LoopInv, NEW t \in Thread, NEW s, nthreads' = nthreads, th' = [th EXCEPT ![t] = s],
         NEW n \in Nat
  PROVE  Owner(n)' = IF n % nthreads = t THEN s ELSE Owner(n)
<1>1. nthreads \in Nat \ {0} /\ th = [u \in Thread |-> th[u]]
  BY GoodIsInv
<1>2. n % nthreads \in Thread
  BY <1>1, OwnerOf DEF Thread
<1>3. \A u \in Thread : th'[u] = IF u = t THEN s ELSE th[u]
  BY <1>1
<1>4. Owner(n)' = th'[n % nthreads] /\ Owner(n) = th[n % nthreads]
  BY DEF Owner
<1> QED BY <1>2, <1>3, <1>4

LEMMA PendingKept ==
  ASSUME LoopInv, NEW t \in Thread, NEW s, nthreads' = nthreads, th' = [th EXCEPT ![t] = s],
         th[t].at # "out",
         \/ s.at # "out" /\ s.m = th[t].m
         \/ s.at # "out" /\ s.m = th[t].m + nthreads
         \/ th[t].m > mmax,
         NEW n \in 0 .. mmax, Pending(n)
  PROVE  Pending(n)' \/ (n = th[t].m /\ s.m # th[t].m)
<1>1. nthreads \in Nat \ {0} /\ Good(t, th[t]) /\ mmax \in Nat
  BY GoodIsInv, CplxSizeAssumption
<1>2. Owner(n)' = IF n % nthreads = t THEN s ELSE Owner(n)
  <2>1. n \in Nat
    OBVIOUS
  <2> QED BY <2>1, OwnerStep
<1>3. CASE n % nthreads # t
  BY <1>2, <1>3 DEF Pending
<1>4. CASE n % nthreads = t
  <2>1. th[t].m <= n /\ th[t].m \in Nat /\ n \in Nat
    BY <1>1, <1>4 DEF Pending, Owner, Good
  <2>2. th[t].m % nthreads = t
    BY OwnOrder
  <2>3. n = th[t].m \/ th[t].m + nthreads <= n
    BY <1>1, <1>4, <2>1, <2>2, NextOwned
  <2>4. ~ (th[t].m > mmax)
    BY <1>1, <2>1
  <2> QED BY <1>1, <1>2, <1>4, <2>1, <2>3, <2>4 DEF Pending
<1> QED BY <1>3, <1>4

-----------------------------------------------------------------------------
(* A step that changes nothing an entry of the temporary arrays is about.    *)
LEMMA HeldKept ==
  ASSUME NEW l, NEW m, Held(l, m), call' = call,
         call = "synthesis" => alm' = alm, call # "synthesis" => Q' = Q,
         rlm'[LM(lmax, 1, l, m)] = rlm[LM(lmax, 1, l, m)],
         ilm'[LM(lmax, 1, l, m)] = ilm[LM(lmax, 1, l, m)]
  PROVE  Held(l, m)'
<1>1. CASE call = "synthesis"
  <2>1. field' = field
    BY <1>1 DEF field
  <2> QED BY <1>1, <2>1 DEF Held, Plus, Minus
<1>2. CASE call # "synthesis"
  BY <1>2 DEF Held, Plus, Minus
<1> QED BY <1>1, <1>2

LEMMA OrdersDiffer ==
  ASSUME LoopInv, NEW t \in Thread, NEW u \in Thread, t # u,
         th[t].at # "out", th[u].at # "out"
  PROVE  th[t].m # th[u].m
BY OwnOrder

(* A step of a thread that leaves the coefficients of other orders alone.    *)
LEMMA TempStep ==
  ASSUME LoopInv, TempInv, NEW t \in Thread, NEW s,
         nthreads' = nthreads, th' = [th EXCEPT ![t] = s], th[t].at # "out",
         \A m \in 0 .. mmax : m # th[t].m =>
           \A l \in m .. lmax : Held(l, m) => Held(l, m)',
         \A m \in 0 .. mmax : s.m = m => \A l \in m .. lmax :
           s.at \in {"rows", "store"} \/ (s.at = "gather" /\ l < s.l) => Held(l, m)'
  PROVE  TempInv'
<1>1. th = [u \in Thread |-> th[u]] /\ Thread' = Thread
  BY GoodIsInv DEF Thread
<1>2. \A u \in Thread : th'[u] = IF u = t THEN s ELSE th[u]
  BY <1>1
<1>3. SUFFICES ASSUME NEW u \in Thread, NEW m \in 0 .. mmax, th'[u].m = m,
                      NEW l \in m .. lmax,
                      \/ th'[u].at \in {"rows", "store"}
                      \/ th'[u].at = "gather" /\ l < th'[u].l
               PROVE  Held(l, m)'
  BY <1>1 DEF TempInv
<1>4. CASE u = t
  BY <1>2, <1>3, <1>4
<1>5. CASE u # t
  <2>1. th'[u] = th[u]
    BY <1>2, <1>5
  <2>2. Held(l, m)
    BY <1>3, <2>1 DEF TempInv
  <2>3. m # th[t].m
    BY <1>3, <1>5, <2>1, OrdersDiffer
  <2> QED BY <2>2, <2>3
<1> QED BY <1>4, <1>5

(* What order m reads and writes is in place: a lemma for each step.         *)
LEMMA GatherTemp ==
  ASSUME TypeOK, LoopInv, CallInv, TempInv, NEW t \in Thread, Gather(t)
  PROVE  TempInv'
<1>1. /\ th[t].at = "gather" /\ th' = [th EXCEPT ![t] = NextDegree(t, "rows")]
      /\ call = "synthesis"
      /\ alm' = alm /\ call' = call /\ nthreads' = nthreads
  BY DEF Gather, CallInv
<1>2. PICK m, d, e, ll : m = th[t].m /\ d = th[t].l /\ e = th[t].lm
                          /\ ll = NextIndex(th[t].l, th[t].ll)
  OBVIOUS
<1>3. /\ m \in 0 .. mmax /\ d \in m .. lmax /\ e = LM(lmax, 1, d, m)
      /\ ll = LM_cplx(mmax, d, m) /\ ll - 2 * m = LM_cplx(mmax, d, -m)
      /\ <<d, m>> \in DegreeOrder /\ <<d, -m>> \in DegreeOrder
  <2>1. /\ th[t].m \in 0 .. mmax /\ th[t].l \in th[t].m .. lmax
        /\ th[t].lm = LM(lmax, 1, th[t].l, th[t].m)
    BY <1>1, GatherBounds
  <2>2. /\ NextIndex(th[t].l, th[t].ll) = LM_cplx(mmax, th[t].l, th[t].m)
        /\ NextIndex(th[t].l, th[t].ll) - 2 * th[t].m = LM_cplx(mmax, th[t].l, -th[t].m)
    BY <1>1, GatherBounds
  <2>3. <<th[t].l, th[t].m>> \in DegreeOrder /\ <<th[t].l, -th[t].m>> \in DegreeOrder
    BY <1>1, GatherBounds
  <2> QED BY <1>2, <2>1, <2>2, <2>3
<1>4. PICK s : s = NextDegree(t, "rows")
  OBVIOUS
<1>5. s.m = m /\ s.l = d + 1 /\ s.at = IF d < lmax THEN "gather" ELSE "rows"
  BY <1>1, <1>2, <1>4 DEF NextDegree
<1>6. /\ rlm' = [rlm EXCEPT ![e] = IF m = 0 THEN Re(alm[ll]) ELSE alm[ll]]
      /\ ilm' = [ilm EXCEPT ![e] = IF m = 0 THEN Im(alm[ll]) ELSE Parity(m, alm[ll - 2 * m])]
  BY <1>2 DEF Gather
<1>7. /\ rlm \in [0 .. nlm - 1 -> Value] /\ ilm \in [0 .. nlm - 1 -> Value]
      /\ e \in 0 .. nlm - 1
  BY <1>3, TempPosition DEF TypeOK
<1>8. Held(d, m)'
  <2>1. field' = field /\ field[<<d, m>>] = alm[ll] /\ field[<<d, -m>>] = alm[ll - 2 * m]
    BY <1>1, <1>3 DEF field
  <2>2. Plus(d, m)' = IF m = 0 THEN Re(alm[ll]) ELSE alm[ll]
    BY <1>1, <2>1 DEF Plus
  <2>3. Minus(d, m)' = IF m = 0 THEN Im(alm[ll]) ELSE Parity(m, alm[ll - 2 * m])
    <3>1. m = 0 => field[<<d, 0>>] = alm[ll]
      BY <2>1
    <3> QED BY <1>1, <2>1, <3>1 DEF Minus
  <2>4. /\ rlm'[e] = IF m = 0 THEN Re(alm[ll]) ELSE alm[ll]
        /\ ilm'[e] = IF m = 0 THEN Im(alm[ll]) ELSE Parity(m, alm[ll - 2 * m])
    BY <1>6, <1>7
  <2> QED BY <1>3, <2>2, <2>3, <2>4 DEF Held
<1>9. ASSUME NEW n \in 0 .. mmax, NEW l \in n .. lmax, n # m \/ l # d, Held(l, n)
      PROVE  Held(l, n)'
  <2>1. LM(lmax, 1, l, n) # e
    BY <1>3, <1>9, TempApart
  <2>2. rlm'[LM(lmax, 1, l, n)] = rlm[LM(lmax, 1, l, n)]
        /\ ilm'[LM(lmax, 1, l, n)] = ilm[LM(lmax, 1, l, n)]
    BY <1>6, <1>7, <2>1, TempPosition
  <2> QED BY <1>1, <1>9, <2>2, HeldKept
<1>10. ASSUME NEW n \in 0 .. mmax, s.m = n, NEW l \in n .. lmax,
              s.at \in {"rows", "store"} \/ (s.at = "gather" /\ l < s.l)
       PROVE  Held(l, n)'
  <2>1. n = m /\ l <= d
    BY <1>3, <1>5, <1>10, CplxSizeAssumption
  <2>2. CASE l = d
    BY <1>8, <2>1, <2>2
  <2>3. CASE l # d
    <3>1. l < d /\ th[t].m = n /\ th[t].l = d
      BY <1>2, <1>3, <2>1, <2>3, CplxSizeAssumption
    <3>2. Held(l, n)
      BY <1>1, <3>1 DEF TempInv
    <3> QED BY <1>9, <2>3, <3>2
  <2> QED BY <2>2, <2>3
<1>11. th' = [th EXCEPT ![t] = s] /\ th[t].at # "out"
  BY <1>1, <1>4
<1>12. \A n \in 0 .. mmax : n # th[t].m => \A l \in n .. lmax : Held(l, n) => Held(l, n)'
  BY <1>2, <1>9
<1> QED BY <1>1, <1>10, <1>11, <1>12, TempStep

LEMMA AnalyseTemp ==
  ASSUME TypeOK, LoopInv, CallInv, TempInv, NEW t \in Thread, Analyse(t)
  PROVE  TempInv'
<1>1. /\ th[t].at = "analyse" /\ call = "analysis" /\ Q' = Q
      /\ alm' = alm /\ call' = call /\ nthreads' = nthreads
      /\ th' = [th EXCEPT ![t] = [th[t] EXCEPT !.at = "store"]]
  BY DEF Analyse, CallInv, Q
<1>2. PICK m : m = th[t].m
  OBVIOUS
<1>3. m \in 0 .. mmax
  BY <1>1, <1>2, OrderBounds
<1>4. PICK s : s = [th[t] EXCEPT !.at = "store"]
  OBVIOUS
<1>5. s.m = m /\ s.at = "store"
  BY <1>2, <1>4 DEF TypeOK
<1> DEFINE plus == IF m = 0 THEN Re(Q.row[0]) ELSE Q.row[nphi - m]
           minus == IF m = 0 THEN Im(Q.row[0]) ELSE Q.row[m]
           Of(v, temp) == [k \in 0 .. nlm - 1 |->
                             IF k \in OfOrder(m) THEN Projected(v, k - LM(lmax, 1, 0, m))
                                                 ELSE temp[k]]
<1>6. rlm' = Of(plus, rlm) /\ ilm' = Of(minus, ilm)
  BY <1>2 DEF Analyse
<1>7. ASSUME NEW n \in 0 .. mmax, NEW l \in n .. lmax
      PROVE  /\ LM(lmax, 1, l, n) \in 0 .. nlm - 1
             /\ n = m => LM(lmax, 1, l, n) \in OfOrder(m)
             /\ n # m => LM(lmax, 1, l, n) \notin OfOrder(m)
  <2>1. LM(lmax, 1, l, n) \in 0 .. nlm - 1
    BY TempPosition
  <2>2. n = m => LM(lmax, 1, l, n) \in OfOrder(m)
    BY <1>3, OrderPositions
  <2>3. ASSUME LM(lmax, 1, l, n) \in OfOrder(m) PROVE n = m
    <3>1. PICK d \in m .. lmax : LM(lmax, 1, l, n) = LM(lmax, 1, d, m)
      BY <1>3, <2>3, OrderPositions
    <3> QED BY <1>3, <3>1, TempApart
  <2> QED BY <2>1, <2>2, <2>3
<1>8. ASSUME NEW n \in 0 .. mmax, n # m, NEW l \in n .. lmax, Held(l, n)
      PROVE  Held(l, n)'
  <2>1. LM(lmax, 1, l, n) \in 0 .. nlm - 1 /\ LM(lmax, 1, l, n) \notin OfOrder(m)
    BY <1>7, <1>8
  <2>2. rlm'[LM(lmax, 1, l, n)] = rlm[LM(lmax, 1, l, n)]
        /\ ilm'[LM(lmax, 1, l, n)] = ilm[LM(lmax, 1, l, n)]
    BY <1>6, <2>1
  <2> QED BY <1>1, <1>8, <2>2, HeldKept
<1>9. ASSUME NEW n \in 0 .. mmax, s.m = n, NEW l \in n .. lmax
      PROVE  Held(l, n)'
  <2>1. n = m /\ l \in Int
    BY <1>5, <1>9
  <2>2. LM(lmax, 1, l, m) \in 0 .. nlm - 1 /\ LM(lmax, 1, l, m) \in OfOrder(m)
    BY <1>7, <2>1
  <2>3. LM(lmax, 1, l, m) - LM(lmax, 1, 0, m) = l
    BY <1>3, <2>1, OrderPositions
  <2>4. rlm'[LM(lmax, 1, l, m)] = Projected(plus, l) /\ ilm'[LM(lmax, 1, l, m)] = Projected(minus, l)
    BY <1>6, <2>2, <2>3
  <2>5. Plus(l, m)' = Projected(plus, l) /\ Minus(l, m)' = Projected(minus, l)
    BY <1>1 DEF Plus, Minus
  <2> QED BY <2>1, <2>4, <2>5 DEF Held
<1>10. th' = [th EXCEPT ![t] = s] /\ th[t].at # "out"
  BY <1>1, <1>4
<1>11. \A n \in 0 .. mmax : n # th[t].m => \A l \in n .. lmax : Held(l, n) => Held(l, n)'
  BY <1>2, <1>8
<1> QED BY <1>1, <1>9, <1>10, <1>11, TempStep

(* Other steps leave the temporary arrays alone. *)
LEMMA OtherTemp ==
  ASSUME TypeOK, LoopInv, CallInv, TempInv, NEW t \in Thread,
         StartOrder(t) \/ LeaveLoop(t) \/ Rows(t) \/ Store(t)
  PROVE  TempInv'
<1>1. /\ rlm' = rlm /\ ilm' = ilm /\ call' = call /\ nthreads' = nthreads /\ th[t].at # "out"
      /\ call = "synthesis" => alm' = alm
      /\ call # "synthesis" => Q' = Q
  BY DEF StartOrder, LeaveLoop, Rows, Store, CallInv, Q
<1>2. ASSUME NEW m, NEW l, Held(l, m) PROVE Held(l, m)'
  BY <1>1, <1>2, HeldKept
<1>3. ASSUME NEW s, th' = [th EXCEPT ![t] = s],
             \/ s.at \in {"out", "loop", "analyse"}
             \/ s.at = "gather" /\ s.m = s.l
             \/ s.at = "store" /\ th[t].at = "store" /\ s.m = th[t].m
      PROVE  TempInv'
  <2>1. ASSUME NEW n \in 0 .. mmax, s.m = n, NEW l \in n .. lmax,
               s.at \in {"rows", "store"} \/ (s.at = "gather" /\ l < s.l)
        PROVE  Held(l, n)'
    <3>1. ~ (s.at = "gather" /\ s.m = s.l)
      <4> SUFFICES ASSUME s.at = "gather" /\ s.m = s.l PROVE FALSE
        OBVIOUS
      <4>1. l < n /\ n \in Int /\ l \in Int /\ l >= n
        BY <2>1
      <4> QED BY <4>1
    <3>2. th[t].at = "store" /\ th[t].m = n
      BY <1>3, <2>1, <3>1
    <3> QED BY <1>2, <3>2 DEF TempInv
  <2>2. \A n \in 0 .. mmax : n # th[t].m => \A l \in n .. lmax : Held(l, n) => Held(l, n)'
    BY <1>2
  <2> QED BY <1>1, <1>3, <2>1, <2>2, TempStep
<1>4. CASE StartOrder(t)
  <2> DEFINE s == [at |-> IF call = "synthesis" THEN "gather" ELSE "analyse",
                   m |-> th[t].m, l |-> th[t].m,
                   ll |-> IF call = "synthesis" THEN th[t].m * th[t].m
                                                ELSE (th[t].m - 1) * th[t].m,
                   lm |-> LM(lmax, 1, th[t].m, th[t].m)]
  <2>1. th' = [th EXCEPT ![t] = s]
    BY <1>4 DEF StartOrder
  <2>2. s.at \in {"gather", "analyse"} /\ s.m = s.l
    OBVIOUS
  <2> HIDE DEF s
  <2> QED BY <1>3, <2>1, <2>2
<1>5. CASE LeaveLoop(t)
  BY <1>3, <1>5 DEF LeaveLoop, Out
<1>6. CASE Rows(t) \/ (Store(t) /\ ~ (th[t].l < lmax))
  <2>1. th' = [th EXCEPT ![t] = Loop(th[t].m + nthreads)]
    BY <1>6 DEF Rows, Store, NextOrder
  <2>2. Loop(th[t].m + nthreads).at = "loop"
    BY DEF Loop
  <2> QED BY <1>3, <2>1, <2>2
<1>7. CASE Store(t) /\ th[t].l < lmax
  <2>1. th' = [th EXCEPT ![t] = NextDegree(t, "loop")] /\ th[t].at = "store"
    BY <1>7 DEF Store
  <2>2. NextDegree(t, "loop").at = "store" /\ NextDegree(t, "loop").m = th[t].m
    BY <1>7, <2>1 DEF NextDegree
  <2> QED BY <1>3, <2>1, <2>2
<1> QED BY <1>4, <1>5, <1>6, <1>7

LEMMA TempKept == TypeOK /\ LoopInv /\ CallInv /\ TempInv /\ [Next]_vars => TempInv'
<1> SUFFICES ASSUME TypeOK, LoopInv, CallInv, TempInv, [Next]_vars PROVE TempInv'
  OBVIOUS
<1>1. CASE Synthesis \/ ForwardFft
  <2>1. th' = [t \in Thread |-> Loop(t)] /\ Thread' = Thread
    BY <1>1 DEF Synthesis, ForwardFft, EnterRegion, Thread
  <2>2. \A t \in Thread : th'[t].at = "loop"
    BY <2>1 DEF Loop
  <2> QED BY <2>1, <2>2 DEF TempInv
<1>2. CASE FillArray \/ Analysis \/ EndRegion \/ InverseFft
  <2>1. th' = th /\ nthreads' = nthreads /\ \A t \in Thread : th[t].at = "out"
    BY <1>2 DEF FillArray, Analysis, EndRegion, InverseFft, CallInv
  <2> QED BY <2>1 DEF TempInv, Thread
<1>3. CASE UNCHANGED vars
  <2>1. th' = th /\ Thread' = Thread
    BY <1>3 DEF vars, Thread
  <2>2. \A m, l : Held(l, m) => Held(l, m)'
    BY <1>3, HeldKept DEF vars, Q
  <2> QED BY <2>1, <2>2 DEF TempInv
<1>4. CASE \E t \in Thread : Step(t)
  BY <1>4, GatherTemp, AnalyseTemp, OtherTemp DEF Step
<1> QED BY <1>1, <1>2, <1>3, <1>4 DEF Next, Master

-----------------------------------------------------------------------------
(* The order whose thread writes a row. *)
RowOrder(k) == IF Abs(OrderOf(k)) <= mmax THEN Abs(OrderOf(k)) ELSE 0

LEMMA RowOrderIs ==
  ASSUME NEW k \in Mode
  PROVE  /\ RowOrder(k) \in 0 .. mmax
         /\ RowOrder(k) = 0 <=> k = 0 \/ (k > mmax /\ k < nphi - mmax)
         /\ \A m \in 1 .. mmax : RowOrder(k) = m <=> k = m \/ k = nphi - m
<1>1. /\ mmax \in Nat /\ nphi \in Nat /\ nphi > 2 * mmax /\ nphi > 1
      /\ k \in Nat /\ k < nphi
  BY CplxSizeAssumption DEF Mode
<1>2. Abs(OrderOf(k)) = IF 2 * k < nphi THEN k ELSE nphi - k
  BY <1>1 DEF OrderOf, Abs
<1> QED BY <1>1, <1>2 DEF RowOrder

LEMMA EvaluatedAt ==
  ASSUME NEW a
  PROVE  /\ Evaluated(a)[0] = Sum({a[<<l, 0>>] : l \in 0 .. lmax})
         /\ \A k \in Mode : k > mmax /\ k < nphi - mmax => Evaluated(a)[k] = {}
<1>1. mmax \in Nat /\ nphi \in Nat /\ nphi > 2 * mmax /\ nphi > 1
  BY CplxSizeAssumption
<1> DEFINE E(n) == Signed(n, Sum({a[<<l, n>>] : l \in Abs(n) .. lmax}))
<1>2. \A k \in Mode : Evaluated(a)[k] = IF Abs(OrderOf(k)) <= mmax THEN E(OrderOf(k)) ELSE {}
  BY DEF Evaluated
<1>3. 0 \in Mode /\ OrderOf(0) = 0 /\ Abs(0) = 0
  BY <1>1 DEF Mode, OrderOf, Abs
<1>4. Evaluated(a)[0] = Sum({a[<<l, 0>>] : l \in 0 .. lmax})
  <2>1. Evaluated(a)[0] = E(0)
    <3> HIDE DEF E
    <3>1. Abs(OrderOf(0)) <= mmax
      BY <1>1, <1>3
    <3>2. Evaluated(a)[0] = E(OrderOf(0))
      BY <1>2, <1>3, <3>1
    <3> QED BY <1>3, <3>2
  <2> QED BY <1>3, <2>1 DEF Signed
<1>5. ASSUME NEW k \in Mode, k > mmax, k < nphi - mmax PROVE Evaluated(a)[k] = {}
  <2>1. ~ (Abs(OrderOf(k)) <= mmax)
    BY <1>1, <1>5 DEF Mode, OrderOf, Abs
  <2> QED BY <1>2, <2>1
<1> QED BY <1>4, <1>5

LEMMA EvaluatedOrder ==
  ASSUME NEW a, NEW m \in 1 .. mmax
  PROVE  /\ Evaluated(a)[m] = Sum({a[<<l, m>>] : l \in m .. lmax})
         /\ Evaluated(a)[nphi - m] = Parity(m, Sum({a[<<l, -m>>] : l \in m .. lmax}))
<1>1. mmax \in Nat /\ nphi \in Nat /\ nphi > 2 * mmax /\ nphi > 1
  BY CplxSizeAssumption
<1> DEFINE E(n) == Signed(n, Sum({a[<<l, n>>] : l \in Abs(n) .. lmax}))
<1>2. \A k \in Mode : Evaluated(a)[k] = IF Abs(OrderOf(k)) <= mmax THEN E(OrderOf(k)) ELSE {}
  BY DEF Evaluated
<1>3. /\ m \in Mode /\ nphi - m \in Mode /\ OrderOf(m) = m /\ OrderOf(nphi - m) = -m
      /\ Abs(m) = m /\ Abs(-m) = m /\ ~ (m < 0) /\ -m < 0 /\ m <= mmax /\ m \in Int
  BY <1>1 DEF Mode, OrderOf, Abs
<1>4. Evaluated(a)[m] = E(m) /\ Evaluated(a)[nphi - m] = E(-m)
  BY <1>2, <1>3
<1>5. E(m) = Sum({a[<<l, m>>] : l \in m .. lmax})
  BY <1>3 DEF Signed
<1>6. E(-m) = Parity(-m, Sum({a[<<l, -m>>] : l \in m .. lmax}))
  BY <1>3 DEF Signed
<1> QED BY <1>3, <1>4, <1>5, <1>6, ParityOpposite

(* The coefficients of the caller are values. *)
LEMMA FieldValue ==
  ASSUME TypeOK
  PROVE  field \in [DegreeOrder -> Value]
<1>1. \A p \in DegreeOrder : LM_cplx(mmax, p[1], p[2]) \in 0 .. nlm_cplx - 1
  BY CplxPosition DEF DegreeOrder
<1> QED BY <1>1 DEF TypeOK, field

LEMMA DegreeOrderHas ==
  ASSUME NEW m \in 0 .. mmax, NEW l \in m .. lmax
  PROVE  <<l, m>> \in DegreeOrder /\ <<l, -m>> \in DegreeOrder
BY CplxSizeAssumption DEF DegreeOrder, Abs

(* The sums of the temporary arrays of an order are the modes of the field.  *)
LEMMA OrderSums ==
  ASSUME TypeOK, call = "synthesis", NEW m \in 0 .. mmax, \A l \in m .. lmax : Held(l, m)
  PROVE  LET plus == {rlm[k] : k \in OfOrder(m)}
             minus == {ilm[k] : k \in OfOrder(m)}
         IN  /\ m = 0 => Sum(plus \cup minus) = Evaluated(field)[0]
             /\ m # 0 => /\ Sum(plus) = Evaluated(field)[m]
                         /\ Sum(minus) = Evaluated(field)[nphi - m]
<1> DEFINE plus == {rlm[k] : k \in OfOrder(m)}
           minus == {ilm[k] : k \in OfOrder(m)}
           D == m .. lmax
           pos(l) == LM(lmax, 1, l, m)
           f == [l \in D |-> field[<<l, m>>]]
           g == [l \in D |-> field[<<l, -m>>]]
<1>1. \A k : k \in OfOrder(m) <=> \E l \in D : k = pos(l)
  BY OrderPositions
<1>2. \A l \in D : rlm[pos(l)] = Plus(l, m) /\ ilm[pos(l)] = Minus(l, m)
  BY DEF Held
<1>3. plus = {Plus(l, m) : l \in D} /\ minus = {Minus(l, m) : l \in D}
  <2> HIDE DEF pos, D
  <2>1. plus = {rlm[pos(l)] : l \in D} /\ minus = {ilm[pos(l)] : l \in D}
    BY <1>1
  <2> QED BY <1>2, <2>1
<1>4. f \in [D -> Value] /\ g \in [D -> Value]
  BY FieldValue, DegreeOrderHas
<1>5. /\ Evaluated(field)[0] = Sum({field[<<l, 0>>] : l \in 0 .. lmax})
      /\ m # 0 => /\ Evaluated(field)[m] = Sum({field[<<l, m>>] : l \in D})
                  /\ Evaluated(field)[nphi - m] = Parity(m, Sum({field[<<l, -m>>] : l \in D}))
  <2>1. m # 0 => m \in 1 .. mmax
    OBVIOUS
  <2>2. Evaluated(field)[0] = Sum({field[<<l, 0>>] : l \in 0 .. lmax})
    BY EvaluatedAt
  <2>3. CASE m # 0
    <3>1. Evaluated(field)[m] = Sum({field[<<l, m>>] : l \in D})
      BY <2>1, <2>3, EvaluatedOrder
    <3>2. Evaluated(field)[nphi - m] = Parity(m, Sum({field[<<l, -m>>] : l \in D}))
      BY <2>1, <2>3, EvaluatedOrder
    <3> QED BY <2>2, <3>1, <3>2
  <2> QED BY <2>2, <2>3
<1>6. CASE m = 0
  <2>1. \A l \in D : Plus(l, m) = Re(f[l]) /\ Minus(l, m) = Im(f[l])
    BY <1>6 DEF Plus, Minus
  <2>2. plus = {Re(f[l]) : l \in D} /\ minus = {Im(f[l]) : l \in D}
    <3> HIDE DEF plus, minus, f, D
    <3> QED BY <1>3, <2>1
  <2>3. {f[l] : l \in D} = {field[<<l, 0>>] : l \in 0 .. lmax}
    BY <1>6
  <2> HIDE DEF plus, minus, f, D
  <2>4. Sum(plus \cup minus) = Sum({f[l] : l \in D})
    BY <1>4, <2>2, SumOfParts
  <2> QED BY <1>5, <1>6, <2>3, <2>4 DEF plus, minus
<1>7. CASE m # 0
  <2>1. \A l \in D : Plus(l, m) = f[l] /\ Minus(l, m) = Parity(m, g[l])
    BY <1>7 DEF Plus, Minus
  <2>2. plus = {f[l] : l \in D} /\ minus = {Parity(m, g[l]) : l \in D}
    <3> HIDE DEF plus, minus, f, g, D
    <3> QED BY <1>3, <2>1
  <2>3. {f[l] : l \in D} = {field[<<l, m>>] : l \in D} /\ {g[l] : l \in D} = {field[<<l, -m>>] : l \in D}
    OBVIOUS
  <2>4. m \in Int
    OBVIOUS
  <2> HIDE DEF plus, minus, f, g, D
  <2>5. Sum(minus) = Parity(m, Sum({g[l] : l \in D}))
    BY <1>4, <2>2, <2>4, SumParity
  <2> QED BY <1>5, <1>7, <2>2, <2>3, <2>5 DEF plus, minus
<1> QED BY <1>6, <1>7

(* Rows writes the modes of its order, and no others. *)
LEMMA RowsMode ==
  ASSUME TypeOK, LoopInv, CallInv, TempInv, NEW t \in Thread, Rows(t),
         NEW k \in Mode, ModeDone(k) \/ RowOrder(k) = th[t].m
  PROVE  ModeDone(k)'
<1>1. /\ th[t].at = "rows" /\ call = "synthesis" /\ alm' = alm /\ layout' = layout
      /\ th[t].m \in 0 .. mmax
  BY OrderBounds DEF Rows, CallInv
<1>2. PICK m \in 0 .. mmax : m = th[t].m
  BY <1>1
<1> DEFINE plus == {rlm[j] : j \in OfOrder(m)}
           minus == {ilm[j] : j \in OfOrder(m)}
           f == [j \in Mode |->
                   IF m = 0 THEN IF j = 0 THEN Sum(plus \cup minus)
                                 ELSE IF j > mmax /\ j < nphi - mmax THEN {}
                                 ELSE Q.row[j]
                   ELSE IF j = m THEN Sum(plus)
                   ELSE IF j = nphi - m THEN Sum(minus)
                   ELSE Q.row[j]]
<1>3. Q \in Array
  BY QArray
<1>4. SetQ([Q EXCEPT !.row = f])
  BY <1>2, <1>3 DEF Rows
<1>5. \A l \in m .. lmax : Held(l, m)
  BY <1>1, <1>2 DEF TempInv
<1>6. /\ m = 0 => Sum(plus \cup minus) = Evaluated(field)[0]
      /\ m # 0 => Sum(plus) = Evaluated(field)[m] /\ Sum(minus) = Evaluated(field)[nphi - m]
  BY <1>1, <1>5, OrderSums
<1> HIDE DEF plus, minus
<1>7. f[k] = Evaluated(field)[k]
  <2>1. /\ RowOrder(k) \in 0 .. mmax
        /\ RowOrder(k) = 0 <=> k = 0 \/ (k > mmax /\ k < nphi - mmax)
        /\ \A n \in 1 .. mmax : RowOrder(k) = n <=> k = n \/ k = nphi - n
    BY RowOrderIs
  <2>2. CASE RowOrder(k) = m
    <3>1. CASE m = 0 /\ k = 0
      BY <1>6, <3>1
    <3>2. CASE m = 0 /\ k # 0
      <4>1. k > mmax /\ k < nphi - mmax
        BY <2>1, <2>2, <3>2
      <4>2. Evaluated(field)[k] = {}
        BY <4>1, EvaluatedAt
      <4> QED BY <3>2, <4>1, <4>2
    <3>3. CASE m # 0
      <4>1. k = m \/ k = nphi - m
        BY <2>1, <2>2, <3>3
      <4> QED BY <1>6, <3>3, <4>1
    <3> QED BY <3>1, <3>2, <3>3
  <2>3. CASE RowOrder(k) # m
    <3>1. f[k] = Q.row[k]
      <4>1. m = 0 => k # 0 /\ ~ (k > mmax /\ k < nphi - mmax)
        BY <2>1, <2>3
      <4>2. m # 0 => k # m /\ k # nphi - m
        BY <2>1, <2>3
      <4> QED BY <4>1, <4>2
    <3>2. ModeDone(k)
      BY <1>2, <2>3
    <3> HIDE DEF f
    <3> QED BY <3>1, <3>2 DEF ModeDone
  <2> QED BY <2>2, <2>3
<1> HIDE DEF f
<1>8. Q'.row = f
  <2>1. Q' = [Q EXCEPT !.row = f]
    BY <1>1, <1>4, SetQIs
  <2> QED BY <1>3, <2>1 DEF Array
<1>9. field' = field
  BY <1>1 DEF field
<1> QED BY <1>7, <1>8, <1>9 DEF ModeDone

(* A step of a thread ends at most the order it has. *)
LEMMA PendingStep ==
  ASSUME TypeOK, LoopInv, NEW t \in Thread, Step(t), NEW n \in 0 .. mmax, Pending(n)
  PROVE  \/ Pending(n)'
         \/ n = th[t].m /\ (Rows(t) \/ (Store(t) /\ ~ (th[t].l < lmax)))
<1>1. nthreads' = nthreads /\ th[t].at # "out"
  BY DEF Step, StartOrder, LeaveLoop, Gather, Rows, Analyse, Store
<1>2. ASSUME NEW s, th' = [th EXCEPT ![t] = s], s.at # "out", s.m = th[t].m
      PROVE  Pending(n)'
  BY <1>1, <1>2, PendingKept
<1>3. CASE StartOrder(t)
  <2> DEFINE s == [at |-> IF call = "synthesis" THEN "gather" ELSE "analyse",
                   m |-> th[t].m, l |-> th[t].m,
                   ll |-> IF call = "synthesis" THEN th[t].m * th[t].m
                                                ELSE (th[t].m - 1) * th[t].m,
                   lm |-> LM(lmax, 1, th[t].m, th[t].m)]
  <2>1. th' = [th EXCEPT ![t] = s]
    BY <1>3 DEF StartOrder
  <2>2. s.at # "out" /\ s.m = th[t].m
    OBVIOUS
  <2> HIDE DEF s
  <2> QED BY <1>2, <2>1, <2>2
<1>4. CASE LeaveLoop(t)
  <2>1. th' = [th EXCEPT ![t] = Out] /\ th[t].m > mmax
    BY <1>4 DEF LeaveLoop
  <2>2. n # th[t].m
    BY <2>1, CplxSizeAssumption
  <2> QED BY <1>1, <2>1, <2>2, PendingKept
<1>5. CASE Gather(t)
  <2>1. th' = [th EXCEPT ![t] = NextDegree(t, "rows")] /\ th[t].at = "gather"
    BY <1>5 DEF Gather
  <2>2. NextDegree(t, "rows").at # "out" /\ NextDegree(t, "rows").m = th[t].m
    BY <2>1 DEF NextDegree
  <2> QED BY <1>2, <2>1, <2>2
<1>6. CASE Rows(t) \/ (Store(t) /\ ~ (th[t].l < lmax))
  <2>1. th' = [th EXCEPT ![t] = Loop(th[t].m + nthreads)]
    BY <1>6 DEF Rows, Store, NextOrder
  <2>2. Loop(th[t].m + nthreads).at # "out" /\ Loop(th[t].m + nthreads).m = th[t].m + nthreads
    BY DEF Loop
  <2> QED BY <1>1, <1>6, <2>1, <2>2, PendingKept
<1>7. CASE Analyse(t)
  <2>1. th' = [th EXCEPT ![t] = [th[t] EXCEPT !.at = "store"]]
    BY <1>7 DEF Analyse
  <2>2. [th[t] EXCEPT !.at = "store"].at # "out" /\ [th[t] EXCEPT !.at = "store"].m = th[t].m
    BY DEF TypeOK
  <2> QED BY <1>2, <2>1, <2>2
<1>8. CASE Store(t) /\ th[t].l < lmax
  <2>1. th' = [th EXCEPT ![t] = NextDegree(t, "loop")] /\ th[t].at = "store"
    BY <1>8 DEF Store
  <2>2. NextDegree(t, "loop").at # "out" /\ NextDegree(t, "loop").m = th[t].m
    BY <2>1 DEF NextDegree
  <2> QED BY <1>2, <2>1, <2>2
<1> QED BY <1>3, <1>4, <1>5, <1>6, <1>7, <1>8 DEF Step

(* A step of a thread stores at most the degree it is at. *)
LEMMA DegreeStep ==
  ASSUME TypeOK, LoopInv, CallInv, call = "analysis", NEW t \in Thread, Step(t),
         NEW n \in 0 .. mmax, NEW l \in n .. lmax, DegreePending(l, n)
  PROVE  DegreePending(l, n)' \/ (Store(t) /\ n = th[t].m /\ l = th[t].l)
<1>1. nthreads' = nthreads /\ th[t].at # "out" /\ ~ Rows(t)
  BY DEF Step, StartOrder, LeaveLoop, Gather, Rows, Analyse, Store, CallInv
<1>2. /\ Pending(n) /\ (Owner(n).at = "store" /\ Owner(n).m = n => Owner(n).l <= l)
      /\ Owner(th[t].m) = th[t] /\ n \in Nat /\ l \in Int /\ n <= l /\ l <= lmax /\ lmax \in Int
  BY <1>1, OwnOrder, CplxSizeAssumption DEF DegreePending
<1>3. CASE n = th[t].m /\ Store(t) /\ ~ (th[t].l < lmax)
  <2>1. th[t].l <= l /\ th[t].l \in Nat
    BY <1>2, <1>3 DEF Store, TypeOK
  <2> QED BY <1>2, <1>3, <2>1
<1>4. CASE Pending(n)'
  <2>1. ASSUME NEW s, th' = [th EXCEPT ![t] = s],
               \/ s.at # "store"
               \/ s.l <= l
               \/ s.m # n
        PROVE  DegreePending(l, n)'
    <3>1. Owner(n)' = IF n % nthreads = t THEN s ELSE Owner(n)
      BY <1>1, <1>2, <2>1, OwnerStep
    <3>2. Owner(n)'.at = "store" /\ Owner(n)'.m = n => Owner(n)'.l <= l
      BY <1>2, <2>1, <3>1
    <3> QED BY <1>4, <3>2 DEF DegreePending
  <2>2. CASE StartOrder(t)
    <3> DEFINE s == [at |-> IF call = "synthesis" THEN "gather" ELSE "analyse",
                     m |-> th[t].m, l |-> th[t].m,
                     ll |-> IF call = "synthesis" THEN th[t].m * th[t].m
                                                  ELSE (th[t].m - 1) * th[t].m,
                     lm |-> LM(lmax, 1, th[t].m, th[t].m)]
    <3>1. th' = [th EXCEPT ![t] = s]
      BY <2>2 DEF StartOrder
    <3>2. s.at # "store"
      OBVIOUS
    <3> HIDE DEF s
    <3> QED BY <2>1, <3>1, <3>2
  <2>3. CASE LeaveLoop(t)
    BY <2>1, <2>3 DEF LeaveLoop, Out
  <2>4. CASE Gather(t)
    BY <2>4 DEF Gather, CallInv
  <2>5. CASE Store(t) /\ ~ (th[t].l < lmax)
    <3>1. th' = [th EXCEPT ![t] = Loop(th[t].m + nthreads)]
      BY <2>5 DEF Store, NextOrder
    <3>2. Loop(th[t].m + nthreads).at # "store"
      BY DEF Loop
    <3> QED BY <2>1, <3>1, <3>2
  <2>6. CASE Analyse(t)
    <3>1. PICK s : s = [th[t] EXCEPT !.at = "store"]
      OBVIOUS
    <3>2. s.l = th[t].l /\ s.m = th[t].m /\ th[t].l = th[t].m
      BY <2>6, <3>1 DEF Analyse, TypeOK, LoopInv, Indices
    <3>3. s.m # n \/ s.l <= l
      BY <1>2, <3>2
    <3>4. th' = [th EXCEPT ![t] = s]
      BY <2>6, <3>1 DEF Analyse
    <3> QED BY <2>1, <3>3, <3>4
  <2>7. CASE Store(t) /\ th[t].l < lmax
    <3>1. PICK s : s = NextDegree(t, "loop")
      OBVIOUS
    <3>2. th' = [th EXCEPT ![t] = s] /\ th[t].at = "store" /\ th[t].l \in Nat
      BY <2>7, <3>1 DEF Store, TypeOK
    <3>3. s.l = th[t].l + 1 /\ s.m = th[t].m
      BY <3>1 DEF NextDegree
    <3>4. CASE th[t].m # n
      BY <2>1, <3>2, <3>3, <3>4
    <3>5. CASE th[t].m = n
      <4>1. th[t].l <= l
        BY <1>2, <3>2, <3>5
      <4>2. l = th[t].l \/ s.l <= l
        BY <1>2, <3>2, <3>3, <4>1
      <4> QED BY <2>1, <2>7, <3>2, <3>5, <4>2
    <3> QED BY <3>4, <3>5
  <2> QED BY <1>1, <2>2, <2>3, <2>4, <2>5, <2>6, <2>7 DEF Step
<1> QED BY <1>1, <1>2, <1>3, <1>4, PendingStep

-----------------------------------------------------------------------------
(* During a synthesis, the modes that are not pending are written. *)
LEMMA ModeKept ==
  TypeOK /\ LoopInv /\ CallInv /\ TempInv /\ ModeInv /\ [Next]_vars => ModeInv'
<1> SUFFICES ASSUME TypeOK, LoopInv, CallInv, TempInv, ModeInv, [Next]_vars,
                    call' = "synthesis", NEW k \in Mode
             PROVE  ModeDone(k)' \/ Pending(RowOrder(k))'
  BY DEF ModeInv, RowOrder
<1>1. RowOrder(k) \in 0 .. mmax /\ RowOrder(k) \in Nat
  BY RowOrderIs, CplxSizeAssumption
<1>2. PICK n \in 0 .. mmax : n = RowOrder(k) /\ n \in Nat
  BY <1>1
<1>3. call = "synthesis" => ModeDone(k) \/ Pending(n)
  BY <1>2 DEF ModeInv, RowOrder
<1>4. CASE Synthesis
  <2>1. Pending(n)'
    BY <1>2, <1>4, StartPending DEF Synthesis, EnterRegion
  <2> QED BY <1>2, <2>1
<1>5. CASE EndRegion \/ UNCHANGED vars
  <2>1. /\ th' = th /\ nthreads' = nthreads /\ alm' = alm /\ z' = z /\ mem' = mem
        /\ layout' = layout /\ call = "synthesis"
    BY <1>5 DEF EndRegion, vars
  <2>2. ModeDone(k) => ModeDone(k)'
    BY <2>1 DEF ModeDone, Q, field
  <2>3. Pending(n) => Pending(n)'
    BY <2>1 DEF Pending, Owner
  <2> QED BY <1>2, <1>3, <2>1, <2>2, <2>3
<1>6. ASSUME NEW t \in Thread, Step(t)
      PROVE  ModeDone(k)' \/ Pending(n)'
  <2>1. call = "synthesis"
    BY <1>6 DEF Step, StartOrder, LeaveLoop, Gather, Rows, Analyse, Store
  <2>2. CASE Rows(t)
    <3>1. CASE ModeDone(k) \/ n = th[t].m
      BY <1>2, <2>2, <3>1, RowsMode
    <3>2. CASE ~ (ModeDone(k) \/ n = th[t].m)
      BY <1>2, <1>3, <1>6, <2>1, <3>2, PendingStep
    <3> QED BY <3>1, <3>2
  <2>3. CASE ~ Rows(t)
    <3>1. ~ Store(t) /\ ~ Analyse(t)
      BY <2>1 DEF Store, Analyse, CallInv
    <3>2. alm' = alm /\ z' = z /\ mem' = mem /\ layout' = layout
      BY <1>6, <2>3, <3>1 DEF Step, StartOrder, LeaveLoop, Gather
    <3>3. ModeDone(k) => ModeDone(k)'
      BY <3>2 DEF ModeDone, Q, field
    <3>4. Pending(n) => Pending(n)'
      BY <1>2, <1>6, <2>3, <3>1, PendingStep
    <3> QED BY <1>3, <2>1, <3>3, <3>4
  <2> QED BY <2>2, <2>3
<1>7. ~ FillArray /\ ~ Analysis /\ ~ ForwardFft /\ ~ InverseFft
  BY DEF FillArray, Analysis, ForwardFft, InverseFft
<1> QED BY <1>2, <1>4, <1>5, <1>6, <1>7 DEF Next, Master

-----------------------------------------------------------------------------
LEMMA ExpandedAt ==
  ASSUME NEW f, NEW m \in 0 .. mmax, NEW l \in m .. lmax
  PROVE  /\ Expanded(f)[<<l, m>>] = Projected(f[m], l)
         /\ m # 0 => Expanded(f)[<<l, -m>>] = Parity(m, Projected(f[nphi - m], l))
<1>1. <<l, m>> \in DegreeOrder /\ <<l, -m>> \in DegreeOrder /\ m \in Int
  BY DegreeOrderHas
<1>2. \A p \in DegreeOrder :
        Expanded(f)[p] = Signed(p[2], Projected(f[IF p[2] < 0 THEN nphi + p[2] ELSE p[2]], p[1]))
  BY DEF Expanded
<1>3. Expanded(f)[<<l, m>>] = Projected(f[m], l)
  <2>1. ~ (m < 0)
    OBVIOUS
  <2> QED BY <1>1, <1>2, <2>1 DEF Signed
<1>4. ASSUME m # 0
      PROVE  Expanded(f)[<<l, -m>>] = Parity(m, Projected(f[nphi - m], l))
  <2>1. -m < 0 /\ nphi + (-m) = nphi - m
    BY <1>4, CplxSizeAssumption
  <2>2. Expanded(f)[<<l, -m>>] = Signed(-m, Projected(f[nphi - m], l))
    BY <1>1, <1>2, <2>1
  <2> QED BY <1>1, <2>1, <2>2, ParityOpposite DEF Signed
<1> QED BY <1>3, <1>4

(* What the temporary arrays hold of an analysis are the coefficients of the *)
(* modes.                                                                    *)
LEMMA AnalysedIs ==
  ASSUME TypeOK, call = "analysis", stage = "region",
         NEW m \in 0 .. mmax, NEW l \in m .. lmax
  PROVE  /\ m = 0 => Sum({Plus(l, m), Minus(l, m)}) = Expanded(modes)[<<l, 0>>]
         /\ m # 0 => /\ Plus(l, m) = Expanded(modes)[<<l, m>>]
                     /\ Parity(m, Minus(l, m)) = Expanded(modes)[<<l, -m>>]
<1>1. Q.row \in [Mode -> Value] /\ modes = Mirrored(Q.row)
  BY QArray DEF modes
<1>2. /\ 0 \in Mode /\ m \in Mode /\ nphi - 0 = nphi
      /\ m # 0 => nphi - m \in Mode /\ nphi - m # 0 /\ nphi - (nphi - m) = m
  BY CplxSizeAssumption DEF Mode
<1>3. modes[0] = Q.row[0] /\ (m # 0 => modes[m] = Q.row[nphi - m] /\ modes[nphi - m] = Q.row[m])
  BY <1>1, <1>2 DEF Mirrored
<1>4. Q.row[0] \in Value
  BY <1>1, <1>2
<1>5. /\ Expanded(modes)[<<l, m>>] = Projected(modes[m], l)
      /\ m # 0 => Expanded(modes)[<<l, -m>>] = Parity(m, Projected(modes[nphi - m], l))
  BY ExpandedAt
<1>6. CASE m = 0
  <2>1. Plus(l, m) = Projected(Re(Q.row[0]), l) /\ Minus(l, m) = Projected(Im(Q.row[0]), l)
    BY <1>6 DEF Plus, Minus
  <2>2. Sum({Projected(Re(Q.row[0]), l), Projected(Im(Q.row[0]), l)}) = Projected(Q.row[0], l)
    BY <1>4, ProjectedParts
  <2> QED BY <1>3, <1>5, <1>6, <2>1, <2>2
<1>7. CASE m # 0
  <2>1. Plus(l, m) = Projected(Q.row[nphi - m], l) /\ Minus(l, m) = Projected(Q.row[m], l)
    BY <1>7 DEF Plus, Minus
  <2> QED BY <1>3, <1>5, <1>7, <2>1
<1> QED BY <1>6, <1>7

(* Store writes the coefficients of its degree, and no others. *)
LEMMA StoreDegree ==
  ASSUME TypeOK, LoopInv, CallInv, TempInv, NEW t \in Thread, Store(t),
         NEW p \in DegreeOrder,
         DegreeDone(p) \/ (p[1] = th[t].l /\ Abs(p[2]) = th[t].m)
  PROVE  DegreeDone(p)'
<1>1. /\ th[t].at = "store" /\ call = "analysis" /\ stage = "region"
      /\ z' = z /\ mem' = mem /\ layout' = layout /\ stage' = stage
  BY DEF Store, CallInv
<1>2. PICK m, d, e, ll : m = th[t].m /\ d = th[t].l /\ e = th[t].lm
                          /\ ll = NextIndex(th[t].l, th[t].ll)
  OBVIOUS
<1>3. /\ m \in 0 .. mmax /\ d \in m .. lmax /\ e = LM(lmax, 1, d, m)
      /\ ll = LM_cplx(mmax, d, 0) /\ ll + m = LM_cplx(mmax, d, m) /\ ll - m = LM_cplx(mmax, d, -m)
      /\ <<d, m>> \in DegreeOrder /\ <<d, -m>> \in DegreeOrder /\ <<d, 0>> \in DegreeOrder
  <2>1. /\ th[t].m \in 0 .. mmax /\ th[t].l \in th[t].m .. lmax
        /\ th[t].lm = LM(lmax, 1, th[t].l, th[t].m)
    BY <1>1, StoreBounds
  <2>2. NextIndex(th[t].l, th[t].ll) = LM_cplx(mmax, th[t].l, 0)
    BY <1>1, StoreBounds
  <2>3. /\ NextIndex(th[t].l, th[t].ll) + th[t].m = LM_cplx(mmax, th[t].l, th[t].m)
        /\ NextIndex(th[t].l, th[t].ll) - th[t].m = LM_cplx(mmax, th[t].l, -th[t].m)
    BY <1>1, StoreBounds
  <2>4. /\ <<th[t].l, th[t].m>> \in DegreeOrder /\ <<th[t].l, -th[t].m>> \in DegreeOrder
        /\ <<th[t].l, 0>> \in DegreeOrder
    BY <1>1, StoreBounds
  <2> QED BY <1>2, <2>1, <2>2, <2>3, <2>4
<1>4. rlm[e] = Plus(d, m) /\ ilm[e] = Minus(d, m)
  BY <1>1, <1>2, <1>3 DEF TempInv, Held
<1>5. alm' = IF m = 0 THEN [alm EXCEPT ![ll] = Sum({Plus(d, m), Minus(d, m)})]
             ELSE [alm EXCEPT ![ll + m] = Plus(d, m), ![ll - m] = Parity(m, Minus(d, m))]
  BY <1>2, <1>4 DEF Store
<1>6. modes' = modes
  BY <1>1 DEF modes, Q
<1>7. PICK E : E = Expanded(modes)
  OBVIOUS
<1>8. /\ m = 0 => Sum({Plus(d, m), Minus(d, m)}) = E[<<d, 0>>]
      /\ m # 0 => /\ Plus(d, m) = E[<<d, m>>]
                  /\ Parity(m, Minus(d, m)) = E[<<d, -m>>]
  BY <1>1, <1>3, <1>7, AnalysedIs
<1>9. alm' = IF m = 0 THEN [alm EXCEPT ![ll] = E[<<d, 0>>]]
             ELSE [alm EXCEPT ![ll + m] = E[<<d, m>>], ![ll - m] = E[<<d, -m>>]]
  BY <1>5, <1>8
<1> DEFINE pos(q) == LM_cplx(mmax, q[1], q[2])
<1>10. /\ alm \in [0 .. nlm_cplx - 1 -> Value]
       /\ \A q \in DegreeOrder : pos(q) \in 0 .. nlm_cplx - 1
  BY CplxPosition DEF DegreeOrder, TypeOK
<1>11. \A q, r \in DegreeOrder : pos(q) = pos(r) => q = r
  BY CplxApart
<1>12. /\ pos(<<d, 0>>) = ll /\ pos(<<d, m>>) = ll + m /\ pos(<<d, -m>>) = ll - m
  BY <1>3
<1> HIDE DEF pos
<1>13. alm'[pos(p)] = E[p]
  <2>1. CASE m = 0 /\ p = <<d, 0>>
    BY <1>3, <1>9, <1>10, <1>12, <2>1
  <2>2. CASE m # 0 /\ p = <<d, -m>>
    BY <1>3, <1>9, <1>10, <1>12, <2>2
  <2>3. CASE m # 0 /\ p = <<d, m>>
    <3>1. ll + m # ll - m
      <4>1. <<d, m>> # <<d, -m>>
        BY <1>3, <2>3
      <4> QED BY <1>3, <1>11, <1>12, <4>1
    <3> QED BY <1>3, <1>9, <1>10, <1>12, <2>3, <3>1
  <2>4. CASE ~ (p[1] = d /\ Abs(p[2]) = m)
    <3>1. DegreeDone(p)
      BY <1>2, <2>4
    <3>2. alm[pos(p)] = E[p]
      BY <1>7, <3>1 DEF DegreeDone, field, pos
    <3>3. p # <<d, m>> /\ p # <<d, -m>> /\ (m = 0 => p # <<d, 0>>)
      BY <1>3, <2>4, CplxSizeAssumption DEF Abs
    <3>4. pos(p) # ll + m /\ pos(p) # ll - m /\ (m = 0 => pos(p) # ll)
      BY <1>3, <1>11, <1>12, <3>3
    <3> QED BY <1>9, <1>10, <3>2, <3>4
  <2>5. p = <<p[1], p[2]>> /\ p[2] \in Int
    BY DEF DegreeOrder
  <2>6. m \in Int
    BY <1>3
  <2>7. Abs(p[2]) = m => p[2] = m \/ (m # 0 /\ p[2] = -m)
    BY <2>5, <2>6 DEF Abs
  <2> QED BY <2>1, <2>2, <2>3, <2>4, <2>5, <2>7
<1>14. field'[p] = alm'[pos(p)]
  BY DEF field, pos
<1> QED BY <1>6, <1>7, <1>13, <1>14 DEF DegreeDone

(* During an analysis, the coefficients that are not pending are stored.     *)
LEMMA DegreeKept ==
  TypeOK /\ LoopInv /\ CallInv /\ TempInv /\ DegreeInv /\ [Next]_vars => DegreeInv'
<1> SUFFICES ASSUME TypeOK, LoopInv, CallInv, TempInv, DegreeInv, [Next]_vars,
                    call' = "analysis", stage' = "region"
             PROVE  /\ ~ layout'.oop => z'.domain = "fourier"
                    /\ \A p \in DegreeOrder :
                         DegreeDone(p)' \/ DegreePending(p[1], Abs(p[2]))'
  BY DEF DegreeInv
<1>1. \A p \in DegreeOrder : /\ Abs(p[2]) \in 0 .. mmax /\ Abs(p[2]) \in Nat
                             /\ p[1] \in Abs(p[2]) .. lmax
  BY CplxSizeAssumption DEF DegreeOrder, Abs
<1>2. CASE ForwardFft
  <2>1. ~ layout'.oop => z'.domain = "fourier"
    BY <1>2 DEF ForwardFft, SetQ, ToFourier
  <2>2. ASSUME NEW p \in DegreeOrder PROVE DegreePending(p[1], Abs(p[2]))'
    <3>1. PICK n, l : n = Abs(p[2]) /\ l = p[1]
      OBVIOUS
    <3>2. Pending(n)' /\ Owner(n)'.at = "loop"
      BY <1>1, <1>2, <3>1, StartPending DEF ForwardFft, EnterRegion
    <3>3. DegreePending(l, n)'
      BY <3>2 DEF DegreePending
    <3> QED BY <3>1, <3>3
  <2> QED BY <2>1, <2>2
<1>3. CASE UNCHANGED vars
  <2>1. /\ th' = th /\ nthreads' = nthreads /\ alm' = alm /\ z' = z /\ mem' = mem
        /\ layout' = layout /\ call = "analysis" /\ stage = "region" /\ stage' = stage
    BY <1>3 DEF vars
  <2>2. ASSUME NEW p \in DegreeOrder
        PROVE  DegreeDone(p)' \/ DegreePending(p[1], Abs(p[2]))'
    <3>1. PICK n, l : n = Abs(p[2]) /\ l = p[1]
      OBVIOUS
    <3>2. DegreeDone(p) => DegreeDone(p)'
      BY <2>1 DEF DegreeDone, field, modes, Q
    <3>3. DegreePending(l, n) => DegreePending(l, n)'
      BY <2>1 DEF DegreePending, Pending, Owner
    <3> QED BY <2>1, <3>1, <3>2, <3>3 DEF DegreeInv
  <2> QED BY <2>1, <2>2 DEF DegreeInv
<1>4. ASSUME NEW t \in Thread, Step(t)
      PROVE  /\ ~ layout'.oop => z'.domain = "fourier"
             /\ \A p \in DegreeOrder :
                  DegreeDone(p)' \/ DegreePending(p[1], Abs(p[2]))'
  <2>1. call = "analysis" /\ stage = "region"
    BY <1>4 DEF Step, StartOrder, LeaveLoop, Gather, Rows, Analyse, Store
  <2>2. ~ Rows(t) /\ ~ Gather(t)
    BY <2>1 DEF Rows, Gather, CallInv
  <2>3. z' = z /\ mem' = mem /\ layout' = layout /\ stage' = stage
    BY <1>4, <2>2 DEF Step, StartOrder, LeaveLoop, Analyse, Store
  <2>4. ASSUME NEW p \in DegreeOrder
        PROVE  DegreeDone(p)' \/ DegreePending(p[1], Abs(p[2]))'
    <3>1. PICK n \in 0 .. mmax, l \in Int : n = Abs(p[2]) /\ l = p[1] /\ l \in n .. lmax
      BY <1>1
    <3>2. DegreeDone(p) \/ DegreePending(l, n)
      BY <2>1, <3>1 DEF DegreeInv
    <3>3. CASE DegreeDone(p)
      <4>1. CASE Store(t)
        BY <3>3, <4>1, StoreDegree
      <4>2. CASE ~ Store(t)
        <5>1. alm' = alm
          BY <1>4, <2>2, <4>2 DEF Step, StartOrder, LeaveLoop, Analyse
        <5> QED BY <2>3, <3>3, <5>1 DEF DegreeDone, field, modes, Q
      <4> QED BY <4>1, <4>2
    <3>4. CASE DegreePending(l, n)
      <4>1. DegreePending(l, n)' \/ (Store(t) /\ n = th[t].m /\ l = th[t].l)
        BY <1>4, <2>1, <3>1, <3>4, DegreeStep
      <4>2. CASE Store(t) /\ n = th[t].m /\ l = th[t].l
        BY <3>1, <4>2, StoreDegree
      <4> QED BY <3>1, <4>1, <4>2
    <3> QED BY <3>2, <3>3, <3>4
  <2> QED BY <2>1, <2>3, <2>4 DEF DegreeInv
<1>5. ~ FillArray /\ ~ Synthesis /\ ~ Analysis /\ ~ EndRegion /\ ~ InverseFft
  <2>1. ~ FillArray
    BY DEF FillArray
  <2>2. ~ Analysis
    BY DEF Analysis
  <2> QED BY <2>1, <2>2 DEF Synthesis, EndRegion, InverseFft
<1> QED BY <1>2, <1>3, <1>4, <1>5 DEF Next, Master

(* While a call runs, every coefficient and every mode that has no result yet*)
(* belongs to an order whose thread has still to write it; what has one has  *)
(* the right one.                                                            *)
THEOREM FieldInvariant == Spec => []FieldInv
<1>1. Init => FieldInv
  <2> SUFFICES ASSUME Init PROVE FieldInv
    OBVIOUS
  <2>1. LoopInv /\ th = [t \in Thread |-> Out] /\ call = "none"
    BY InitLoopInv DEF Init
  <2>2. \A t \in Thread : th[t].at = "out"
    BY <2>1 DEF Out
  <2>3. TypeOK
    BY <2>1, <2>2, FilledIs, LostValue DEF Init, TypeOK, LoopInv
  <2> QED BY <2>1, <2>2, <2>3 DEF FieldInv, CallInv, TempInv, ModeInv, DegreeInv
<1>2. FieldInv /\ [Next]_vars => FieldInv'
  BY NextInv, NextTypeOK, CallKept, TempKept, ModeKept, DegreeKept DEF FieldInv
<1> QED BY <1>1, <1>2, PTL DEF Spec

-----------------------------------------------------------------------------
(* The fields of the abstract transform are those of the module CplxValues.  *)
LEMMA SameFields ==
  /\ Field!FullSpec = FullSpec /\ Field!LostField = LostField
  /\ \A a : Field!Evaluated(a) = Evaluated(a)
  /\ \A f : Field!Expanded(f) = Expanded(f)
BY DEF Field!FullSpec, FullSpec, Field!LostField, LostField, Field!Evaluated, Evaluated,
       Field!Expanded, Expanded, Field!DegreeOrder, DegreeOrder, Field!Mode, Mode,
       Field!Coef, Coef, Field!Unknown, Unknown, Field!Signed, Signed, Field!Parity, Parity,
       Field!Sum, Sum, Field!Projected, Projected, Field!OrderOf, OrderOf, Field!Abs, Abs

(* When all threads are out, nothing is pending. *)
LEMMA NothingPending ==
  ASSUME LoopInv, \A t \in Thread : th[t].at = "out", NEW n \in Nat
  PROVE  ~ Pending(n)
<1>1. nthreads \in Nat \ {0}
  BY DEF LoopInv
<1>2. n % nthreads \in Thread
  BY <1>1, OwnerOf DEF Thread
<1> QED BY <1>2 DEF Pending, Owner

(* A step of a thread is hidden from the caller. *)
LEMMA HiddenStep ==
  ASSUME FieldInv, NEW t \in Thread, Step(t)
  PROVE  UNCHANGED <<almBar, zBar>>
<1>1. /\ call' = call /\ stage' = stage /\ layout' = layout
      /\ call = "synthesis" => alm' = alm
      /\ call # "synthesis" => z' = z /\ mem' = mem
      /\ call \in {"synthesis", "analysis"}
  <2>1. th[t].at # "out"
    BY DEF Step, StartOrder, LeaveLoop, Gather, Rows, Analyse, Store
  <2>2. call \in {"synthesis", "analysis"}
    BY <2>1 DEF FieldInv, CallInv, TypeOK
  <2>3. call = "synthesis" => ~ Store(t) /\ ~ Analyse(t)
    BY DEF FieldInv, CallInv, Store, Analyse
  <2>4. call # "synthesis" => ~ Rows(t) /\ ~ Gather(t)
    BY DEF FieldInv, CallInv, Rows, Gather
  <2> QED BY <2>2, <2>3, <2>4 DEF Step, StartOrder, LeaveLoop, Gather, Rows, Analyse, Store
<1>2. CASE call = "synthesis"
  <2>1. field' = field
    BY <1>1, <1>2 DEF field
  <2> QED BY <1>1, <1>2, <2>1 DEF almBar, zBar
<1>3. CASE call = "analysis"
  <2>1. modes' = modes /\ zArray' = zArray
    BY <1>1, <1>3 DEF modes, zArray, Q
  <2> QED BY <1>1, <1>3, <2>1 DEF almBar, zBar
<1> QED BY <1>1, <1>2, <1>3

(* So are the Fourier transforms and the end of the loop. *)
LEMMA HiddenMaster ==
  ASSUME FieldInv, Master
  PROVE  UNCHANGED <<almBar, zBar>>
<1>1. TypeOK /\ LoopInv /\ CallInv /\ ModeInv /\ DegreeInv
  BY DEF FieldInv
<1>2. CASE ForwardFft
  <2>1. /\ call = "analysis" /\ stage = "fft" /\ call' = call /\ stage' = "region"
        /\ layout' = layout /\ SetQ(ToFourier(z))
    BY <1>2 DEF ForwardFft, EnterRegion
  <2>2. Q' = ToFourier(z) /\ (layout.oop => z' = z)
    BY <1>1, <2>1, SetQIs DEF SetQ
  <2>3. z.row \in [Mode -> Value] /\ LostField \in [Mode -> Value]
    BY <1>1, LostValue DEF TypeOK, Array
  <2>4. modes' = Mirrored(ToFourier(z).row)
    BY <2>1, <2>2 DEF modes
  <2>5. Mirrored(ToFourier(z).row) = zArray
    <3>1. CASE z.domain = "grid"
      BY <2>3, <3>1, MirroredValue DEF ToFourier, zArray
    <3>2. CASE z.domain # "grid"
      <4>1. Mirrored(LostField) = LostField
        <5>1. \A k \in Mode : k # 0 => nphi - k \in Mode
          BY CplxSizeAssumption DEF Mode
        <5>2. 0 \in Mode
          BY CplxSizeAssumption DEF Mode
        <5>3. \A k \in Mode : (IF k = 0 THEN LostField[0] ELSE LostField[nphi - k]) = Unknown
          BY <5>1, <5>2 DEF LostField
        <5> QED BY <5>3 DEF Mirrored, LostField
      <4> QED BY <3>2, <4>1 DEF ToFourier, zArray
    <3> QED BY <3>1, <3>2
  <2>6. modes' = modes
    BY <2>1, <2>4, <2>5 DEF modes
  <2>7. zBar' = zBar
    <3>1. CASE layout.oop
      BY <2>1, <2>2, <3>1 DEF zBar, zArray
    <3>2. CASE ~ layout.oop
      BY <2>1, <3>2 DEF zBar
    <3> QED BY <3>1, <3>2
  <2> QED BY <2>1, <2>6, <2>7 DEF almBar
<1>3. CASE EndRegion
  <2>1. /\ call # "none" /\ stage = "region" /\ \A t \in Thread : th[t].at = "out"
        /\ call' = (IF call = "synthesis" THEN call ELSE "none")
        /\ alm' = alm /\ z' = z /\ layout' = layout
    BY <1>3 DEF EndRegion
  <2>2. field' = field /\ zArray' = zArray
    BY <2>1 DEF field, zArray
  <2>3. CASE call = "synthesis"
    BY <2>1, <2>2, <2>3 DEF almBar, zBar
  <2>4. CASE call = "analysis"
    <3>1. \A p \in DegreeOrder : field[p] = Expanded(modes)[p]
      <4> TAKE p \in DegreeOrder
      <4>1. Abs(p[2]) \in Nat
        BY DEF DegreeOrder, Abs
      <4>2. ~ DegreePending(p[1], Abs(p[2]))
        BY <1>1, <2>1, <4>1, NothingPending DEF DegreePending
      <4> QED BY <1>1, <2>1, <2>4, <4>2 DEF DegreeInv, DegreeDone
    <3>2. field = Expanded(modes)
      BY <3>1 DEF field, Expanded
    <3>3. ~ layout.oop => zArray = LostField
      BY <1>1, <2>1, <2>4 DEF DegreeInv, zArray
    <3> QED BY <2>1, <2>2, <2>4, <3>2, <3>3 DEF almBar, zBar
  <2> QED BY <1>1, <2>1, <2>3, <2>4 DEF TypeOK
<1>4. CASE InverseFft
  <2>1. /\ call = "synthesis" /\ stage = "fft" /\ call' = "none" /\ alm' = alm
        /\ z' = ToGrid(Q)
    BY <1>4 DEF InverseFft
  <2>2. \A t \in Thread : th[t].at = "out"
    BY <1>1, <2>1 DEF CallInv
  <2>3. \A k \in Mode : Q.row[k] = Evaluated(field)[k]
    <3> TAKE k \in Mode
    <3>1. RowOrder(k) \in Nat
      BY RowOrderIs, CplxSizeAssumption
    <3>2. ~ Pending(RowOrder(k))
      BY <1>1, <2>2, <3>1, NothingPending
    <3> QED BY <1>1, <2>1, <3>2 DEF ModeInv, ModeDone, RowOrder
  <2>4. Q.row = Evaluated(field)
    <3>1. Q.row \in [Mode -> Value]
      BY <1>1, QArray
    <3> QED BY <2>3, <3>1 DEF Evaluated
  <2>5. zArray' = Evaluated(field) /\ field' = field
    BY <2>1, <2>4 DEF zArray, ToGrid, field
  <2> QED BY <2>1, <2>5 DEF almBar, zBar
<1> QED BY <1>2, <1>3, <1>4 DEF Master

(* However many threads there are and in whatever order they run, a call     *)
(* does what the abstract transform does in one step, for every truncation.  *)
THEOREM RefinesField == Spec => Implements
<1>1. Init => Field!Init
  <2> SUFFICES ASSUME Init PROVE Field!Init
    OBVIOUS
  <2>1. \A p \in DegreeOrder : alm[LM_cplx(mmax, p[1], p[2])] = Coef(p)
    BY FilledIs DEF Init
  <2>2. field = FullSpec
    BY <2>1 DEF field, FullSpec
  <2>3. almBar = FullSpec /\ zBar = LostField
    BY <2>2 DEF Init, almBar, zBar, zArray
  <2> QED BY <2>3, SameFields DEF Field!Init
<1>2. FieldInv /\ [Next]_vars => [Field!Next]_<<almBar, zBar>>
  <2> SUFFICES ASSUME FieldInv, [Next]_vars PROVE [Field!Next]_<<almBar, zBar>>
    OBVIOUS
  <2>1. CASE UNCHANGED vars
    BY <2>1 DEF vars, almBar, zBar, field, modes, zArray, Q
  <2>2. CASE FillArray
    <3>1. alm' = Filled /\ z' = z /\ call = "none" /\ call' = "none"
      BY <2>2 DEF FillArray
    <3>2. \A p \in DegreeOrder : alm'[LM_cplx(mmax, p[1], p[2])] = Coef(p)
      BY <3>1, FilledIs
    <3>3. field' = FullSpec
      BY <3>2 DEF field, FullSpec
    <3>4. Field!FillSpec
      BY <3>1, <3>3, SameFields DEF Field!FillSpec, almBar, zBar, zArray
    <3> QED BY <3>4 DEF Field!Next
  <2>3. CASE Synthesis
    <3>1. call = "none" /\ call' = "synthesis" /\ alm' = alm
      BY <2>3 DEF Synthesis
    <3>2. almBar' = almBar /\ zBar' = Evaluated(almBar)
      BY <3>1 DEF almBar, zBar, field
    <3>3. Field!SH_to_spat_cplx
      BY <3>2, SameFields DEF Field!SH_to_spat_cplx
    <3> QED BY <3>3 DEF Field!Next
  <2>4. CASE Analysis
    <3>1. call = "none" /\ call' = "analysis" /\ stage' = "fft" /\ z' = z /\ layout' = layout
      BY <2>4 DEF Analysis
    <3>2. zBar = zArray /\ zArray' = zArray /\ zBar' \in {zArray, LostField}
      BY <3>1 DEF zBar, zArray
    <3>3. almBar' = Expanded(zArray)
      BY <3>1, <3>2 DEF almBar, modes
    <3>4. Field!spat_cplx_to_SH
      BY <3>2, <3>3, SameFields DEF Field!spat_cplx_to_SH
    <3> QED BY <3>4 DEF Field!Next
  <2>5. CASE \E t \in Thread : Step(t)
    BY <2>5, HiddenStep
  <2>6. CASE Master
    BY <2>6, HiddenMaster
  <2> QED BY <2>1, <2>2, <2>3, <2>4, <2>5, <2>6 DEF Next
<1> QED BY <1>1, <1>2, FieldInvariant, PTL DEF Spec, Implements, Field!Spec
=============================================================================
