-------------------------- MODULE Rotation_proofs ---------------------------
(* Proofs about Rotation, for any truncations, any angles the model admits   *)
(* and any number of threads.                                                *)
EXTENDS Rotation, LmIndex_proofs

-----------------------------------------------------------------------------
(* Where coefficients lie: the running positions of a rotation are those of  *)
(* the macros of the caller, no two coefficients share one, and all of them  *)
(* are in the array.                                                         *)

(* The macro of the caller, when every order is stored. *)
LEMMA LMSum ==
  ASSUME NEW L \in Nat, NEW l \in Int, NEW m \in Nat
  PROVE  LM(L, 1, l, m) = m * (L + 1) - Triangle(m) + l /\ Triangle(m) \in Nat
<1>1. LM(L, 1, l, m * 1) = LiM(L, 1, l, m)
  BY LMIsLiM, 1 \in Nat, 1 >= 1
<1>2. LiM(L, 1, l, m) = m * (L + 1) - 1 * Triangle(m) + l
  BY LiMAffine, 1 \in Nat
<1>3. Triangle(m) \in Nat
  BY TriangleExact
<1> DEFINE T == Triangle(m)
<1> HIDE DEF T
<1>4. m * 1 = m /\ (T \in Nat => 1 * T = T)
  OBVIOUS
<1> QED BY <1>1, <1>2, <1>3, <1>4 DEF T

(* The position that runs from one order of a degree to the next is the one  *)
(* of the macro: a recursion and its closed form agree at 0, and from each   *)
(* order to the next, so nowhere first do they differ.                       *)
LEMMA RunningPosition ==
  ASSUME call.kind = "real", r.lmax \in Nat, NEW l \in Nat, mlim(l) \in Nat,
         NEW m \in 0 .. mlim(l)
  PROVE  Position(l, m) = LM(r.lmax, 1, l, m)
<1> DEFINE M == mlim(l)
           L == r.lmax
           body(g) == [k \in 0 .. M |-> IF k = 0 THEN l ELSE NextPosition(g[k - 1], k)]
           closed == [k \in 0 .. M |-> LM(L, 1, l, k)]
           lm == CHOOSE g : g = body(g)
           S == {k \in 0 .. M : lm[k] # LM(L, 1, l, k)}
<1>1. M \in Nat /\ L \in Nat
  OBVIOUS
<1> HIDE DEF L, M
<1>0. ASSUME NEW k \in Nat PROVE LM(L, 1, l, k) = k * (L + 1) - Triangle(k) + l
  <2>1. l \in Int
    OBVIOUS
  <2> QED BY <1>1, <2>1, LMSum
<1>2. LM(L, 1, l, 0) = l
  <2>1. LM(L, 1, l, 0) = 0 * (L + 1) - Triangle(0) + l
    BY <1>0
  <2>2. Triangle(0) = 0
    BY DEF Triangle
  <2> QED BY <1>1, <2>1, <2>2
<1>3. ASSUME NEW k \in 1 .. M
      PROVE  NextPosition(LM(L, 1, l, k - 1), k) = LM(L, 1, l, k)
  <2>1. k \in Nat /\ k - 1 \in Nat /\ (k - 1) + 1 = k
    BY <1>1
  <2> DEFINE T == Triangle(k - 1)
  <2>2. Triangle(k) = T + k /\ T \in Nat
    <3>1. Triangle((k - 1) + 1) = Triangle(k - 1) + (k - 1) + 1
      BY <2>1, TriangleStep
    <3>2. T \in Nat
      BY <2>1, TriangleExact
    <3> HIDE DEF T
    <3>3. Triangle(k) = T + (k - 1) + 1
      BY <2>1, <3>1 DEF T
    <3> QED BY <2>1, <3>2, <3>3
  <2>3. LM(L, 1, l, k - 1) = (k - 1) * (L + 1) - T + l
    BY <1>0, <2>1
  <2>4. LM(L, 1, l, k) = k * (L + 1) - (T + k) + l
    BY <1>0, <2>1, <2>2
  <2> HIDE DEF T
  <2>5. (k - 1) * (L + 1) = k * (L + 1) - (L + 1)
    BY <1>1, <2>1
  <2>6. k * (L + 1) \in Int
    BY <1>1, <2>1
  <2> DEFINE p == k * (L + 1)
  <2> HIDE DEF p
  <2>7. p - (L + 1) - T + l + (L + 1) - k = p - (T + k) + l
    BY <1>1, <2>1, <2>2, <2>6 DEF p
  <2>8. NextPosition(LM(L, 1, l, k - 1), k) = p - (L + 1) - T + l + (L + 1) - k
    BY <2>3, <2>5 DEF p, NextPosition, L
  <2> QED BY <2>4, <2>7, <2>8 DEF p
<1>4. Position(l, m) = lm[m]
  BY DEF Position, L, M
<1>5. closed = body(closed)
  BY <1>1, <1>2, <1>3
<1>6. lm = body(lm)
  BY <1>5
<1> HIDE DEF lm
<1>7. \A k \in 0 .. M : lm[k] = IF k = 0 THEN l ELSE NextPosition(lm[k - 1], k)
  BY <1>6
<1>8. S = {}
  <2> SUFFICES ASSUME S # {} PROVE FALSE
    OBVIOUS
  <2>1. PICK x \in S : \A y \in S : x <= y
    <3>1. S \in SUBSET Nat
      BY <1>1
    <3> QED BY <3>1, LeastNatural
  <2>2. x # 0
    BY <1>1, <1>2, <1>7
  <2>3. x \in 1 .. M /\ x - 1 \in 0 .. M /\ x - 1 \notin S
    BY <1>1, <2>1, <2>2
  <2>4. lm[x] = NextPosition(LM(L, 1, l, x - 1), x)
    BY <1>7, <2>2, <2>3
  <2> QED BY <1>3, <2>3, <2>4
<1> QED BY <1>4, <1>8 DEF L, M

(* The arrays of sound calls.                                                *)
Fits(kind) ==
  /\ r.lmax \in Nat /\ r.mmax \in Nat /\ r.mmax <= r.lmax
  /\ kind = "real" \/ (kind = "cplx" /\ r.mmax = r.lmax)

(* Degrees and orders, in numbers. *)
LEMMA DegreeOrders ==
  ASSUME NEW kind, Fits(kind), NEW d \in DegreeOrder(kind)
  PROVE  /\ d = <<d[1], d[2]>> /\ d[1] \in 0 .. r.lmax /\ d[1] \in Nat /\ d[2] \in Int
         /\ d[2] <= d[1] /\ -d[1] <= d[2] /\ d[2] <= r.mmax /\ -r.mmax <= d[2]
         /\ kind = "real" => d[2] \in Nat
<1> QED BY DEF Fits, DegreeOrder

(* The orders a thread goes through are those of the degree. *)
LEMMA OrdersAre ==
  ASSUME Fits(call.kind), NEW l \in 0 .. r.lmax
  PROVE  /\ mlim(l) \in Nat /\ mlim(l) <= l /\ mlim(l) <= r.mmax
         /\ \A m : m \in Orders(l) <=> <<l, m>> \in DegreeOrder(call.kind)
<1>1. mlim(l) \in Nat /\ mlim(l) <= l /\ mlim(l) <= r.mmax /\ (mlim(l) = l \/ mlim(l) = r.mmax)
      /\ r.lmax \in Nat /\ r.mmax \in Nat
  BY DEF Fits, mlim
<1>2. CASE call.kind = "real"
  <2>1. Orders(l) = 0 .. mlim(l)
    BY <1>2 DEF Orders
  <2>2. ASSUME NEW m PROVE m \in Orders(l) <=> <<l, m>> \in DegreeOrder(call.kind)
    BY <1>1, <1>2, <2>1 DEF DegreeOrder
  <2> QED BY <1>1, <2>2
<1>3. CASE call.kind # "real"
  <2>1. Orders(l) = -mlim(l) .. mlim(l)
    BY <1>3 DEF Orders
  <2>2. ASSUME NEW m PROVE m \in Orders(l) <=> <<l, m>> \in DegreeOrder(call.kind)
    BY <1>1, <1>3, <2>1 DEF DegreeOrder
  <2> QED BY <1>1, <2>2
<1> QED BY <1>2, <1>3

(* A rotation finds coefficients where the macros of the caller put them. *)
LEMMA PositionIsMacro ==
  ASSUME Fits(call.kind), NEW l \in 0 .. r.lmax, NEW m \in Orders(l)
  PROVE  /\ Position(l, m) = Macro(call.kind, l, m)
         /\ ReadAt(l, m) = Macro(call.kind, l, m)
<1>1. CASE call.kind = "real"
  <2>1. mlim(l) \in Nat /\ m \in 0 .. mlim(l) /\ r.lmax \in Nat /\ l \in Nat
    BY <1>1, OrdersAre DEF Orders, Fits
  <2>2. Position(l, m) = LM(r.lmax, 1, l, m)
    BY <1>1, <2>1, RunningPosition
  <2> QED BY <1>1, <2>2 DEF Macro, ReadAt
<1>2. CASE call.kind = "cplx"
  <2>1. r.mmax = r.lmax /\ r.lmax \in Nat /\ l <= r.mmax
    BY <1>2 DEF Fits
  <2>2. Position(l, m) = l * (l + 1) + m
    BY <1>2, <2>1 DEF Position, Centre
  <2>3. Macro(call.kind, l, m) = l * (l + 1) + m
    BY <1>2, <2>1 DEF Macro, LM_cplx
  <2>4. m = 0 => l * (l + 1) + m = l * (l + 1)
    OBVIOUS
  <2> QED BY <2>2, <2>3, <2>4 DEF ReadAt
<1> QED BY <1>1, <1>2 DEF Fits

(* No two coefficients have one place. *)
LEMMA MacroInjective ==
  ASSUME NEW kind, Fits(kind), NEW d \in DegreeOrder(kind), NEW e \in DegreeOrder(kind),
         Macro(kind, d[1], d[2]) = Macro(kind, e[1], e[2])
  PROVE  d = e
<1>1. /\ d = <<d[1], d[2]>> /\ d[1] \in 0 .. r.lmax /\ d[1] \in Nat /\ d[2] \in Int
      /\ d[2] <= d[1] /\ -d[1] <= d[2] /\ d[2] <= r.mmax /\ -r.mmax <= d[2]
      /\ kind = "real" => d[2] \in Nat
  BY DegreeOrders
<1>2. /\ e = <<e[1], e[2]>> /\ e[1] \in 0 .. r.lmax /\ e[1] \in Nat /\ e[2] \in Int
      /\ e[2] <= e[1] /\ -e[1] <= e[2] /\ e[2] <= r.mmax /\ -r.mmax <= e[2]
      /\ kind = "real" => e[2] \in Nat
  BY DegreeOrders
<1>3. CASE kind = "real"
  <2>1. ASSUME NEW l \in Int, NEW m \in Nat
        PROVE  LM(r.lmax, 1, l, m) = LM(r.lmax, 1, 0, m) + l /\ LM(r.lmax, 1, 0, m) \in Int
    <3> DEFINE L == r.lmax
    <3>1. L \in Nat
      BY DEF Fits
    <3> HIDE DEF L
    <3>2. /\ LM(L, 1, l, m) = m * (L + 1) - Triangle(m) + l
          /\ LM(L, 1, 0, m) = m * (L + 1) - Triangle(m) + 0
          /\ Triangle(m) \in Nat
      BY <3>1, LMSum, 0 \in Int
    <3>3. m * (L + 1) \in Int
      BY <3>1
    <3> QED BY <3>2, <3>3 DEF L
  <2>2. ASSUME NEW a \in Nat, NEW b \in Nat, a < b, NEW i \in Nat, NEW j \in Nat,
               i <= r.lmax, b <= j, j <= r.lmax,
               LM(r.lmax, 1, 0, a) + i = LM(r.lmax, 1, 0, b) + j
        PROVE  FALSE
    <3> DEFINE L == r.lmax
               p == LM(L, 1, 0, a)
               q == LM(L, 1, 0, b)
    <3>1. L \in Nat /\ b <= L /\ L \in Int
      BY <2>2 DEF Fits
    <3>2. LM(L, 1, L, a) < LM(L, 1, b, b)
      BY <2>2, <3>1, OrdersApart
    <3>3. LM(L, 1, L, a) = p + L /\ p \in Int
      <4> HIDE DEF L
      <4>1. \A l \in Int, m \in Nat : LM(L, 1, l, m) = LM(L, 1, 0, m) + l /\ LM(L, 1, 0, m) \in Int
        BY <2>1 DEF L
      <4> QED BY <3>1, <4>1
    <3>5. LM(L, 1, b, b) = q + b /\ q \in Int
      BY <2>1, <3>1
    <3>4. i <= L /\ p + i = q + j
      BY <2>2
    <3> HIDE DEF L, p, q
    <3> QED BY <2>2, <3>1, <3>2, <3>3, <3>4, <3>5
  <2>3. LM(r.lmax, 1, 0, d[2]) + d[1] = LM(r.lmax, 1, 0, e[2]) + e[1]
    BY <1>1, <1>2, <1>3, <2>1 DEF Macro
  <2>4. ~ (d[2] < e[2])
    BY <1>1, <1>2, <1>3, <2>2, <2>3
  <2>5. ~ (e[2] < d[2])
    BY <1>1, <1>2, <1>3, <2>2, <2>3
  <2>6. d[2] = e[2]
    BY <1>1, <1>2, <2>4, <2>5
  <2>7. d[1] = e[1]
    <3> DEFINE p == LM(r.lmax, 1, 0, d[2])
    <3>1. p \in Int /\ p + d[1] = p + e[1]
      BY <1>1, <1>3, <2>1, <2>3, <2>6
    <3> HIDE DEF p
    <3> QED BY <1>1, <1>2, <3>1
  <2> QED BY <1>1, <1>2, <2>6, <2>7
<1>4. CASE kind = "cplx"
  <2>1. LM_cplx(r.mmax, d[1], d[2]) = LM_cplx(r.mmax, e[1], e[2])
    BY <1>4 DEF Macro
  <2>2. d[1] = e[1] /\ d[2] = e[2]
    BY <1>1, <1>2, <2>1, CplxInjective DEF Fits
  <2> QED BY <1>1, <1>2, <2>2
<1> QED BY <1>3, <1>4 DEF Fits

(* Every coefficient is in the array. *)
LEMMA MacroReach ==
  ASSUME NEW kind, Fits(kind), NEW d \in DegreeOrder(kind)
  PROVE  Macro(kind, d[1], d[2]) \in Reach(kind)
<1> DEFINE L == r.lmax
           l == d[1]
           m == d[2]
<1>1. L \in Nat /\ r.mmax \in Nat
  BY DEF Fits
<1>2. /\ l \in 0 .. L /\ l \in Nat /\ m \in Int /\ m <= l /\ -l <= m
      /\ kind = "real" => m \in Nat
  BY DegreeOrders
<1>3. CASE kind = "real"
  <2>1. m \in Nat /\ Macro(kind, l, m) = LM(L, 1, l, m)
    BY <1>2, <1>3 DEF Macro
  <2>2. Reach(kind) = 0 .. nlm_calc(L + 1, L + 1, 1) - 1
    BY <1>3 DEF Reach
  <2> HIDE DEF L, l, m
  <2> DEFINE t == Triangle(m)
             T == Triangle(L)
  <2>3. t \in Nat /\ T \in Nat /\ m * (m + 1) = 2 * t /\ Triangle(L + 1) = T + L + 1
    BY <1>1, <2>1, TriangleExact, TriangleStep
  <2>4. LM(L, 1, l, m) = m * (L + 1) - t + l
    <3>1. l \in Int
      BY <1>2
    <3> QED BY <1>1, <2>1, <3>1, LMSum
  <2>5. LiM(L, 1, L + 1, m) = m * (L + 1) - 1 * t + (L + 1)
        /\ LiM(L, 1, L + 1, L) = L * (L + 1) - 1 * T + (L + 1)
    BY <1>1, <2>1, LiMAtEnd
  <2>6. LiM(L, 1, L + 1, m) <= LiM(L, 1, L + 1, L)
    <3>1. m <= L /\ L * 1 <= L /\ 1 \in Nat
      BY <1>1, <1>2
    <3> QED BY <1>1, <2>1, <3>1, OrdersGrow
  <2>7. nlm_calc(L + 1, L + 1, 1) = (L + 1) * (L + 2) - 1 * (T + L + 1) + (L + 2)
    <3>1. L + 1 \in Nat /\ (L + 1) * 1 <= L + 1 /\ 1 \in Nat /\ (L + 1) + 1 = L + 2
      BY <1>1
    <3>2. nlm_calc(L + 1, L + 1, 1) = LiM(L + 1, 1, (L + 1) + 1, L + 1)
      BY <3>1, NlmIsEnd
    <3>3. LiM(L + 1, 1, (L + 1) + 1, L + 1)
            = (L + 1) * ((L + 1) + 1) - 1 * Triangle(L + 1) + ((L + 1) + 1)
      BY <3>1, LiMAtEnd
    <3> HIDE DEF T
    <3> QED BY <2>3, <3>1, <3>2, <3>3
  <2> HIDE DEF t, T
  <2>8. m * (L + 1) >= t
    <3>1. m * (L + 1) = m * (m + 1) + m * (L - m) /\ m * (L - m) >= 0
      <4>1. L - m \in Nat
        BY <1>1, <1>2, <2>1
      <4> QED BY <1>1, <2>1, <4>1
    <3> QED BY <2>1, <2>3, <3>1, <1>1
  <2>9. (L + 1) * (L + 2) = L * (L + 1) + 2 * L + 2 /\ L * (L + 1) \in Nat /\ m * (L + 1) \in Nat
    BY <1>1, <2>1
  <2> DEFINE p == m * (L + 1)
             q == L * (L + 1)
  <2> HIDE DEF p, q
  <2>10. p - t + (L + 1) <= q - T + (L + 1)
    BY <1>1, <2>3, <2>5, <2>6, <2>9 DEF p, q
  <2>11. p - t + l \in 0 .. (q + 2 * L + 2) - (T + L + 1) + (L + 2) - 1
    BY <1>1, <1>2, <2>3, <2>8, <2>9, <2>10 DEF p, q
  <2>12. nlm_calc(L + 1, L + 1, 1) = (q + 2 * L + 2) - (T + L + 1) + (L + 2)
    BY <1>1, <2>3, <2>7, <2>9 DEF q
  <2>13. LM(L, 1, l, m) \in 0 .. nlm_calc(L + 1, L + 1, 1) - 1
    <3>1. LM(L, 1, l, m) = p - t + l
      BY <2>4 DEF p
    <3> DEFINE n == nlm_calc(L + 1, L + 1, 1)
    <3> HIDE DEF n
    <3>2. n = (q + 2 * L + 2) - (T + L + 1) + (L + 2)
      BY <2>12 DEF n
    <3> DEFINE x == LM(L, 1, l, m)
               y == (q + 2 * L + 2) - (T + L + 1) + (L + 2)
               z == p - t + l
    <3>3. x = z /\ n = y
      BY <3>1, <3>2
    <3>5. z \in 0 .. y - 1
      <4>1. p \in Nat /\ q \in Nat
        BY <2>9 DEF p, q
      <4> QED BY <1>1, <1>2, <2>3, <2>11, <4>1
    <3> HIDE DEF x, y, z
    <3>4. x \in 0 .. n - 1
      BY <3>3, <3>5
    <3> QED BY <3>4 DEF x, n
  <2> QED BY <2>1, <2>2, <2>13 DEF L, l, m
<1>4. CASE kind = "cplx"
  <2>1. Macro(kind, l, m) = l * (l + 1) + m
    BY <1>2, <1>4 DEF Macro, LM_cplx, Fits
  <2>2. Reach(kind) = 0 .. nlm_cplx_calc(L, L, 1) - 1
    BY <1>4 DEF Reach
  <2> HIDE DEF L, l, m
  <2>3. nlm_cplx_calc(L, L, 1) = (2 * L + 1) * (L + 1) - L * (L + 1)
    BY <1>1 DEF nlm_cplx_calc
  <2>4. (2 * L + 1) * (L + 1) - L * (L + 1) = (L + 1) * (L + 1)
    BY <1>1
  <2>5. l * (l + 1) + m >= 0
    <3>1. l * (l + 1) >= l
      BY <1>2
    <3> QED BY <1>2, <3>1
  <2>6. l * (l + 1) + m < (L + 1) * (L + 1)
    <3>1. l * (l + 1) <= L * (L + 1)
      BY <1>1, <1>2
    <3>2. (L + 1) * (L + 1) = L * (L + 1) + L + 1 /\ L * (L + 1) \in Nat /\ l * (l + 1) \in Nat
      BY <1>1, <1>2
    <3> QED BY <1>1, <1>2, <3>1, <3>2
  <2>7. l * (l + 1) + m \in 0 .. nlm_cplx_calc(L, L, 1) - 1
    <3>1. l * (l + 1) + m \in Int /\ (L + 1) * (L + 1) \in Int
      BY <1>1, <1>2
    <3> QED BY <2>3, <2>4, <2>5, <2>6, <3>1
  <2> QED BY <2>1, <2>2, <2>7 DEF L, l, m
<1> QED BY <1>3, <1>4 DEF Fits

(* What an array holds at the place of a coefficient, and between.           *)
LEMMA StoredAt ==
  ASSUME NEW kind, Fits(kind), NEW value, NEW past, NEW d \in DegreeOrder(kind)
  PROVE  Stored(kind, value, past)[Macro(kind, d[1], d[2])] = value[d]
<1> DEFINE k == Macro(kind, d[1], d[2])
           at == {e \in DegreeOrder(kind) : Macro(kind, e[1], e[2]) = k}
<1>1. k \in Reach(kind)
  BY MacroReach
<1>2. at = {d}
  BY MacroInjective
<1>3. Stored(kind, value, past)[k] = IF at = {} THEN past ELSE UNION {value[e] : e \in at}
  BY <1>1 DEF Stored
<1> HIDE DEF at, k
<1>4. UNION {value[e] : e \in at} = value[d]
  BY <1>2
<1> QED BY <1>2, <1>3, <1>4 DEF k

LEMMA StoredPast ==
  ASSUME NEW kind, NEW value, NEW past, NEW k \in Reach(kind),
         \A d \in DegreeOrder(kind) : Macro(kind, d[1], d[2]) # k
  PROVE  Stored(kind, value, past)[k] = past
<1> DEFINE at == {e \in DegreeOrder(kind) : Macro(kind, e[1], e[2]) = k}
<1>1. at = {}
  OBVIOUS
<1>2. Stored(kind, value, past)[k] = IF at = {} THEN past ELSE UNION {value[e] : e \in at}
  BY DEF Stored
<1> HIDE DEF at
<1> QED BY <1>1, <1>2

(* Two arrays are one when they agree on every coefficient. *)
LEMMA StoredIs ==
  ASSUME NEW kind, Fits(kind), NEW value, NEW past, NEW a,
         a = [k \in Reach(kind) |-> a[k]],
         \A d \in DegreeOrder(kind) : a[Macro(kind, d[1], d[2])] = value[d],
         \A k \in Reach(kind) :
           (\A d \in DegreeOrder(kind) : Macro(kind, d[1], d[2]) # k) => a[k] = past
  PROVE  a = Stored(kind, value, past)
<1> DEFINE s == Stored(kind, value, past)
<1>1. s = [k \in Reach(kind) |-> s[k]]
  BY DEF Stored
<1>2. ASSUME NEW k \in Reach(kind) PROVE a[k] = s[k]
  <2>1. CASE \E d \in DegreeOrder(kind) : Macro(kind, d[1], d[2]) = k
    <3>1. PICK d \in DegreeOrder(kind) : Macro(kind, d[1], d[2]) = k
      BY <2>1
    <3>2. s[Macro(kind, d[1], d[2])] = value[d]
      BY StoredAt
    <3> QED BY <3>1, <3>2
  <2>2. CASE \A d \in DegreeOrder(kind) : Macro(kind, d[1], d[2]) # k
    BY <2>2, StoredPast
  <2> QED BY <2>1, <2>2
<1> HIDE DEF s
<1>3. [k \in Reach(kind) |-> a[k]] = [k \in Reach(kind) |-> s[k]]
  BY <1>2
<1> QED BY <1>1, <1>3 DEF s

-----------------------------------------------------------------------------
(* The invariant: angles and calls.                                          *)

(* While the rotation and its call stay, so do the places and the            *)
(* coefficients they are about.                                              *)
LEMMA Unmoved ==
  ASSUME r' = r, call' = call
  PROVE  /\ Sound' = Sound /\ Past' = Past
         /\ Reach(call.kind)' = Reach(call.kind)
         /\ DegreeOrder(call.kind)' = DegreeOrder(call.kind)
         /\ \A l, m : Macro(call.kind, l, m)' = Macro(call.kind, l, m)
         /\ \A l : Orders(l)' = Orders(l)
         /\ \A l, m : Wanted(l, m)' = Wanted(l, m)
         /\ \A l, m : PreTurned(l, m)' = PreTurned(l, m)
<1>1. Sound' = Sound /\ Past' = Past
  BY DEF Sound, Past
<1>2. Reach(call.kind)' = Reach(call.kind)
  BY DEF Reach
<1>3. DegreeOrder(call.kind)' = DegreeOrder(call.kind)
  BY DEF DegreeOrder
<1>4. ASSUME NEW l, NEW m PROVE Macro(call.kind, l, m)' = Macro(call.kind, l, m)
  BY DEF Macro
<1>5. ASSUME NEW l PROVE Orders(l)' = Orders(l)
  BY DEF Orders, mlim
<1>6. ASSUME NEW l, NEW m PROVE Wanted(l, m)' = Wanted(l, m)
  BY <1>5 DEF Wanted
<1>7. ASSUME NEW l, NEW m PROVE PreTurned(l, m)' = PreTurned(l, m)
  BY DEF PreTurned
<1> QED BY <1>1, <1>2, <1>3, <1>4, <1>5, <1>6, <1>7

(* Nothing is rotated at first. *)
LEMMA InitRot == Init => RotInv
<1> SUFFICES ASSUME Init PROVE RotInv
  OBVIOUS
<1>1. Kept
  BY DEF Init, Kept, NoRotation, Zero, NotComputed
<1>2. Calls
  BY DEF Init, Calls, Idle, AtRest
<1>3. HandedOut
  BY DEF Init, HandedOut, Busy, AtRest, Idle
<1>4. Working
  BY DEF Init, Idle, Working
<1> QED BY <1>1, <1>2, <1>3, <1>4 DEF RotInv

(* A call that leaves threads alone, and none of them at work. *)
LEMMA RestInv ==
  ASSUME RotInv, Kept', call' = Idle, UNCHANGED <<next, th>>, call.stage # "region"
  PROVE  RotInv'
<1>1. Calls /\ HandedOut
  BY DEF RotInv
<1>2. call'.stage = "idle" /\ call'.kind = "none" /\ call'.inplace = FALSE
  BY DEF Idle
<1>3. Calls'
  BY <1>1, <1>2 DEF Calls, Idle
<1>4. HandedOut'
  BY <1>1, <1>2 DEF HandedOut, Busy, Calls
<1>5. Working'
  BY <1>2 DEF Working
<1> QED BY <1>3, <1>4, <1>5 DEF RotInv

LEMMA CreateInvRot ==
  ASSUME RotInv, NEW size \in Size, NEW phase \in {-1, 1}, shtns_rotation_create(size, phase)
  PROVE  RotInv'
<1>1. Kept /\ Calls
  BY DEF RotInv
<1>2. ~r.live /\ UNCHANGED <<call, next, th>>
      /\ r' = [NoRotation EXCEPT !.live = TRUE, !.lmax = size.lmax, !.mmax = size.mmax,
                                 !.no_cs_phase = phase]
  BY DEF shtns_rotation_create
<1>3. size.lmax \in Nat /\ size.mmax \in Nat /\ size.mmax <= size.lmax
  BY RotationAssumption
<1>4. Kept'
  <2>1. r' = [live |-> TRUE, lmax |-> size.lmax, mmax |-> size.mmax, no_cs_phase |-> phase,
              alpha |-> 0, beta |-> 0, gamma |-> 0, eia |-> Zero, eig |-> Zero,
              flag_alpha_gamma |-> 0, plm_beta |-> NotComputed]
    BY <1>2 DEF NoRotation
  <2>2. NotComputed \in Int
    BY DEF NotComputed
  <2>3. r' \in [live : BOOLEAN, lmax : Nat, mmax : Nat, no_cs_phase : {-1, 1},
                alpha : Int, beta : Nat, gamma : Int, eia : {Zero} \cup 0 .. 3,
                eig : {Zero} \cup 0 .. 3, flag_alpha_gamma : 0 .. 3, plm_beta : Int]
    BY <1>3, <2>1, <2>2
  <2>4. /\ r'.mmax <= r'.lmax /\ r'.alpha = 0 /\ r'.beta = 0 /\ r'.gamma = 0
        /\ r'.flag_alpha_gamma = 0 /\ r'.eia = Zero
    BY <1>3, <2>1
  <2> QED BY <2>3, <2>4 DEF Kept
<1>5. call.stage = "idle"
  BY <1>1, <1>2 DEF Calls
<1>6. HandedOut' /\ Calls'
  BY <1>1, <1>2, <1>5 DEF RotInv, Calls, HandedOut, Busy
<1>7. Working'
  BY <1>2, <1>5 DEF Working
<1> QED BY <1>4, <1>6, <1>7 DEF RotInv

LEMMA DestroyInvRot ==
  ASSUME RotInv, shtns_rotation_destroy
  PROVE  RotInv'
<1>1. Kept'
  BY DEF shtns_rotation_destroy, Kept, NoRotation, Zero, NotComputed
<1> QED BY <1>1, RestInv DEF shtns_rotation_destroy

(* Whatever angles are given, those that are kept and their phases agree. *)
LEMMA SetAnglesInv ==
  ASSUME RotInv, NEW alpha \in Int, NEW beta \in Int, NEW gamma \in Int,
         SetAngles(alpha, beta, gamma)
  PROVE  RotInv'
<1> DEFINE n == Normal(alpha, beta * r.no_cs_phase, gamma)
<1>1. Kept
  BY DEF RotInv
<1>2. /\ call.stage # "region" /\ call' = Idle /\ UNCHANGED <<next, th>>
      /\ r' = [r EXCEPT !.alpha = n.alpha, !.beta = n.beta, !.gamma = n.gamma,
                        !.eia = (-n.alpha) % 4, !.eig = (-n.gamma) % 4,
                        !.flag_alpha_gamma = (IF n.alpha # 0 THEN 1 ELSE 0)
                                               + (IF n.gamma # 0 THEN 2 ELSE 0),
                        !.plm_beta = IF n.beta # 0 THEN n.beta ELSE @]
  BY DEF SetAngles
<1>3. r.no_cs_phase \in {-1, 1} /\ beta * r.no_cs_phase \in Int
  BY <1>1 DEF Kept
<1>4. n.alpha \in Int /\ n.beta \in Nat /\ n.gamma \in Int
  <2> DEFINE b == beta * r.no_cs_phase
  <2> HIDE DEF b
  <2>1. b \in Int
    BY <1>3 DEF b
  <2>2. /\ Normal(alpha, b, gamma).alpha \in Int /\ Normal(alpha, b, gamma).beta \in Nat
        /\ Normal(alpha, b, gamma).gamma \in Int
    BY <2>1 DEF Normal, HalfTurned
  <2> QED BY <2>2 DEF b
<1> HIDE DEF n
<1>5. (-n.alpha) % 4 \in 0 .. 3 /\ (-n.gamma) % 4 \in 0 .. 3
  BY <1>4
<1>6. Kept'
  <2> DEFINE ea == (-n.alpha) % 4  eg == (-n.gamma) % 4
             flag == (IF n.alpha # 0 THEN 1 ELSE 0) + (IF n.gamma # 0 THEN 2 ELSE 0)
             pb == IF n.beta # 0 THEN n.beta ELSE r.plm_beta
  <2>1. ea \in 0 .. 3 /\ eg \in 0 .. 3 /\ flag \in 0 .. 3 /\ pb \in Int
    BY <1>1, <1>4, <1>5 DEF Kept
  <2>2. r' = [r EXCEPT !.alpha = n.alpha, !.beta = n.beta, !.gamma = n.gamma,
                       !.eia = ea, !.eig = eg, !.flag_alpha_gamma = flag, !.plm_beta = pb]
    BY <1>2
  <2> HIDE DEF ea, eg, flag, pb
  <2>3. /\ r'.alpha = n.alpha /\ r'.beta = n.beta /\ r'.gamma = n.gamma /\ r'.eia = ea
        /\ r'.eig = eg /\ r'.flag_alpha_gamma = flag /\ r'.plm_beta = pb
        /\ r'.lmax = r.lmax /\ r'.mmax = r.mmax
        /\ r' \in [live : BOOLEAN, lmax : Nat, mmax : Nat, no_cs_phase : {-1, 1},
                   alpha : Int, beta : Nat, gamma : Int, eia : {Zero} \cup 0 .. 3,
                   eig : {Zero} \cup 0 .. 3, flag_alpha_gamma : 0 .. 3, plm_beta : Int]
    BY <1>1, <1>4, <2>1, <2>2 DEF Kept
  <2>4. ea # Zero
    BY <2>1 DEF Zero
  <2>5. (r.mmax <= r.lmax)'
    BY <1>1, <2>3 DEF Kept
  <2>6. r'.flag_alpha_gamma = (IF r'.alpha # 0 THEN 1 ELSE 0) + (IF r'.gamma # 0 THEN 2 ELSE 0)
    BY <2>3 DEF flag
  <2>7. r'.beta # 0 => r'.plm_beta = r'.beta /\ r'.eia # Zero
    BY <2>3, <2>4 DEF pb
  <2>8. r'.eia = (-r'.alpha) % 4 /\ r'.eig = (-r'.gamma) % 4
    BY <2>3 DEF ea, eg
  <2> QED BY <2>3, <2>5, <2>6, <2>7, <2>8 DEF Kept
<1> QED BY <1>2, <1>6, RestInv

-----------------------------------------------------------------------------
(* The invariant: threads.                                                   *)

(* What a thread does next, and no other.                                    *)
LEMMA ThreadStep ==
  ASSUME HandedOut, NEW t \in Thread, NEW s, th' = [th EXCEPT ![t] = s]
  PROVE  /\ th' = [u \in Thread |-> th'[u]]
         /\ th'[t] = s
         /\ \A u \in Thread \ {t} : th'[u] = th[u] /\ Busy(u)' = Busy(u)
<1>1. th = [u \in Thread |-> th[u]]
  BY DEF HandedOut
<1>2. th'[t] = s /\ \A u \in Thread \ {t} : th'[u] = th[u]
  BY <1>1
<1>3. th' = [u \in Thread |-> IF u = t THEN s ELSE th[u]]
  BY <1>1
<1>4. th' = [u \in Thread |-> th'[u]]
  BY <1>3
<1> QED BY <1>2, <1>4 DEF Busy

(* The arrays of sound calls are whole. *)
LEMMA SoundFits ==
  ASSUME Kept, Calls, call.stage # "idle", Sound
  PROVE  Fits(call.kind)
<1>1. r.lmax \in Nat /\ r.mmax \in Nat /\ r.mmax <= r.lmax
  BY DEF Kept
<1>2. call.kind \in {"real", "cplx"}
  BY DEF Calls
<1> QED BY <1>1, <1>2 DEF Fits, Sound

(* A step that writes no coefficient and gathers none. *)
LEMMA WorkingKept ==
  ASSUME Kept, Calls, Working, call.stage # "idle", UNCHANGED <<r, call, Qlm, Rlm>>,
         \A l \in Nat : \A m : Expected(l, m)' = Expected(l, m),
         \A u \in Thread : th'[u].at = "scatter" => th[u].at = "scatter" /\ th'[u] = th[u]
  PROVE  Working'
<1> SUFFICES ASSUME Sound' PROVE Working'
  BY DEF Working
<1>1. Sound
  BY Unmoved
<1>2. Fits(call.kind)
  BY <1>1, SoundFits
<1>3. /\ Reach(call.kind)' = Reach(call.kind) /\ Past' = Past
      /\ DegreeOrder(call.kind)' = DegreeOrder(call.kind)
      /\ \A l, m : Macro(call.kind, l, m)' = Macro(call.kind, l, m)
      /\ \A l : Orders(l)' = Orders(l)
      /\ \A l, m : PreTurned(l, m)' = PreTurned(l, m)
  BY Unmoved
<1>4. \A d \in DegreeOrder(call.kind) : Expected(d[1], d[2])' = Expected(d[1], d[2])
  BY <1>2, DegreeOrders
<1> QED BY <1>1, <1>3, <1>4 DEF Working

(* A thread takes the next degree, or finds none left. *)
LEMMA TakeInv ==
  ASSUME RotInv, NEW t \in Thread, Take(t)
  PROVE  RotInv'
<1>1. Kept /\ Calls /\ HandedOut /\ Working
  BY DEF RotInv
<1>2. UNCHANGED <<r, call, Qlm, Rlm>> /\ call.stage = "region" /\ th[t].at = "loop"
  BY DEF Take
<1>3. Kept'
  BY <1>1, <1>2 DEF Kept
<1>4. next \in 0 .. r.lmax /\ r.lmax \in Nat
  BY <1>1, <1>2 DEF Calls, Kept
<1>5. CASE next > 0
  <2> DEFINE s == [at |-> "gather", l |-> next, ql |-> <<>>]
  <2>1. th' = [th EXCEPT ![t] = s] /\ next' = next - 1
    BY <1>5 DEF Take, AtRest
  <2>2. s.at = "gather" /\ s.l = next
    OBVIOUS
  <2> HIDE DEF s
  <2>3. /\ th' = [u \in Thread |-> th'[u]]
        /\ th'[t].at = "gather" /\ th'[t].l = next
        /\ \A u \in Thread \ {t} : th'[u] = th[u] /\ Busy(u)' = Busy(u)
    BY <1>1, <2>1, <2>2, ThreadStep
  <2>4. ~Busy(t) /\ Busy(t)'
    BY <1>2, <2>3 DEF Busy
  <2>5. \A u \in Thread : Busy(u) => th[u].l \in next + 1 .. r.lmax
    BY <1>1 DEF HandedOut
  <2>6. Calls'
    BY <1>1, <1>2, <1>4, <1>5, <2>1 DEF Calls
  <2>7. HandedOut'
    <3>1. ASSUME NEW u \in Thread
          PROVE  /\ th'[u].at \in {"rest", "loop", "gather", "scatter"}
                 /\ Busy(u)' => th'[u].l \in next' + 1 .. r'.lmax
                 /\ th'[u].at = "rest" /\ call'.stage = "region" => next' = 0
      <4>1. CASE u = t
        BY <1>2, <1>4, <1>5, <2>1, <2>3, <4>1
      <4>2. CASE u # t
        BY <1>1, <1>2, <1>4, <1>5, <2>1, <2>3, <2>5, <4>2 DEF HandedOut
      <4> QED BY <4>1, <4>2
    <3>2. ASSUME NEW u \in Thread, NEW v \in Thread, Busy(u)', Busy(v)', u # v
          PROVE  th'[u].l # th'[v].l
      <4>1. CASE u = t
        BY <1>4, <2>3, <2>5, <3>2, <4>1
      <4>2. CASE v = t
        BY <1>4, <2>3, <2>5, <3>2, <4>2
      <4>3. CASE u # t /\ v # t
        BY <1>1, <2>3, <3>2, <4>3 DEF HandedOut
      <4> QED BY <4>1, <4>2, <4>3
    <3> QED BY <2>3, <3>1, <3>2 DEF HandedOut
  <2>8. ASSUME NEW l \in Nat, NEW m PROVE Expected(l, m)' = Expected(l, m)
    <3>1. (\A u \in Thread : Busy(u)' => th'[u].l # l)
            <=> (l # next /\ \A u \in Thread : Busy(u) => th[u].l # l)
      BY <2>3, <2>4
    <3>2. (l > next' /\ \A u \in Thread : Busy(u)' => th'[u].l # l)
            <=> (l > next /\ \A u \in Thread : Busy(u) => th[u].l # l)
      BY <1>4, <2>1, <3>1
    <3>3. Wanted(l, m)' = Wanted(l, m)
      BY <1>2, Unmoved
    <3> QED BY <1>2, <3>2, <3>3 DEF Expected
  <2>9. Working'
    <3>1. \A u \in Thread : th'[u].at = "scatter" => th[u].at = "scatter" /\ th'[u] = th[u]
      BY <2>3
    <3>2. \A l \in Nat : \A m : Expected(l, m)' = Expected(l, m)
      BY <2>8
    <3> QED BY <1>1, <1>2, <3>1, <3>2, WorkingKept
  <2> QED BY <1>3, <2>6, <2>7, <2>9 DEF RotInv
<1>6. CASE ~ (next > 0)
  <2>1. th' = [th EXCEPT ![t] = AtRest] /\ next' = next /\ next = 0
    BY <1>4, <1>6 DEF Take
  <2>2. /\ th' = [u \in Thread |-> th'[u]]
        /\ th'[t].at = "rest"
        /\ \A u \in Thread \ {t} : th'[u] = th[u] /\ Busy(u)' = Busy(u)
    BY <1>1, <2>1, ThreadStep DEF AtRest
  <2>3. ~Busy(t) /\ ~Busy(t)'
    BY <1>2, <2>2 DEF Busy
  <2>4. Calls'
    BY <1>1, <1>2, <2>1 DEF Calls
  <2>5. HandedOut'
    BY <1>1, <1>2, <2>1, <2>2, <2>3 DEF HandedOut
  <2>6. ASSUME NEW l \in Nat, NEW m PROVE Expected(l, m)' = Expected(l, m)
    <3>1. (\A u \in Thread : Busy(u)' => th'[u].l # l)
            <=> (\A u \in Thread : Busy(u) => th[u].l # l)
      BY <2>2, <2>3
    <3>2. Wanted(l, m)' = Wanted(l, m)
      BY <1>2, Unmoved
    <3> QED BY <1>2, <2>1, <3>1, <3>2 DEF Expected
  <2>7. Working'
    <3>1. \A u \in Thread : th'[u].at = "scatter" => th[u].at = "scatter" /\ th'[u] = th[u]
      BY <2>2
    <3>2. \A l \in Nat : \A m : Expected(l, m)' = Expected(l, m)
      BY <2>6
    <3> QED BY <1>1, <1>2, <3>1, <3>2, WorkingKept
  <2> QED BY <1>3, <2>4, <2>5, <2>7 DEF RotInv
<1> QED BY <1>5, <1>6

(* Turning by an angle taken modulo a whole turn is turning by the angle.    *)
LEMMA WholeTurns ==
  ASSUME NEW a \in Int, NEW m \in Int
  PROVE  ((-a) % 4) * m \in Int /\ (((-a) % 4) * m) % 4 = (-a * m) % 4
<1> DEFINE q == (-a) \div 4
           w == (-a) % 4
<1>1. q \in Int /\ w \in Int /\ -a = 4 * q + w
  OBVIOUS
<1> HIDE DEF q, w
<1>2. -a * m = 4 * (q * m) + w * m
  <2>1. (-a) * m = (4 * q + w) * m
    BY <1>1
  <2>2. (4 * q + w) * m = 4 * (q * m) + w * m
    BY <1>1
  <2>3. -a * m = (-a) * m
    OBVIOUS
  <2> QED BY <2>1, <2>2, <2>3
<1>3. \A x, y \in Int : (4 * x + y) % 4 = y % 4
  OBVIOUS
<1>4. q * m \in Int /\ w * m \in Int
  BY <1>1
<1>5. (4 * (q * m) + w * m) % 4 = (w * m) % 4
  BY <1>3, <1>4
<1> QED BY <1>2, <1>4, <1>5 DEF w

(* What a thread gathers of its degree is what the caller gave, turned.      *)
LEMMA Gathered ==
  ASSUME RotInv, Sound, NEW t \in Thread, th[t].at = "gather", NEW m \in Orders(th[t].l)
  PROVE  (IF Overlaps(th[t].l) THEN Junk
          ELSE IF PreRotates THEN Times(Source[ReadAt(th[t].l, m)], r.eia, m)
          ELSE Source[ReadAt(th[t].l, m)]) = PreTurned(th[t].l, m)
<1>1. Kept /\ Calls /\ HandedOut /\ Working
  BY DEF RotInv
<1>2. call.stage = "region" /\ r.beta # 0 /\ Busy(t)
  BY <1>1 DEF Calls, Busy
<1>3. Fits(call.kind)
  BY <1>1, <1>2, SoundFits
<1>4. PICK l : l = th[t].l
  OBVIOUS
<1>5. next \in Nat /\ l \in next + 1 .. r.lmax /\ r.lmax \in Nat
  BY <1>1, <1>2, <1>4 DEF Calls, HandedOut, Kept
<1>6. l \in 0 .. r.lmax /\ l # 0
  BY <1>5
<1>7. m \in Orders(l)
  BY <1>4
<1>8. <<l, m>> \in DegreeOrder(call.kind) /\ m \in Int
  <2>1. <<l, m>> \in DegreeOrder(call.kind)
    BY <1>3, <1>6, <1>7, OrdersAre
  <2> QED BY <2>1 DEF DegreeOrder
<1>9. ReadAt(l, m) = Macro(call.kind, l, m)
  BY <1>3, <1>6, <1>7, PositionIsMacro
<1>10. Expected(l, m) = IF call.inplace THEN Coef(l, m) ELSE Theirs
  BY <1>2, <1>4, <1>6 DEF Expected
<1>11. Source[ReadAt(l, m)] = Coef(l, m)
  <2> DEFINE d == <<l, m>>
  <2>1. d \in DegreeOrder(call.kind) /\ d[1] = l /\ d[2] = m
    BY <1>8
  <2> HIDE DEF d
  <2>2. /\ Qlm[Macro(call.kind, d[1], d[2])] = Coef(d[1], d[2])
        /\ Rlm[Macro(call.kind, d[1], d[2])] = Expected(d[1], d[2])
    BY <1>1, <1>2, <2>1 DEF Working
  <2> QED BY <1>9, <1>10, <2>1, <2>2 DEF Source
<1>12. ~ Overlaps(l)
  BY <1>3, <1>6 DEF Overlaps, Fits
<1>13. CASE PreRotates
  <2>1. r.eia # Zero /\ r.eia = (-r.alpha) % 4 /\ r.alpha \in Int
    BY <1>1, <1>2 DEF Kept
  <2>2. Times(Coef(l, m), r.eia, m) = {<<l, m, (0 + r.eia * m) % 4, 0, 0>>}
    BY <2>1 DEF Times, Coef
  <2>3. r.eia * m \in Int /\ (r.eia * m) % 4 = (-r.alpha * m) % 4
    BY <1>8, <2>1, WholeTurns
  <2>4. 0 + r.eia * m = r.eia * m
    BY <2>3
  <2> QED BY <1>4, <1>11, <1>12, <1>13, <2>2, <2>3, <2>4 DEF PreTurned
<1>14. CASE ~ PreRotates
  <2>1. r.alpha = 0
    BY <1>1, <1>14 DEF Kept, PreRotates
  <2>2. (-r.alpha * m) % 4 = 0
    BY <1>8, <2>1
  <2> QED BY <1>4, <1>11, <1>12, <1>14, <2>2 DEF PreTurned, Coef
<1> QED BY <1>13, <1>14

LEMMA GatherInv ==
  ASSUME RotInv, NEW t \in Thread, Gather(t)
  PROVE  RotInv'
<1>1. Kept /\ Calls /\ HandedOut /\ Working
  BY DEF RotInv
<1>2. UNCHANGED <<r, call, Qlm, Rlm, next>> /\ th[t].at = "gather"
  BY DEF Gather
<1>3. call.stage = "region"
  BY <1>1, <1>2 DEF Calls
<1>4. PICK l : l = th[t].l
  OBVIOUS
<1> DEFINE ql == [m \in Orders(l) |->
                    IF Overlaps(l) THEN Junk
                    ELSE IF PreRotates THEN Times(Source[ReadAt(l, m)], r.eia, m)
                    ELSE Source[ReadAt(l, m)]]
           s == [at |-> "scatter", l |-> l, ql |-> ql]
<1>5. th' = [th EXCEPT ![t] = s]
  BY <1>4 DEF Gather
<1>6. s.at = "scatter" /\ s.l = l /\ s.ql = ql
  OBVIOUS
<1>7. Sound => ql = [m \in Orders(l) |-> PreTurned(l, m)]
  BY <1>2, <1>4, Gathered
<1> HIDE DEF ql, s
<1>8. /\ th' = [u \in Thread |-> th'[u]]
      /\ th'[t].at = "scatter" /\ th'[t].l = th[t].l /\ th'[t].ql = ql
      /\ \A u \in Thread \ {t} : th'[u] = th[u] /\ Busy(u)' = Busy(u)
  BY <1>1, <1>4, <1>5, <1>6, ThreadStep
<1>9. \A u \in Thread : Busy(u)' = Busy(u) /\ th'[u].l = th[u].l
  BY <1>2, <1>8 DEF Busy
<1>10. Kept' /\ Calls'
  BY <1>1, <1>2, <1>3 DEF Kept, Calls
<1>11. HandedOut'
  BY <1>1, <1>2, <1>8, <1>9 DEF HandedOut
<1>12. ASSUME NEW k, NEW m PROVE Expected(k, m)' = Expected(k, m)
  <2>1. Wanted(k, m)' = Wanted(k, m)
    BY <1>2, Unmoved
  <2> QED BY <1>2, <1>9, <2>1 DEF Expected
<1>13. Working'
  <2> SUFFICES ASSUME Sound' PROVE Working'
    BY DEF Working
  <2>1. /\ Sound /\ Reach(call.kind)' = Reach(call.kind) /\ Past' = Past
        /\ DegreeOrder(call.kind)' = DegreeOrder(call.kind)
        /\ \A k, m : Macro(call.kind, k, m)' = Macro(call.kind, k, m)
        /\ \A k : Orders(k)' = Orders(k)
        /\ \A k, m : PreTurned(k, m)' = PreTurned(k, m)
    BY <1>2, Unmoved
  <2>2. ASSUME NEW u \in Thread, NEW k \in 0 .. r.lmax, th'[u].at = "scatter", th'[u].l = k
        PROVE  th'[u].ql = [m \in Orders(k) |-> PreTurned(k, m)]
    <3>1. CASE u = t
      <4>1. k = l
        BY <1>4, <1>8, <2>2, <3>1
      <4> QED BY <1>7, <1>8, <2>1, <3>1, <4>1
    <3>2. CASE u # t
      BY <1>1, <1>3, <1>8, <2>1, <2>2, <3>2 DEF Working
    <3> QED BY <3>1, <3>2
  <2>3. ASSUME NEW u \in Thread, NEW k \in 0 .. r.lmax, th'[u].at = "scatter", th'[u].l = k
        PROVE  th'[u].ql = [m \in Orders(k)' |-> PreTurned(k, m)']
    BY <2>1, <2>2, <2>3
  <2>4. /\ Qlm' = Qlm /\ Rlm' = Rlm /\ call' = call /\ r' = r
        /\ \A k, m : Expected(k, m)' = Expected(k, m)
    BY <1>2, <1>12
  <2> QED BY <1>1, <1>3, <2>1, <2>3, <2>4 DEF Working
<1> QED BY <1>10, <1>11, <1>13 DEF RotInv

(* What a thread makes of what it gathered is what was wanted.               *)
LEMMA TiltedIsWanted ==
  ASSUME Kept, r.beta # 0, NEW l \in Nat, l # 0, NEW m \in Int,
         NEW ql, ql = [mp \in Orders(l) |-> PreTurned(l, mp)]
  PROVE  Tilted(ql, m) = Wanted(l, m)
<1> DEFINE g == IF PostRotates THEN (r.eig * m) % 4 ELSE 0
           h == (-r.gamma * m) % 4
           all == UNION {ql[mp] : mp \in DOMAIN ql}
           wanted == {<<l, mp, (-r.alpha * mp) % 4, r.beta, h>> : mp \in Orders(l)}
<1>1. r.plm_beta = r.beta /\ r.eig = (-r.gamma) % 4 /\ r.gamma \in Int
  BY DEF Kept
<1>2. g = h
  <2>1. CASE PostRotates
    BY <1>1, <2>1, WholeTurns
  <2>2. CASE ~ PostRotates
    <3>1. r.gamma = 0
      BY <2>2 DEF Kept, PostRotates
    <3>2. (-r.gamma * m) % 4 = 0
      BY <3>1
    <3> QED BY <2>2, <3>2
  <2> QED BY <2>1, <2>2
<1>3. Tilted(ql, m) = {<<c[1], c[2], c[3], r.beta, g>> : c \in all}
  BY <1>1 DEF Tilted
<1>4. Wanted(l, m) = wanted
  BY DEF Wanted
<1> HIDE DEF g, h
<1>5. \A c : c \in all <=> \E mp \in Orders(l) : c = <<l, mp, (-r.alpha * mp) % 4, 0, 0>>
  BY DEF PreTurned
<1> HIDE DEF all
<1>6. ASSUME NEW x \in wanted PROVE x \in {<<c[1], c[2], c[3], r.beta, g>> : c \in all}
  <2>1. PICK mp \in Orders(l) : x = <<l, mp, (-r.alpha * mp) % 4, r.beta, h>>
    BY <1>6
  <2> DEFINE a == (-r.alpha * mp) % 4
             c == <<l, mp, a, 0, 0>>
  <2>2. c \in all
    BY <1>5
  <2>3. c[1] = l /\ c[2] = mp /\ c[3] = a
    OBVIOUS
  <2> HIDE DEF c
  <2>4. x = <<c[1], c[2], c[3], r.beta, g>>
    BY <1>2, <2>1, <2>3
  <2> QED BY <2>2, <2>4
<1>7. ASSUME NEW x \in {<<c[1], c[2], c[3], r.beta, g>> : c \in all} PROVE x \in wanted
  <2>1. PICK c \in all : x = <<c[1], c[2], c[3], r.beta, g>>
    BY <1>7
  <2>2. PICK mp \in Orders(l) : c = <<l, mp, (-r.alpha * mp) % 4, 0, 0>>
    BY <1>5, <2>1
  <2> DEFINE a == (-r.alpha * mp) % 4
  <2> HIDE DEF a
  <2>3. c[1] = l /\ c[2] = mp /\ c[3] = a
    BY <2>2 DEF a
  <2>4. x = <<l, mp, a, r.beta, h>>
    BY <1>2, <2>1, <2>3
  <2> QED BY <2>4 DEF a
<1>8. \A x : x \in wanted <=> x \in {<<c[1], c[2], c[3], r.beta, g>> : c \in all}
  BY <1>6, <1>7
<1> HIDE DEF wanted
<1>9. {<<c[1], c[2], c[3], r.beta, g>> : c \in all} = wanted
  BY <1>8
<1> QED BY <1>3, <1>4, <1>9

(* A thread writes the coefficients of its degree, and nothing else.         *)
LEMMA Written ==
  ASSUME RotInv, Sound, NEW t \in Thread, Scatter(t), NEW l, th[t].l = l
  PROVE  /\ Rlm' = [k \in Reach(call.kind) |-> Rlm'[k]]
         /\ \A d \in DegreeOrder(call.kind) :
              Rlm'[Macro(call.kind, d[1], d[2])]
                = IF d[1] = l THEN Wanted(d[1], d[2]) ELSE Rlm[Macro(call.kind, d[1], d[2])]
         /\ \A k \in Reach(call.kind) :
              (\A d \in DegreeOrder(call.kind) : Macro(call.kind, d[1], d[2]) # k)
                => Rlm'[k] = Rlm[k]
<1> DEFINE kind == call.kind
           ql == th[t].ql
           rl == {[at |-> Position(l, m), value |-> Tilted(ql, m)] : m \in Orders(l)}
<1>1. Kept /\ Calls /\ HandedOut /\ Working
  BY DEF RotInv
<1>2. /\ th[t].at = "scatter"
      /\ Rlm' = [k \in DOMAIN Rlm |->
                   IF \E x \in rl : x.at = k THEN (CHOOSE x \in rl : x.at = k).value
                                           ELSE Rlm[k]]
  BY DEF Scatter
<1>3. call.stage = "region" /\ r.beta # 0 /\ Busy(t) /\ r.lmax \in Nat /\ next \in Nat
  BY <1>1, <1>2 DEF Calls, Busy, Kept
<1>4. l \in next + 1 .. r.lmax
  BY <1>1, <1>3 DEF HandedOut
<1>5. l \in 0 .. r.lmax /\ l \in Nat /\ l # 0
  BY <1>3, <1>4
<1>6. Fits(kind)
  BY <1>1, <1>3, SoundFits
<1>7. Rlm = [k \in Reach(kind) |-> Rlm[k]]
  BY <1>1, <1>3 DEF Working
<1>8. ql = [m \in Orders(l) |-> PreTurned(l, m)]
  BY <1>1, <1>2, <1>3, <1>5 DEF Working
<1>9. ASSUME NEW m \in Orders(l)
      PROVE  /\ <<l, m>> \in DegreeOrder(kind) /\ m \in Int
             /\ Position(l, m) = Macro(kind, l, m) /\ Tilted(ql, m) = Wanted(l, m)
  <2>1. <<l, m>> \in DegreeOrder(kind)
    BY <1>5, <1>6, OrdersAre
  <2>2. m \in Int
    BY <2>1 DEF DegreeOrder
  <2> HIDE DEF ql
  <2>3. Tilted(ql, m) = Wanted(l, m)
    BY <1>1, <1>3, <1>5, <1>8, <2>2, TiltedIsWanted
  <2>4. Position(l, m) = Macro(kind, l, m)
    BY <1>5, <1>6, PositionIsMacro
  <2> QED BY <2>1, <2>2, <2>3, <2>4
<1> HIDE DEF ql
<1>10. ASSUME NEW x \in rl
       PROVE  \E m \in Orders(l) : x.at = Macro(kind, l, m) /\ x.value = Wanted(l, m)
  <2>1. PICK m \in Orders(l) : x = [at |-> Position(l, m), value |-> Tilted(ql, m)]
    BY <1>10
  <2>2. x.at = Position(l, m) /\ x.value = Tilted(ql, m)
    BY <2>1
  <2> QED BY <1>9, <2>2
<1>11. ASSUME NEW m \in Orders(l)
       PROVE  \E x \in rl : x.at = Macro(kind, l, m)
  <2> DEFINE x == [at |-> Position(l, m), value |-> Tilted(ql, m)]
  <2>1. x \in rl /\ x.at = Position(l, m)
    OBVIOUS
  <2> QED BY <1>9, <2>1
<1> HIDE DEF rl
<1>12. /\ Rlm' = [k \in Reach(kind) |-> Rlm'[k]]
       /\ \A k \in Reach(kind) :
            Rlm'[k] = IF \E x \in rl : x.at = k THEN (CHOOSE x \in rl : x.at = k).value ELSE Rlm[k]
  <2>1. DOMAIN Rlm = Reach(kind)
    BY <1>7
  <2> QED BY <1>2, <2>1
<1>13. ASSUME NEW d \in DegreeOrder(kind), NEW m \in Orders(l),
              Macro(kind, d[1], d[2]) = Macro(kind, l, m)
       PROVE  d[1] = l /\ d[2] = m
  <2> DEFINE e == <<l, m>>
  <2>1. e \in DegreeOrder(kind) /\ e[1] = l /\ e[2] = m
    BY <1>9
  <2> HIDE DEF e, kind
  <2>2. d = e
    BY <1>6, <1>13, <2>1, MacroInjective
  <2> QED BY <2>1, <2>2
<1>14. ASSUME NEW d \in DegreeOrder(kind)
       PROVE  Rlm'[Macro(kind, d[1], d[2])]
                = IF d[1] = l THEN Wanted(d[1], d[2]) ELSE Rlm[Macro(kind, d[1], d[2])]
  <2> DEFINE k == Macro(kind, d[1], d[2])
  <2>1. k \in Reach(kind)
    <3> HIDE DEF kind
    <3> QED BY <1>6, MacroReach
  <2>2. CASE d[1] = l
    <3>1. d[2] \in Orders(l)
      <4>1. d = <<d[1], d[2]>>
        <5> HIDE DEF kind
        <5> QED BY <1>6, DegreeOrders
      <4> QED BY <1>5, <1>6, <2>2, <4>1, OrdersAre
    <3>2. \E x \in rl : x.at = k
      BY <1>11, <2>2, <3>1
    <3>3. PICK x \in rl : x.at = k /\ x = (CHOOSE y \in rl : y.at = k)
      BY <3>2
    <3>4. x.value = Wanted(d[1], d[2])
      BY <1>10, <1>13, <2>2, <3>3
    <3> HIDE DEF k
    <3>5. Rlm'[k] = x.value
      BY <1>12, <2>1, <3>2, <3>3
    <3> QED BY <2>2, <3>4, <3>5 DEF k
  <2>3. CASE d[1] # l
    <3>1. ~ \E x \in rl : x.at = k
      BY <1>10, <1>13, <2>3
    <3> HIDE DEF k
    <3>2. Rlm'[k] = Rlm[k]
      BY <1>12, <2>1, <3>1
    <3> QED BY <2>3, <3>2 DEF k
  <2> QED BY <2>2, <2>3
<1>15. ASSUME NEW k \in Reach(kind), \A d \in DegreeOrder(kind) : Macro(kind, d[1], d[2]) # k
       PROVE  Rlm'[k] = Rlm[k]
  <2>1. ASSUME NEW m \in Orders(l) PROVE Macro(kind, l, m) # k
    <3> DEFINE e == <<l, m>>
    <3>1. e \in DegreeOrder(kind) /\ e[1] = l /\ e[2] = m
      BY <1>9
    <3> HIDE DEF e
    <3> QED BY <1>15, <3>1
  <2>2. ~ \E x \in rl : x.at = k
    BY <1>10, <2>1
  <2> QED BY <1>12, <2>2
<1> QED BY <1>12, <1>14, <1>15

LEMMA ScatterInv ==
  ASSUME RotInv, NEW t \in Thread, Scatter(t)
  PROVE  RotInv'
<1>1. Kept /\ Calls /\ HandedOut /\ Working
  BY DEF RotInv
<1>2. UNCHANGED <<r, call, Qlm, next>> /\ th[t].at = "scatter"
      /\ th' = [th EXCEPT ![t] = [at |-> "loop", l |-> 0, ql |-> <<>>]]
  <2>1. [AtRest EXCEPT !.at = "loop"] = [at |-> "loop", l |-> 0, ql |-> <<>>]
    BY DEF AtRest
  <2>2. th' = [th EXCEPT ![t] = [AtRest EXCEPT !.at = "loop"]]
    BY DEF Scatter
  <2> QED BY <2>1, <2>2 DEF Scatter
<1>3. call.stage = "region" /\ Busy(t)
  BY <1>1, <1>2 DEF Calls, Busy
<1>4. PICK l : th[t].l = l
  OBVIOUS
<1>5. l \in next + 1 .. r.lmax /\ next \in Nat /\ r.lmax \in Nat
  BY <1>1, <1>3, <1>4 DEF Calls, HandedOut, Kept
<1> DEFINE s == [at |-> "loop", l |-> 0, ql |-> <<>>]
<1>6. s.at = "loop" /\ th' = [th EXCEPT ![t] = s]
  BY <1>2
<1> HIDE DEF s
<1>7. /\ th' = [u \in Thread |-> th'[u]]
      /\ th'[t].at = "loop"
      /\ \A u \in Thread \ {t} : th'[u] = th[u] /\ Busy(u)' = Busy(u)
  BY <1>1, <1>6, ThreadStep
<1>8. ~Busy(t)'
  BY <1>7 DEF Busy
<1>9. Kept' /\ Calls'
  BY <1>1, <1>2, <1>3 DEF Kept, Calls
<1>10. HandedOut'
  <2>1. \A u \in Thread : Busy(u)' => Busy(u) /\ th'[u] = th[u]
    BY <1>7, <1>8
  <2>2. ASSUME NEW u \in Thread
        PROVE  /\ th'[u].at \in {"rest", "loop", "gather", "scatter"}
               /\ Busy(u)' => th'[u].l \in next' + 1 .. r'.lmax
               /\ th'[u].at = "rest" /\ call'.stage = "region" => next' = 0
    <3>1. CASE u = t
      BY <1>7, <1>8, <3>1
    <3>2. CASE u # t
      BY <1>1, <1>2, <1>7, <3>2 DEF HandedOut
    <3> QED BY <3>1, <3>2
  <2>3. \A u, v \in Thread : Busy(u)' /\ Busy(v)' /\ u # v => th'[u].l # th'[v].l
    BY <1>1, <2>1 DEF HandedOut
  <2> QED BY <1>7, <2>2, <2>3 DEF HandedOut
<1>11. Working'
  <2> SUFFICES ASSUME Sound' PROVE Working'
    BY DEF Working
  <2>1. /\ Sound /\ Reach(call.kind)' = Reach(call.kind) /\ Past' = Past
        /\ DegreeOrder(call.kind)' = DegreeOrder(call.kind)
        /\ \A k, m : Macro(call.kind, k, m)' = Macro(call.kind, k, m)
        /\ \A k : Orders(k)' = Orders(k)
        /\ \A k, m : PreTurned(k, m)' = PreTurned(k, m)
        /\ \A k, m : Wanted(k, m)' = Wanted(k, m)
    BY <1>2, Unmoved
  <2>2. /\ Rlm' = [k \in Reach(call.kind) |-> Rlm'[k]]
        /\ \A d \in DegreeOrder(call.kind) :
             Rlm'[Macro(call.kind, d[1], d[2])]
               = IF d[1] = l THEN Wanted(d[1], d[2]) ELSE Rlm[Macro(call.kind, d[1], d[2])]
        /\ \A k \in Reach(call.kind) :
             (\A d \in DegreeOrder(call.kind) : Macro(call.kind, d[1], d[2]) # k)
               => Rlm'[k] = Rlm[k]
    BY <1>4, <2>1, Written
  <2>3. ASSUME NEW k \in Nat, NEW m
        PROVE  Expected(k, m)' = IF k = l THEN Wanted(k, m) ELSE Expected(k, m)
    <3>1. CASE k = l
      <4>1. l > next' /\ \A u \in Thread : Busy(u)' => th'[u].l # l
        <5>1. ASSUME NEW u \in Thread, Busy(u)' PROVE th'[u].l # l
          <6>1. u # t
            BY <1>8, <5>1
          <6> QED BY <1>1, <1>3, <1>4, <1>7, <5>1, <6>1 DEF HandedOut
        <5> QED BY <1>2, <1>5, <5>1
      <4> QED BY <2>1, <3>1, <4>1 DEF Expected
    <3>2. CASE k # l
      <4>1. (\A u \in Thread : Busy(u)' => th'[u].l # k)
              <=> (\A u \in Thread : Busy(u) => th[u].l # k)
        BY <1>4, <1>7, <1>8, <3>2
      <4> QED BY <1>2, <2>1, <3>2, <4>1 DEF Expected
    <3> QED BY <3>1, <3>2
  <2>4. ASSUME NEW d \in DegreeOrder(call.kind)
        PROVE  /\ Qlm'[Macro(call.kind, d[1], d[2])] = Coef(d[1], d[2])
               /\ Rlm'[Macro(call.kind, d[1], d[2])] = Expected(d[1], d[2])'
    <3>1. Fits(call.kind)
      BY <1>1, <1>3, <2>1, SoundFits
    <3>2. d[1] \in Nat
      BY <3>1, DegreeOrders
    <3>3. Expected(d[1], d[2])' = IF d[1] = l THEN Wanted(d[1], d[2]) ELSE Expected(d[1], d[2])
      BY <2>3, <3>2
    <3>4. /\ Qlm[Macro(call.kind, d[1], d[2])] = Coef(d[1], d[2])
          /\ Rlm[Macro(call.kind, d[1], d[2])] = Expected(d[1], d[2])
      BY <1>1, <1>3, <2>1 DEF Working
    <3> QED BY <1>2, <2>2, <3>3, <3>4
  <2>5. ASSUME NEW k \in Reach(call.kind),
               \A d \in DegreeOrder(call.kind) : Macro(call.kind, d[1], d[2]) # k
        PROVE  Rlm'[k] = Past
    BY <1>1, <1>3, <2>1, <2>2, <2>5 DEF Working
  <2>6. ASSUME NEW u \in Thread, NEW k \in 0 .. r.lmax, th'[u].at = "scatter", th'[u].l = k
        PROVE  th'[u].ql = [m \in Orders(k)' |-> PreTurned(k, m)']
    <3>1. u # t
      BY <1>7, <2>6
    <3>2. th'[u].ql = [m \in Orders(k) |-> PreTurned(k, m)]
      BY <1>1, <1>3, <1>7, <2>1, <2>6, <3>1 DEF Working
    <3> QED BY <2>1, <3>2
  <2>7. call' = call /\ r' = r
    BY <1>2
  <2> QED BY <2>1, <2>2, <2>4, <2>5, <2>6, <2>7 DEF Working
<1> QED BY <1>9, <1>10, <1>11 DEF RotInv

(* The region ends when every thread rests: no degree is left to take, and   *)
(* nobody works on one.                                                      *)
LEMMA EndRegionInv ==
  ASSUME RotInv, EndRegion
  PROVE  RotInv'
<1>1. Kept /\ Calls /\ HandedOut /\ Working
  BY DEF RotInv
<1>2. /\ UNCHANGED <<r, Qlm, Rlm, next, th>> /\ call.stage = "region"
      /\ call' = [call EXCEPT !.stage = "done"]
      /\ \A t \in Thread : th[t].at = "rest"
  BY DEF EndRegion
<1>3. /\ call'.stage = "done" /\ call'.kind = call.kind /\ call'.inplace = call.inplace
      /\ call' \in [kind : {"none", "real", "cplx"}, stage : {"idle", "region", "done"},
                    inplace : BOOLEAN]
  BY <1>1, <1>2 DEF Calls
<1>4. next = 0
  <2>1. PICK t \in Thread : TRUE
    BY RotationAssumption
  <2> QED BY <1>1, <1>2, <2>1 DEF HandedOut
<1>5. Kept' /\ Calls'
  BY <1>1, <1>2, <1>3 DEF Kept, Calls
<1>6. HandedOut'
  BY <1>1, <1>2, <1>3 DEF HandedOut, Busy
<1>7. Working'
  <2> SUFFICES ASSUME Sound' PROVE Working'
    BY DEF Working
  <2>1. Sound
    BY <1>2, <1>3 DEF Sound
  <2>2. Fits(call.kind)
    BY <1>1, <1>2, <2>1, SoundFits
  <2>3. /\ Reach(call.kind)' = Reach(call.kind) /\ Past' = Past
        /\ DegreeOrder(call.kind)' = DegreeOrder(call.kind)
    BY <1>2, <1>3 DEF Reach, Past, DegreeOrder
  <2>4. ASSUME NEW l, NEW m PROVE Macro(call.kind, l, m)' = Macro(call.kind, l, m)
    BY <1>2, <1>3 DEF Macro
  <2>5. ASSUME NEW l, NEW m PROVE Wanted(l, m)' = Wanted(l, m)
    BY <1>2, <1>3 DEF Wanted, Orders, mlim
  <2>6. ASSUME NEW l \in Nat, NEW m PROVE Expected(l, m)' = Wanted(l, m) /\ Expected(l, m) = Wanted(l, m)
    <3>1. \A t \in Thread : ~ Busy(t)
      BY <1>2 DEF Busy
    <3>2. l = 0 \/ l > next
      BY <1>4
    <3> QED BY <1>3, <2>5, <3>1, <3>2 DEF Expected
  <2>7. ASSUME NEW d \in DegreeOrder(call.kind)
        PROVE  /\ Qlm'[Macro(call.kind, d[1], d[2])] = Coef(d[1], d[2])
               /\ Rlm'[Macro(call.kind, d[1], d[2])] = Expected(d[1], d[2])'
    <3>1. d[1] \in Nat
      BY <2>2, DegreeOrders
    <3>2. /\ Qlm[Macro(call.kind, d[1], d[2])] = Coef(d[1], d[2])
          /\ Rlm[Macro(call.kind, d[1], d[2])] = Expected(d[1], d[2])
      BY <1>1, <1>2, <2>1 DEF Working
    <3> QED BY <1>2, <2>6, <3>1, <3>2
  <2>8. /\ Rlm' = [k \in Reach(call.kind) |-> Rlm'[k]]
        /\ \A k \in Reach(call.kind) :
             (\A d \in DegreeOrder(call.kind) : Macro(call.kind, d[1], d[2]) # k) => Rlm'[k] = Past
    BY <1>1, <1>2, <2>1 DEF Working
  <2>9. \A t \in Thread : th'[t].at # "scatter"
    BY <1>2
  <2> QED BY <2>3, <2>4, <2>7, <2>8, <2>9 DEF Working
<1> QED BY <1>5, <1>6, <1>7 DEF RotInv

-----------------------------------------------------------------------------
(* The invariant: rotations.                                                 *)

(* About z, a whole complex field is turned degree by degree: the loop over  *)
(* degrees and its closed form agree before the first, and from each degree  *)
(* to the next.                                                              *)
LEMMA TurnedAboutZ ==
  ASSUME Kept, Fits("cplx"), r.eia # Zero, r.beta = 0, NEW inplace \in BOOLEAN, NEW to,
         to = IF inplace THEN Given("cplx") ELSE [k \in Reach("cplx") |-> Theirs]
  PROVE  LET a == CplxZrotate(Given("cplx"), to, inplace)
         IN  /\ a = [k \in Reach("cplx") |-> a[k]]
             /\ \A d \in DegreeOrder("cplx") : a[Macro("cplx", d[1], d[2])] = Wanted(d[1], d[2])
             /\ \A k \in Reach("cplx") :
                  (\A d \in DegreeOrder("cplx") : Macro("cplx", d[1], d[2]) # k) => a[k] = to[k]
<1> DEFINE L == r.lmax
           from == Given("cplx")
           All == DegreeOrder("cplx")
           Place(d) == Macro("cplx", d[1], d[2])
           W == Stored("cplx", [d \in All |-> Wanted(d[1], d[2])], {})
           C(l, k) == IF \E d \in All : d[1] <= l /\ Place(d) = k THEN W[k] ELSE to[k]
           step(prev, l, k) ==
             LET m == k - Centre(l)
                 v == IF inplace THEN prev ELSE from[k]
             IN  IF m < -l \/ m > l THEN prev
                 ELSE IF m = 0 THEN v ELSE Times(v, r.eia, m)
           body(g) == [l \in -1 .. L |->
                         IF l = -1 THEN to ELSE [k \in DOMAIN to |-> step(g[l - 1][k], l, k)]]
           closed == [l \in -1 .. L |-> [k \in DOMAIN to |-> C(l, k)]]
           done == CHOOSE g : g = body(g)
           S == {l \in 0 .. L : done[l] # closed[l]}
<1>1. L \in Nat /\ r.mmax = L
  BY DEF Fits
<1>2. DOMAIN to = Reach("cplx") /\ to = [k \in Reach("cplx") |-> to[k]]
  BY DEF Given, Stored
<1>3. ASSUME NEW k \in Reach("cplx") PROVE k \in Int
  BY <1>3 DEF Reach
<1>4. ASSUME NEW d \in All
      PROVE  /\ W[Place(d)] = Wanted(d[1], d[2]) /\ from[Place(d)] = Coef(d[1], d[2])
             /\ Place(d) \in Reach("cplx") /\ Place(d) = d[1] * (d[1] + 1) + d[2]
             /\ d[1] \in Nat /\ d[1] <= L /\ d[2] \in Int /\ d[2] <= d[1] /\ -d[1] <= d[2]
             /\ d = <<d[1], d[2]>>
  <2>1. /\ d = <<d[1], d[2]>> /\ d[1] \in 0 .. r.lmax /\ d[1] \in Nat /\ d[2] \in Int
        /\ d[2] <= d[1] /\ -d[1] <= d[2]
    BY DegreeOrders
  <2>2. W[Place(d)] = [e \in All |-> Wanted(e[1], e[2])][d]
    <3> DEFINE value == [e \in All |-> Wanted(e[1], e[2])]
    <3> HIDE DEF value
    <3> QED BY StoredAt DEF value
  <2>3. from[Place(d)] = [e \in All |-> Coef(e[1], e[2])][d]
    <3> DEFINE value == [e \in All |-> Coef(e[1], e[2])]
    <3> HIDE DEF value
    <3>1. from = Stored("cplx", value, Junk)
      BY DEF Given, value
    <3> QED BY <3>1, StoredAt DEF value
  <2>4. Place(d) = d[1] * (d[1] + 1) + d[2]
    BY <1>1, <2>1 DEF Macro, LM_cplx
  <2>5. Place(d) \in Reach("cplx")
    BY MacroReach
  <2> HIDE DEF W, from, Place
  <2> QED BY <1>1, <2>1, <2>2, <2>3, <2>4, <2>5
<1>5. ASSUME NEW d \in All, NEW e \in All, Place(d) = Place(e) PROVE d = e
  BY <1>5, MacroInjective
<1>6. ASSUME NEW l \in 0 .. L, NEW m \in Int, -l <= m, m <= l
      PROVE  <<l, m>> \in All /\ Place(<<l, m>>) = l * (l + 1) + m
  <2>1. <<l, m>> \in All
    BY <1>1, <1>6 DEF DegreeOrder
  <2> QED BY <1>4, <2>1
<1>7. ASSUME NEW l \in 0 .. L PROVE Centre(l) = l * (l + 1) /\ Centre(l) \in Int
  BY <1>1 DEF Centre
<1>8. ASSUME NEW l \in Int, NEW m \in Int
      PROVE  /\ Wanted(l, m) = {<<l, m, (-r.alpha * m) % 4, 0, 0>>}
             /\ m = 0 => Coef(l, m) = Wanted(l, m)
             /\ Times(Coef(l, m), r.eia, m) = Wanted(l, m)
  <2>1. r.alpha \in Int /\ r.eia = (-r.alpha) % 4
    BY DEF Kept
  <2>2. Wanted(l, m) = {<<l, m, (-r.alpha * m) % 4, 0, 0>>}
    BY DEF Wanted
  <2>3. m = 0 => (-r.alpha * m) % 4 = 0
    BY <2>1
  <2>4. Times(Coef(l, m), r.eia, m) = {<<l, m, (0 + r.eia * m) % 4, 0, 0>>}
    BY DEF Times, Coef
  <2>5. r.eia * m \in Int /\ (r.eia * m) % 4 = (-r.alpha * m) % 4
    BY <2>1, WholeTurns
  <2>6. 0 + r.eia * m = r.eia * m
    BY <2>5
  <2> QED BY <2>2, <2>3, <2>4, <2>5, <2>6 DEF Coef
<1> HIDE DEF W, Place, All
<1>9. ASSUME NEW l \in 0 .. L, NEW k \in Reach("cplx")
      PROVE  C(l, k) = step(C(l - 1, k), l, k)
  <2> DEFINE m == k - Centre(l)
  <2>1. k \in Int /\ m \in Int /\ l * (l + 1) \in Int /\ k = l * (l + 1) + m /\ l \in Nat
    BY <1>1, <1>3, <1>7
  <2>2. CASE -l <= m /\ m <= l
    <3> DEFINE d == <<l, m>>
    <3>1. d \in All /\ Place(d) = k
      BY <1>6, <2>1, <2>2
    <3>2. d[1] = l /\ d[2] = m
      OBVIOUS
    <3> HIDE DEF d, m
    <3>3. \A e \in All : Place(e) = k => e[1] = l
      BY <1>5, <3>1, <3>2
    <3>4. C(l - 1, k) = to[k]
      BY <2>1, <3>3
    <3>5. C(l, k) = W[k]
      BY <2>1, <3>1, <3>2
    <3>6. W[k] = Wanted(l, m) /\ from[k] = Coef(l, m)
      BY <1>4, <3>1, <3>2
    <3>7. inplace => to[k] = from[k]
      OBVIOUS
    <3>8. (IF inplace THEN C(l - 1, k) ELSE from[k]) = Coef(l, m)
      BY <3>4, <3>6, <3>7
    <3> HIDE DEF C, from
    <3>9. step(C(l - 1, k), l, k)
            = IF m = 0 THEN Coef(l, m) ELSE Times(Coef(l, m), r.eia, m)
      <4>1. ~ (m < -l) /\ ~ (m > l)
        BY <2>1, <2>2
      <4> QED BY <3>8, <4>1 DEF m
    <3>10. step(C(l - 1, k), l, k) = Wanted(l, m)
      BY <1>8, <2>1, <3>9
    <3> QED BY <3>5, <3>6, <3>10
  <2>3. CASE ~ (-l <= m /\ m <= l)
    <3>1. step(C(l - 1, k), l, k) = C(l - 1, k)
      <4>1. m < -l \/ m > l
        BY <2>1, <2>3
      <4> HIDE DEF C
      <4> QED BY <4>1
    <3>2. ASSUME NEW d \in All, Place(d) = k PROVE d[1] # l
      <4>1. /\ k = d[1] * (d[1] + 1) + d[2] /\ d[2] \in Int /\ d[2] <= d[1] /\ -d[1] <= d[2]
        BY <1>4, <3>2
      <4> SUFFICES ASSUME d[1] = l PROVE FALSE
        OBVIOUS
      <4> DEFINE p == l * (l + 1)
      <4>2. p \in Int /\ k = p + d[2] /\ k = p + m
        BY <2>1, <4>1
      <4> HIDE DEF p, m
      <4> QED BY <2>1, <2>3, <4>1, <4>2
    <3>3. (\E d \in All : d[1] <= l /\ Place(d) = k) <=> (\E d \in All : d[1] <= l - 1 /\ Place(d) = k)
      <4>1. \A d \in All : Place(d) = k => (d[1] <= l <=> d[1] <= l - 1)
        <5> SUFFICES ASSUME NEW d \in All, Place(d) = k PROVE d[1] <= l <=> d[1] <= l - 1
          OBVIOUS
        <5>1. d[1] \in Nat /\ d[1] # l
          BY <1>4, <3>2
        <5> QED BY <2>1, <5>1
      <4> QED BY <4>1
    <3> QED BY <3>1, <3>3
  <2> QED BY <2>2, <2>3
<1>10. ASSUME NEW k \in Reach("cplx") PROVE C(-1, k) = to[k]
  BY <1>4
<1>11. closed = body(closed)
  <2> HIDE DEF C, step
  <2>1. \A l \in -1 .. L : closed[l] = [k \in Reach("cplx") |-> C(l, k)]
    BY <1>2
  <2>2. ASSUME NEW l \in -1 .. L PROVE closed[l] = body(closed)[l]
    <3>1. CASE l = -1
      <4>1. body(closed)[l] = to
        BY <3>1
      <4>2. [k \in Reach("cplx") |-> C(l, k)] = [k \in Reach("cplx") |-> to[k]]
        BY <1>10, <3>1
      <4> QED BY <1>2, <2>1, <4>1, <4>2
    <3>2. CASE l # -1
      <4>1. l \in 0 .. L /\ l - 1 \in -1 .. L
        BY <1>1, <3>2
      <4>2. body(closed)[l] = [k \in Reach("cplx") |-> step(closed[l - 1][k], l, k)]
        BY <1>2, <3>2
      <4>3. \A k \in Reach("cplx") : closed[l - 1][k] = C(l - 1, k)
        BY <2>1, <4>1
      <4> HIDE DEF closed
      <4>4. [k \in Reach("cplx") |-> step(closed[l - 1][k], l, k)]
              = [k \in Reach("cplx") |-> C(l, k)]
        BY <1>9, <4>1, <4>3
      <4> QED BY <2>1, <4>2, <4>4
    <3> QED BY <3>1, <3>2
  <2>3. closed = [l \in -1 .. L |-> closed[l]] /\ body(closed) = [l \in -1 .. L |-> body(closed)[l]]
    OBVIOUS
  <2>4. [l \in -1 .. L |-> closed[l]] = [l \in -1 .. L |-> body(closed)[l]]
    <3> HIDE DEF closed, body
    <3> QED BY <2>2
  <2> HIDE DEF closed, body
  <2> QED BY <2>3, <2>4
<1>12. done = body(done)
  <2> HIDE DEF closed, body
  <2> QED BY <1>11
<1>13. CplxZrotate(from, to, inplace) = done[L]
  BY DEF CplxZrotate
<1> HIDE DEF done, step, C
<1>14. done[-1] = to /\ closed[-1] = to
  <2>1. -1 \in -1 .. L
    BY <1>1
  <2>2. body(done)[-1] = to /\ body(closed)[-1] = to
    BY <2>1
  <2> HIDE DEF closed, body
  <2> QED BY <1>11, <1>12, <2>2
<1>15. S = {}
  <2> SUFFICES ASSUME S # {} PROVE FALSE
    OBVIOUS
  <2>1. PICK x \in S : \A y \in S : x <= y
    <3>1. S \in SUBSET Nat
      BY <1>1
    <3> HIDE DEF S
    <3> QED BY <3>1, LeastNatural
  <2>2. x \in 0 .. L /\ x - 1 \in -1 .. L /\ x - 1 \notin S /\ x \in Int
    BY <1>1, <2>1
  <2>3. done[x - 1] = closed[x - 1]
    BY <1>1, <1>14, <2>2
  <2>4. /\ body(done)[x] = [k \in DOMAIN to |-> step(done[x - 1][k], x, k)]
        /\ body(closed)[x] = [k \in DOMAIN to |-> step(closed[x - 1][k], x, k)]
    <3> HIDE DEF closed
    <3>1. x \in -1 .. L /\ x # -1
      BY <1>1, <2>2
    <3> QED BY <3>1
  <2>5. done[x] # closed[x]
    BY <2>1
  <2> HIDE DEF closed, body
  <2> QED BY <1>11, <1>12, <2>3, <2>4, <2>5
<1>16. done[L] = [k \in Reach("cplx") |-> C(L, k)]
  <2>1. done[L] = closed[L]
    BY <1>1, <1>15
  <2> QED BY <1>1, <1>2, <2>1
<1>17. ASSUME NEW d \in All PROVE done[L][Place(d)] = Wanted(d[1], d[2])
  <2>1. Place(d) \in Reach("cplx") /\ d[1] <= L /\ W[Place(d)] = Wanted(d[1], d[2])
    BY <1>4
  <2>2. C(L, Place(d)) = W[Place(d)]
    BY <2>1 DEF C
  <2> QED BY <1>16, <2>1, <2>2
<1>18. ASSUME NEW k \in Reach("cplx"), \A d \in All : Place(d) # k PROVE done[L][k] = to[k]
  <2>1. C(L, k) = to[k]
    BY <1>18 DEF C
  <2> QED BY <1>16, <2>1
<1> DEFINE a == done[L]
<1>19. a = [k \in Reach("cplx") |-> a[k]]
  BY <1>16
<1> QED BY <1>13, <1>17, <1>18, <1>19 DEF Place, All

(* A rotation that tilts leaves degree 0 as it is, before its threads start. *)
LEMMA DegreeZero ==
  ASSUME NEW kind, Fits(kind), Kept
  PROVE  /\ <<0, 0>> \in DegreeOrder(kind) /\ Macro(kind, 0, 0) = 0 /\ 0 \in Reach(kind)
         /\ Coef(0, 0) = Wanted(0, 0)
         /\ \A d \in DegreeOrder(kind) : d[1] = 0 => d[2] = 0
         /\ \A d \in DegreeOrder(kind) : d[1] # 0 => Macro(kind, d[1], d[2]) # 0
<1> DEFINE z == <<0, 0>>
<1>1. z \in DegreeOrder(kind) /\ z[1] = 0 /\ z[2] = 0
  BY DEF Fits, DegreeOrder
<1>2. Macro(kind, 0, 0) = 0
  <2>1. CASE kind = "real"
    <3> DEFINE L == r.lmax
    <3>1. L \in Nat
      BY DEF Fits
    <3> HIDE DEF L
    <3>2. LM(L, 1, 0, 0) = 0 * (L + 1) - Triangle(0) + 0
      BY <3>1, LMSum, 0 \in Int, 0 \in Nat
    <3>3. Triangle(0) = 0
      BY DEF Triangle
    <3>4. LM(L, 1, 0, 0) = 0
      BY <3>1, <3>2, <3>3
    <3> QED BY <2>1, <3>4 DEF L, Macro
  <2>2. CASE kind = "cplx"
    BY <2>2 DEF Macro, LM_cplx, Fits
  <2> QED BY <2>1, <2>2 DEF Fits
<1> HIDE DEF z
<1>3. 0 \in Reach(kind)
  BY <1>1, <1>2, MacroReach
<1>4. (-r.alpha * 0) % 4 = 0
  BY DEF Kept
<1>5. Coef(0, 0) = Wanted(0, 0)
  BY <1>4 DEF Coef, Wanted
<1>6. ASSUME NEW d \in DegreeOrder(kind)
      PROVE  (d[1] = 0 => d[2] = 0) /\ (d[1] # 0 => Macro(kind, d[1], d[2]) # 0)
  <2>1. d[1] = 0 => d[2] = 0
    <3>1. d[1] \in Nat /\ d[2] \in Int /\ d[2] <= d[1] /\ -d[1] <= d[2]
      BY DegreeOrders
    <3> QED BY <3>1
  <2>2. ASSUME Macro(kind, d[1], d[2]) = 0 PROVE d[1] = 0
    <3>1. d = z
      BY <1>1, <1>2, <2>2, MacroInjective
    <3> QED BY <1>1, <3>1
  <2> QED BY <2>1, <2>2
<1> QED BY <1>1, <1>2, <1>3, <1>5, <1>6 DEF z

LEMMA ApplyInv ==
  ASSUME RotInv, NEW kind \in {"real", "cplx"}, NEW inplace \in BOOLEAN, Apply(kind, inplace)
  PROVE  RotInv'
<1> DEFINE given == Given(kind)
           to == IF inplace THEN given ELSE [k \in Reach(kind) |-> Theirs]
           stage == IF r.beta = 0 THEN "done" ELSE "region"
           at == IF r.beta = 0 THEN "rest" ELSE "loop"
           start == IF r.beta = 0 THEN 0 ELSE r.lmax
           s == [at |-> at, l |-> 0, ql |-> <<>>]
<1>1. Kept
  BY DEF RotInv
<1>2. /\ r.live /\ r' = r /\ next' = start
      /\ call' = [kind |-> kind, stage |-> stage, inplace |-> inplace]
      /\ Qlm' = given
  BY DEF Apply
<1>3. Rlm' = IF r.beta # 0 THEN [to EXCEPT ![0] = given[0]]
             ELSE IF kind = "real" THEN SH_Zrotate(given)
             ELSE CplxZrotate(given, to, inplace)
  BY DEF Apply
<1>4. th' = [t \in Thread |-> s]
  <2>1. th' = [t \in Thread |-> [AtRest EXCEPT !.at = at]]
    BY DEF Apply
  <2>2. [AtRest EXCEPT !.at = at] = s
    <3> HIDE DEF at
    <3> QED BY DEF AtRest
  <2> QED BY <2>1, <2>2
<1>5. /\ call'.kind = kind /\ call'.stage = stage /\ call'.inplace = inplace
      /\ call' \in [kind : {"none", "real", "cplx"}, stage : {"idle", "region", "done"},
                    inplace : BOOLEAN]
  <2>1. stage \in {"idle", "region", "done"}
    OBVIOUS
  <2> HIDE DEF stage
  <2> QED BY <1>2, <2>1
<1>6. r.lmax \in Nat /\ r.mmax \in Nat /\ r.mmax <= r.lmax /\ r.beta \in Nat
  BY <1>1 DEF Kept
<1>7. \A t \in Thread : th'[t].at = at
  BY <1>4
<1> HIDE DEF s, given
<1>8. Kept' /\ Calls'
  <2>1. Kept'
    BY <1>1, <1>2 DEF Kept
  <2>2. Calls'
    BY <1>2, <1>5, <1>6, <1>7 DEF Calls
  <2> QED BY <2>1, <2>2
<1>9. HandedOut'
  <2>1. \A t \in Thread : ~ Busy(t)'
    BY <1>7 DEF Busy
  <2>2. \A t \in Thread :
          /\ th'[t].at \in {"rest", "loop", "gather", "scatter"}
          /\ th'[t].at = "rest" /\ call'.stage = "region" => next' = 0
    BY <1>5, <1>7
  <2>3. th' = [t \in Thread |-> th'[t]]
    BY <1>4
  <2> QED BY <2>1, <2>2, <2>3 DEF HandedOut
<1>10. Working'
  <2> SUFFICES ASSUME Sound' PROVE Working'
    BY DEF Working
  <2>1. IF kind = "real" THEN r.beta # 0 ELSE r.mmax = r.lmax /\ r.eia # Zero
    BY <1>2, <1>5 DEF Sound
  <2>2. Fits(kind)
    BY <1>6, <2>1 DEF Fits
  <2>3. /\ Reach(call.kind)' = Reach(kind) /\ DegreeOrder(call.kind)' = DegreeOrder(kind)
        /\ Past' = IF inplace THEN Junk ELSE Theirs
    BY <1>2, <1>5 DEF Reach, DegreeOrder, Past
  <2>4. ASSUME NEW l, NEW m PROVE Macro(call.kind, l, m)' = Macro(kind, l, m)
    BY <1>2, <1>5 DEF Macro
  <2>5. ASSUME NEW d \in DegreeOrder(kind) PROVE given[Macro(kind, d[1], d[2])] = Coef(d[1], d[2])
    <3> DEFINE value == [e \in DegreeOrder(kind) |-> Coef(e[1], e[2])]
    <3>1. value[d] = Coef(d[1], d[2])
      OBVIOUS
    <3> HIDE DEF value
    <3>2. given = Stored(kind, value, Junk)
      BY DEF given, Given, value
    <3> QED BY <2>2, <3>1, <3>2, StoredAt
  <2>6. ASSUME NEW k \in Reach(kind), \A d \in DegreeOrder(kind) : Macro(kind, d[1], d[2]) # k
        PROVE  given[k] = Junk
    <3> DEFINE value == [e \in DegreeOrder(kind) |-> Coef(e[1], e[2])]
    <3> HIDE DEF value
    <3>1. given = Stored(kind, value, Junk)
      BY DEF given, Given, value
    <3> QED BY <2>6, <3>1, StoredPast
  <2>7. given = [k \in Reach(kind) |-> given[k]]
    BY DEF given, Given, Stored
  <2>8. to = [k \in Reach(kind) |-> to[k]]
    BY <2>7
  <2>9. ASSUME NEW d \in DegreeOrder(kind)
        PROVE  to[Macro(kind, d[1], d[2])] = IF inplace THEN Coef(d[1], d[2]) ELSE Theirs
    <3>1. Macro(kind, d[1], d[2]) \in Reach(kind)
      BY <2>2, MacroReach
    <3> QED BY <2>5, <3>1
  <2>10. ASSUME NEW k \in Reach(kind), \A d \in DegreeOrder(kind) : Macro(kind, d[1], d[2]) # k
         PROVE  to[k] = IF inplace THEN Junk ELSE Theirs
    BY <2>6, <2>10
  <2>11. \A t \in Thread : th'[t].at # "scatter"
    BY <1>7
  <2>12. /\ Rlm' = [k \in Reach(kind) |-> Rlm'[k]]
         /\ \A d \in DegreeOrder(kind) :
              Rlm'[Macro(kind, d[1], d[2])] = Expected(d[1], d[2])'
         /\ \A k \in Reach(kind) :
              (\A d \in DegreeOrder(kind) : Macro(kind, d[1], d[2]) # k) => Rlm'[k] = to[k]
    <3>1. CASE r.beta # 0
      <4>1. Rlm' = [to EXCEPT ![0] = given[0]]
        BY <1>3, <3>1
      <4>2. /\ <<0, 0>> \in DegreeOrder(kind) /\ Macro(kind, 0, 0) = 0 /\ 0 \in Reach(kind)
            /\ Coef(0, 0) = Wanted(0, 0)
            /\ \A d \in DegreeOrder(kind) : d[1] = 0 => d[2] = 0
            /\ \A d \in DegreeOrder(kind) : d[1] # 0 => Macro(kind, d[1], d[2]) # 0
        BY <1>1, <2>2, DegreeZero
      <4>3. given[0] = Wanted(0, 0)
        <5> DEFINE z == <<0, 0>>
        <5>1. z \in DegreeOrder(kind) /\ z[1] = 0 /\ z[2] = 0
          BY <4>2
        <5> HIDE DEF z
        <5> QED BY <2>5, <4>2, <5>1
      <4> HIDE DEF to
      <4>4. /\ Rlm' = [k \in Reach(kind) |-> Rlm'[k]]
            /\ Rlm'[0] = Wanted(0, 0)
            /\ \A k \in Reach(kind) : k # 0 => Rlm'[k] = to[k]
        BY <2>8, <4>1, <4>2, <4>3
      <4>5. ASSUME NEW d \in DegreeOrder(kind)
            PROVE  Rlm'[Macro(kind, d[1], d[2])] = Expected(d[1], d[2])'
        <5>1. d[1] \in Nat /\ d[1] <= r.lmax
          BY <1>6, <2>2, DegreeOrders
        <5>2. CASE d[1] = 0
          <6>1. Rlm'[Macro(kind, d[1], d[2])] = Wanted(d[1], d[2])
            BY <4>2, <4>4, <5>2
          <6>2. Wanted(d[1], d[2]) = {<<d[1], d[2], (-r.alpha * d[2]) % 4, 0, 0>>}
            BY <5>2 DEF Wanted
          <6>3. Wanted(d[1], d[2])' = {<<d[1], d[2], (-r.alpha * d[2]) % 4, 0, 0>>}
            BY <1>2, <5>2 DEF Wanted
          <6> QED BY <5>2, <6>1, <6>2, <6>3 DEF Expected
        <5>3. CASE d[1] # 0
          <6>1. Rlm'[Macro(kind, d[1], d[2])] = IF inplace THEN Coef(d[1], d[2]) ELSE Theirs
            <7>1. Macro(kind, d[1], d[2]) \in Reach(kind)
              BY <2>2, MacroReach
            <7> QED BY <2>9, <4>2, <4>4, <5>3, <7>1
          <6>2. call'.stage = "region" /\ next' = r.lmax
            BY <1>2, <1>5, <3>1
          <6>3. ~ (d[1] > next')
            BY <1>6, <5>1, <6>2
          <6> QED BY <1>5, <5>3, <6>1, <6>2, <6>3 DEF Expected
        <5> QED BY <5>2, <5>3
      <4>6. ASSUME NEW k \in Reach(kind), \A d \in DegreeOrder(kind) : Macro(kind, d[1], d[2]) # k
            PROVE  Rlm'[k] = to[k]
        <5>1. k # 0
          <6> DEFINE z == <<0, 0>>
          <6>1. z \in DegreeOrder(kind) /\ z[1] = 0 /\ z[2] = 0
            BY <4>2
          <6> HIDE DEF z
          <6> QED BY <4>2, <4>6, <6>1
        <5> QED BY <4>4, <5>1
      <4> QED BY <4>4, <4>5, <4>6
    <3>2. CASE r.beta = 0
      <4>1. kind = "cplx" /\ r.eia # Zero
        BY <2>1, <3>2
      <4>2. Rlm' = CplxZrotate(Given("cplx"), to, inplace)
        BY <1>3, <3>2, <4>1 DEF given
      <4>3. to = IF inplace THEN Given("cplx") ELSE [k \in Reach("cplx") |-> Theirs]
        BY <4>1 DEF given
      <4> HIDE DEF to
      <4>4. LET a == CplxZrotate(Given("cplx"), to, inplace)
            IN  /\ a = [k \in Reach("cplx") |-> a[k]]
                /\ \A d \in DegreeOrder("cplx") : a[Macro("cplx", d[1], d[2])] = Wanted(d[1], d[2])
                /\ \A k \in Reach("cplx") :
                     (\A d \in DegreeOrder("cplx") : Macro("cplx", d[1], d[2]) # k) => a[k] = to[k]
        BY <1>1, <2>2, <3>2, <4>1, <4>3, TurnedAboutZ
      <4>5. ASSUME NEW l, NEW m PROVE Expected(l, m)' = Wanted(l, m)
        <5>1. Wanted(l, m) = {<<l, m, (-r.alpha * m) % 4, 0, 0>>}
          BY <3>2 DEF Wanted
        <5>2. Wanted(l, m)' = {<<l, m, (-r.alpha * m) % 4, 0, 0>>}
          BY <1>2, <3>2 DEF Wanted
        <5> QED BY <1>5, <3>2, <5>1, <5>2 DEF Expected
      <4> QED BY <4>1, <4>2, <4>4, <4>5
    <3> QED BY <3>1, <3>2
  <2> HIDE DEF to
  <2> QED BY <1>2, <2>3, <2>4, <2>5, <2>10, <2>11, <2>12 DEF Working
<1> QED BY <1>8, <1>9, <1>10 DEF RotInv

-----------------------------------------------------------------------------
(* Every reachable state.                                                    *)

LEMMA NextInvRot == RotInv /\ [Next]_vars => RotInv'
<1> SUFFICES ASSUME RotInv, [Next]_vars PROVE RotInv'
  OBVIOUS
<1>1. CASE \E size \in Size, phase \in {-1, 1} : shtns_rotation_create(size, phase)
  BY <1>1, CreateInvRot
<1>2. CASE shtns_rotation_destroy
  BY <1>2, DestroyInvRot
<1>3. CASE \E alpha, gamma \in Angle, beta \in Tilt :
             \/ shtns_rotation_set_angles_ZYZ(alpha, beta, gamma)
             \/ shtns_rotation_set_angles_ZXZ(alpha, beta, gamma)
  <2>1. PICK alpha \in Angle, gamma \in Angle, beta \in Tilt :
             \/ shtns_rotation_set_angles_ZYZ(alpha, beta, gamma)
             \/ shtns_rotation_set_angles_ZXZ(alpha, beta, gamma)
    BY <1>3
  <2>2. alpha \in Int /\ beta \in Int /\ gamma \in Int /\ alpha + 1 \in Int /\ gamma - 1 \in Int
    BY RotationAssumption
  <2>3. CASE shtns_rotation_set_angles_ZYZ(alpha, beta, gamma)
    BY <2>2, <2>3, SetAnglesInv DEF shtns_rotation_set_angles_ZYZ
  <2>4. CASE shtns_rotation_set_angles_ZXZ(alpha, beta, gamma)
    BY <2>2, <2>4, SetAnglesInv DEF shtns_rotation_set_angles_ZXZ
  <2> QED BY <2>1, <2>3, <2>4
<1>4. CASE \E theta \in Angle, axis \in {"x", "y", "z"}, along \in {-1, 1} :
             shtns_rotation_set_angle_axis(theta, axis, along)
  <2>1. PICK theta \in Angle, axis \in {"x", "y", "z"}, along \in {-1, 1} :
             shtns_rotation_set_angle_axis(theta, axis, along)
    BY <1>4
  <2> DEFINE size == IF theta < 0 THEN -theta ELSE theta
             beta == IF size <= 2 THEN size ELSE 4 - size
             sign == IF theta = 0 THEN 0 ELSE IF (theta > 0) = (size <= 2) THEN along ELSE -along
  <2>2. theta \in Int
    BY RotationAssumption
  <2>3. beta \in Int /\ sign \in Int /\ along * theta \in Int /\ -sign \in Int
    <3>1. size \in Int
      BY <2>2
    <3>2. sign \in Int
      <4> HIDE DEF size
      <4>1. sign \in {0, along, -along}
        OBVIOUS
      <4> QED BY <4>1
    <3> HIDE DEF size, sign
    <3> QED BY <2>2, <3>1, <3>2
  <2>4. \/ SetAngles(along * theta, 0, 0)
        \/ SetAngles(sign, beta, -sign)
        \/ SetAngles(2, beta, 2)
        \/ SetAngles(0, beta, 0)
    BY <2>1 DEF shtns_rotation_set_angle_axis
  <2> HIDE DEF size, beta, sign
  <2> QED BY <2>3, <2>4, SetAnglesInv, 0 \in Int, 2 \in Int
<1>5. CASE \E inplace \in BOOLEAN :
             \/ shtns_rotation_apply_real(inplace)
             \/ shtns_rotation_apply_cplx(inplace)
  BY <1>5, ApplyInv DEF shtns_rotation_apply_real, shtns_rotation_apply_cplx
<1>6. CASE \E t \in Thread : Take(t) \/ Gather(t) \/ Scatter(t)
  BY <1>6, TakeInv, GatherInv, ScatterInv
<1>7. CASE EndRegion
  BY <1>7, EndRegionInv
<1>8. CASE UNCHANGED vars
  <2>1. UNCHANGED <<r, call, Qlm, Rlm, next, th>>
    BY <1>8 DEF vars
  <2>2. Kept' /\ Calls' /\ HandedOut'
    BY <2>1 DEF RotInv, Kept, Calls, HandedOut, Busy
  <2>3. Working'
    <3>1. CASE call.stage = "idle"
      BY <2>1, <3>1 DEF Working
    <3>2. CASE call.stage # "idle"
      <4>1. ASSUME NEW l, NEW m PROVE Expected(l, m)' = Expected(l, m)
        BY <2>1, Unmoved DEF Expected, Busy
      <4>2. \A u \in Thread : th'[u].at = "scatter" => th[u].at = "scatter" /\ th'[u] = th[u]
        BY <2>1
      <4> QED BY <2>1, <3>2, <4>1, <4>2, WorkingKept DEF RotInv
    <3> QED BY <3>1, <3>2
  <2> QED BY <2>2, <2>3 DEF RotInv
<1> QED BY <1>1, <1>2, <1>3, <1>4, <1>5, <1>6, <1>7, <1>8 DEF Next

(* The angles kept and their phases agree; degrees are handed out once each; *)
(* what threads gathered, and what is stored so far, is right for every      *)
(* degree.                                                                   *)
THEOREM RotationInvariant == Spec => []RotInv
<1>1. Init => RotInv
  BY InitRot
<1>2. RotInv /\ [Next]_vars => RotInv'
  BY NextInvRot
<1> QED BY <1>1, <1>2, PTL DEF Spec

(* No thread reads or writes where another is about to write: by the         *)
(* invariant threads work on degrees of their own, and no two degrees share  *)
(* a place.                                                                  *)
LEMMA NoRaceInv == RotInv => NoRace
<1> SUFFICES ASSUME RotInv, Sound, NEW t \in Thread, NEW u \in Thread, t # u,
                    NEW k, k \in Writes(t), k \in Writes(u) \cup Reads(u)
             PROVE  FALSE
  BY DEF NoRace
<1>1. Kept /\ Calls /\ HandedOut
  BY DEF RotInv
<1>2. th[t].at = "scatter" /\ \E m \in Orders(th[t].l) : k = Position(th[t].l, m)
  BY DEF Writes
<1>3. th[u].at \in {"gather", "scatter"}
      /\ \E m \in Orders(th[u].l) : k = Position(th[u].l, m) \/ k = ReadAt(th[u].l, m)
  BY DEF Writes, Reads
<1>4. PICK i : i = th[t].l
  OBVIOUS
<1>5. PICK j : j = th[u].l
  OBVIOUS
<1>6. call.stage = "region" /\ Busy(t) /\ Busy(u) /\ next \in Nat /\ r.lmax \in Nat
  BY <1>1, <1>2, <1>3 DEF Calls, Busy, Kept
<1>7. i \in 0 .. r.lmax /\ j \in 0 .. r.lmax /\ i # j
  <2>1. i \in next + 1 .. r.lmax /\ j \in next + 1 .. r.lmax /\ i # j
    BY <1>1, <1>4, <1>5, <1>6 DEF HandedOut
  <2> QED BY <1>6, <2>1
<1>8. Fits(call.kind)
  BY <1>1, <1>6, SoundFits
<1>9. PICK m \in Orders(i) : k = Position(i, m)
  BY <1>2, <1>4
<1>10. PICK n \in Orders(j) : k = Position(j, n) \/ k = ReadAt(j, n)
  BY <1>3, <1>5
<1>11. k = Macro(call.kind, i, m) /\ k = Macro(call.kind, j, n)
  BY <1>7, <1>8, <1>9, <1>10, PositionIsMacro
<1> DEFINE d == <<i, m>>
           e == <<j, n>>
<1>12. /\ d \in DegreeOrder(call.kind) /\ d[1] = i /\ d[2] = m
       /\ e \in DegreeOrder(call.kind) /\ e[1] = j /\ e[2] = n
  BY <1>7, <1>8, <1>9, <1>10, OrdersAre
<1> HIDE DEF d, e
<1>13. d = e
  BY <1>8, <1>11, <1>12, MacroInjective
<1> QED BY <1>7, <1>12, <1>13

THEOREM NeverRace == Spec => []NoRace
<1>1. RotInv => NoRace
  BY NoRaceInv
<1> QED BY <1>1, RotationInvariant, PTL

(* When a sound call is done, every coefficient is that of the rotated       *)
(* field, and nothing else was written.                                      *)
LEMMA RotatedInv == RotInv => Rotated
<1> SUFFICES ASSUME RotInv, call.stage = "done", Sound PROVE Rlm = Result
  BY DEF Rotated
<1>1. Kept /\ Calls /\ Working
  BY DEF RotInv
<1>2. Fits(call.kind)
  BY <1>1, SoundFits
<1> DEFINE kind == call.kind
           value == [d \in DegreeOrder(kind) |-> Wanted(d[1], d[2])]
<1>3. Rlm = [k \in Reach(kind) |-> Rlm[k]]
  BY <1>1 DEF Working
<1>4. ASSUME NEW d \in DegreeOrder(kind) PROVE Rlm[Macro(kind, d[1], d[2])] = value[d]
  <2>1. Rlm[Macro(kind, d[1], d[2])] = Expected(d[1], d[2])
    BY <1>1 DEF Working
  <2>2. Expected(d[1], d[2]) = Wanted(d[1], d[2])
    BY DEF Expected
  <2> QED BY <2>1, <2>2
<1>5. ASSUME NEW k \in Reach(kind), \A d \in DegreeOrder(kind) : Macro(kind, d[1], d[2]) # k
      PROVE  Rlm[k] = Past
  BY <1>1, <1>5 DEF Working
<1>6. Result = Stored(kind, value, Past)
  BY DEF Result
<1> HIDE DEF value, kind
<1>7. Rlm = Stored(kind, value, Past)
  BY <1>2, <1>3, <1>4, <1>5, StoredIs DEF kind
<1> QED BY <1>6, <1>7

THEOREM RotatedRight == Spec => []Rotated
<1>1. RotInv => Rotated
  BY RotatedInv
<1> QED BY <1>1, RotationInvariant, PTL

-----------------------------------------------------------------------------
(* Rotations of space, as what they make of the three axes.                  *)

Vec == [1 .. 3 -> Int]
Mat == [x : Vec, y : Vec, z : Vec]

(* A rotation of space given by what it makes of the axes. *)
LEMMA MatIs ==
  ASSUME NEW A \in Mat, NEW B \in Mat,
         A.x[1] = B.x[1], A.x[2] = B.x[2], A.x[3] = B.x[3],
         A.y[1] = B.y[1], A.y[2] = B.y[2], A.y[3] = B.y[3],
         A.z[1] = B.z[1], A.z[2] = B.z[2], A.z[3] = B.z[3]
  PROVE  A = B
<1>0. \A i \in 1 .. 3 : i = 1 \/ i = 2 \/ i = 3
  OBVIOUS
<1>1. A.x = B.x
  <2>1. A.x \in Vec /\ B.x \in Vec /\ \A i \in 1 .. 3 : A.x[i] = B.x[i]
    BY <1>0 DEF Mat
  <2> QED BY <2>1 DEF Vec
<1>2. A.y = B.y
  <2>1. A.y \in Vec /\ B.y \in Vec /\ \A i \in 1 .. 3 : A.y[i] = B.y[i]
    BY <1>0 DEF Mat
  <2> QED BY <2>1 DEF Vec
<1>3. A.z = B.z
  <2>1. A.z \in Vec /\ B.z \in Vec /\ \A i \in 1 .. 3 : A.z[i] = B.z[i]
    BY <1>0 DEF Mat
  <2> QED BY <2>1 DEF Vec
<1> QED BY <1>1, <1>2, <1>3 DEF Mat

LEMMA ImageIs ==
  ASSUME NEW A \in Mat, NEW v \in Vec
  PROVE  /\ Image(A, v) \in Vec
         /\ Image(A, v)[1] = v[1] * A.x[1] + v[2] * A.y[1] + v[3] * A.z[1]
         /\ Image(A, v)[2] = v[1] * A.x[2] + v[2] * A.y[2] + v[3] * A.z[2]
         /\ Image(A, v)[3] = v[1] * A.x[3] + v[2] * A.y[3] + v[3] * A.z[3]
<1>1. A.x \in Vec /\ A.y \in Vec /\ A.z \in Vec
  BY DEF Mat
<1>2. ASSUME NEW i \in 1 .. 3
      PROVE  v[1] * A.x[i] + v[2] * A.y[i] + v[3] * A.z[i] \in Int
  BY <1>1 DEF Vec
<1> QED BY <1>2 DEF Image, Vec

LEMMA AfterIs ==
  ASSUME NEW A \in Mat, NEW B \in Mat
  PROVE  /\ After(A, B) \in Mat
         /\ After(A, B).x = Image(A, B.x)
         /\ After(A, B).y = Image(A, B.y)
         /\ After(A, B).z = Image(A, B.z)
<1>1. B.x \in Vec /\ B.y \in Vec /\ B.z \in Vec
  BY DEF Mat
<1>2. Image(A, B.x) \in Vec /\ Image(A, B.y) \in Vec /\ Image(A, B.z) \in Vec
  BY <1>1, ImageIs
<1> QED BY <1>2 DEF After, Mat

(* A rotation of space in numbers. *)
Is(A, a1, a2, a3, b1, b2, b3, c1, c2, c3) ==
  /\ A \in Mat
  /\ A.x[1] = a1 /\ A.x[2] = a2 /\ A.x[3] = a3
  /\ A.y[1] = b1 /\ A.y[2] = b2 /\ A.y[3] = b3
  /\ A.z[1] = c1 /\ A.z[2] = c2 /\ A.z[3] = c3

LEMMA SameIs ==
  ASSUME NEW A, NEW B, NEW a1, NEW a2, NEW a3, NEW b1, NEW b2, NEW b3, NEW c1, NEW c2, NEW c3,
         Is(A, a1, a2, a3, b1, b2, b3, c1, c2, c3), Is(B, a1, a2, a3, b1, b2, b3, c1, c2, c3)
  PROVE  A = B
BY MatIs DEF Is

LEMMA UnitIs == Is(Unit, 1, 0, 0, 0, 1, 0, 0, 0, 1)
BY DEF Is, Unit, Mat, Vec
LEMMA QuarterIs ==
  /\ Is(Quarter.x, 1, 0, 0, 0, 0, 1, 0, -1, 0)
  /\ Is(Quarter.y, 0, 0, -1, 0, 1, 0, 1, 0, 0)
  /\ Is(Quarter.z, 0, 1, 0, -1, 0, 0, 0, 0, 1)
BY DEF Is, Quarter, Mat, Vec
LEMMA Product ==
  ASSUME NEW A, NEW B, 
         NEW a1 \in Int, NEW a2 \in Int, NEW a3 \in Int,
         NEW b1 \in Int, NEW b2 \in Int, NEW b3 \in Int,
         NEW c1 \in Int, NEW c2 \in Int, NEW c3 \in Int,
         NEW d1 \in Int, NEW d2 \in Int, NEW d3 \in Int,
         NEW e1 \in Int, NEW e2 \in Int, NEW e3 \in Int,
         NEW f1 \in Int, NEW f2 \in Int, NEW f3 \in Int,
         Is(A, a1, a2, a3, b1, b2, b3, c1, c2, c3),
         Is(B, d1, d2, d3, e1, e2, e3, f1, f2, f3)
  PROVE  Is(After(A, B),
            d1 * a1 + d2 * b1 + d3 * c1, d1 * a2 + d2 * b2 + d3 * c2, d1 * a3 + d2 * b3 + d3 * c3,
            e1 * a1 + e2 * b1 + e3 * c1, e1 * a2 + e2 * b2 + e3 * c2, e1 * a3 + e2 * b3 + e3 * c3,
            f1 * a1 + f2 * b1 + f3 * c1, f1 * a2 + f2 * b2 + f3 * c2, f1 * a3 + f2 * b3 + f3 * c3)
<1>1. A \in Mat /\ B \in Mat /\ B.x \in Vec /\ B.y \in Vec /\ B.z \in Vec
  BY DEF Is, Mat
<1>2. /\ After(A, B) \in Mat /\ After(A, B).x = Image(A, B.x)
      /\ After(A, B).y = Image(A, B.y) /\ After(A, B).z = Image(A, B.z)
  BY <1>1, AfterIs
<1>3. /\ Image(A, B.x)[1] = d1 * a1 + d2 * b1 + d3 * c1
      /\ Image(A, B.x)[2] = d1 * a2 + d2 * b2 + d3 * c2
      /\ Image(A, B.x)[3] = d1 * a3 + d2 * b3 + d3 * c3
  BY <1>1, ImageIs DEF Is
<1>4. /\ Image(A, B.y)[1] = e1 * a1 + e2 * b1 + e3 * c1
      /\ Image(A, B.y)[2] = e1 * a2 + e2 * b2 + e3 * c2
      /\ Image(A, B.y)[3] = e1 * a3 + e2 * b3 + e3 * c3
  BY <1>1, ImageIs DEF Is
<1>5. /\ Image(A, B.z)[1] = f1 * a1 + f2 * b1 + f3 * c1
      /\ Image(A, B.z)[2] = f1 * a2 + f2 * b2 + f3 * c2
      /\ Image(A, B.z)[3] = f1 * a3 + f2 * b3 + f3 * c3
  BY <1>1, ImageIs DEF Is
<1> QED BY <1>2, <1>3, <1>4, <1>5 DEF Is
(* The turns about an axis are the powers of a quarter turn. *)
LEMMA TurnsAre ==
  ASSUME NEW axis \in {"x", "y", "z"}
  PROVE  /\ Turns[axis][0] = Unit
         /\ Turns[axis][1] = After(Quarter[axis], Turns[axis][0])
         /\ Turns[axis][2] = After(Quarter[axis], Turns[axis][1])
         /\ Turns[axis][3] = After(Quarter[axis], Turns[axis][2])
<1> DEFINE Q == Quarter[axis]
           g1 == After(Q, Unit)
           g2 == After(Q, g1)
           g3 == After(Q, g2)
           body(g) == [k \in 0 .. 3 |-> IF k = 0 THEN Unit ELSE After(Q, g[k - 1])]
           closed == [k \in 0 .. 3 |-> IF k = 0 THEN Unit ELSE IF k = 1 THEN g1
                                        ELSE IF k = 2 THEN g2 ELSE g3]
           power == CHOOSE g : g = body(g)
<1> HIDE DEF Q, g1, g2, g3
<1>1. closed = body(closed)
  <2>1. closed[0] = Unit /\ closed[1] = g1 /\ closed[2] = g2 /\ closed[3] = g3
    OBVIOUS
  <2> HIDE DEF closed
  <2>2. ASSUME NEW k \in 0 .. 3 PROVE closed[k] = IF k = 0 THEN Unit ELSE After(Q, closed[k - 1])
    <3>1. k = 0 \/ k = 1 \/ k = 2 \/ k = 3
      OBVIOUS
    <3>2. CASE k = 0
      BY <2>1, <3>2
    <3>3. CASE k = 1
      BY <2>1, <3>3 DEF g1
    <3>4. CASE k = 2
      BY <2>1, <3>4 DEF g2
    <3>5. CASE k = 3
      BY <2>1, <3>5 DEF g3
    <3> QED BY <3>1, <3>2, <3>3, <3>4, <3>5
  <2>3. closed = [k \in 0 .. 3 |-> closed[k]]
    BY DEF closed
  <2> QED BY <2>2, <2>3
<1>2. power = body(power)
  <2> HIDE DEF body, closed
  <2> QED BY <1>1
<1>3. Turns[axis] = power
  BY DEF Turns, Q
<1> HIDE DEF power
<1>4. /\ power[0] = Unit /\ power[1] = After(Q, power[0])
      /\ power[2] = After(Q, power[1]) /\ power[3] = After(Q, power[2])
  <2>1. ASSUME NEW k \in 0 .. 3 PROVE power[k] = IF k = 0 THEN Unit ELSE After(Q, power[k - 1])
    BY <1>2
  <2>2. 0 \in 0 .. 3 /\ 1 \in 0 .. 3 /\ 2 \in 0 .. 3 /\ 3 \in 0 .. 3
        /\ 1 - 1 = 0 /\ 2 - 1 = 1 /\ 3 - 1 = 2
    OBVIOUS
  <2> QED BY <2>1, <2>2
<1> QED BY <1>3, <1>4 DEF Q

LEMMA TurnsAboutX ==
  LET T == Turns["x"]
  IN  /\ Is(T[0], 1, 0, 0, 0, 1, 0, 0, 0, 1)
      /\ Is(T[1], 1, 0, 0, 0, 0, 1, 0, -1, 0)
      /\ Is(T[2], 1, 0, 0, 0, -1, 0, 0, 0, -1)
      /\ Is(T[3], 1, 0, 0, 0, 0, -1, 0, 1, 0)
<1> DEFINE T == Turns["x"]
<1>0. /\ T[0] = Unit /\ T[1] = After(Quarter.x, T[0]) /\ T[2] = After(Quarter.x, T[1])
      /\ T[3] = After(Quarter.x, T[2])
  BY TurnsAre
<1> HIDE DEF T
<1>1. Is(T[0], 1, 0, 0, 0, 1, 0, 0, 0, 1)
  BY <1>0, UnitIs
<1>2. Is(T[1], 1, 0, 0, 0, 0, 1, 0, -1, 0)
  BY <1>0, <1>1, QuarterIs, Product
<1>3. Is(T[2], 1, 0, 0, 0, -1, 0, 0, 0, -1)
  BY <1>0, <1>2, QuarterIs, Product
<1>4. Is(T[3], 1, 0, 0, 0, 0, -1, 0, 1, 0)
  BY <1>0, <1>3, QuarterIs, Product
<1> QED BY <1>1, <1>2, <1>3, <1>4 DEF T

LEMMA TurnsAboutY ==
  LET T == Turns["y"]
  IN  /\ Is(T[0], 1, 0, 0, 0, 1, 0, 0, 0, 1)
      /\ Is(T[1], 0, 0, -1, 0, 1, 0, 1, 0, 0)
      /\ Is(T[2], -1, 0, 0, 0, 1, 0, 0, 0, -1)
      /\ Is(T[3], 0, 0, 1, 0, 1, 0, -1, 0, 0)
<1> DEFINE T == Turns["y"]
<1>0. /\ T[0] = Unit /\ T[1] = After(Quarter.y, T[0]) /\ T[2] = After(Quarter.y, T[1])
      /\ T[3] = After(Quarter.y, T[2])
  BY TurnsAre
<1> HIDE DEF T
<1>1. Is(T[0], 1, 0, 0, 0, 1, 0, 0, 0, 1)
  BY <1>0, UnitIs
<1>2. Is(T[1], 0, 0, -1, 0, 1, 0, 1, 0, 0)
  BY <1>0, <1>1, QuarterIs, Product
<1>3. Is(T[2], -1, 0, 0, 0, 1, 0, 0, 0, -1)
  BY <1>0, <1>2, QuarterIs, Product
<1>4. Is(T[3], 0, 0, 1, 0, 1, 0, -1, 0, 0)
  BY <1>0, <1>3, QuarterIs, Product
<1> QED BY <1>1, <1>2, <1>3, <1>4 DEF T

LEMMA TurnsAboutZ ==
  LET T == Turns["z"]
  IN  /\ Is(T[0], 1, 0, 0, 0, 1, 0, 0, 0, 1)
      /\ Is(T[1], 0, 1, 0, -1, 0, 0, 0, 0, 1)
      /\ Is(T[2], -1, 0, 0, 0, -1, 0, 0, 0, 1)
      /\ Is(T[3], 0, -1, 0, 1, 0, 0, 0, 0, 1)
<1> DEFINE T == Turns["z"]
<1>0. /\ T[0] = Unit /\ T[1] = After(Quarter.z, T[0]) /\ T[2] = After(Quarter.z, T[1])
      /\ T[3] = After(Quarter.z, T[2])
  BY TurnsAre
<1> HIDE DEF T
<1>1. Is(T[0], 1, 0, 0, 0, 1, 0, 0, 0, 1)
  BY <1>0, UnitIs
<1>2. Is(T[1], 0, 1, 0, -1, 0, 0, 0, 0, 1)
  BY <1>0, <1>1, QuarterIs, Product
<1>3. Is(T[2], -1, 0, 0, 0, -1, 0, 0, 0, 1)
  BY <1>0, <1>2, QuarterIs, Product
<1>4. Is(T[3], 0, -1, 0, 1, 0, 0, 0, 0, 1)
  BY <1>0, <1>3, QuarterIs, Product
<1> QED BY <1>1, <1>2, <1>3, <1>4 DEF T

LEMMA Associative ==
  ASSUME NEW A \in Mat, NEW B \in Mat, NEW C \in Mat
  PROVE  After(A, After(B, C)) = After(After(A, B), C)
<1>1. ASSUME NEW v1 \in Int, NEW v2 \in Int, NEW v3 \in Int,
             NEW a1 \in Int, NEW a2 \in Int, NEW a3 \in Int,
             NEW b1 \in Int, NEW b2 \in Int, NEW b3 \in Int,
             NEW c1 \in Int, NEW c2 \in Int, NEW c3 \in Int,
             NEW p \in Int, NEW q \in Int, NEW s \in Int
      PROVE  (v1 * a1 + v2 * b1 + v3 * c1) * p + (v1 * a2 + v2 * b2 + v3 * c2) * q
               + (v1 * a3 + v2 * b3 + v3 * c3) * s
             = v1 * (a1 * p + a2 * q + a3 * s) + v2 * (b1 * p + b2 * q + b3 * s)
               + v3 * (c1 * p + c2 * q + c3 * s)
  OBVIOUS
<1>2. ASSUME NEW v \in Vec
      PROVE  Image(A, Image(B, v)) = Image(After(A, B), v)
  <2>1. Image(B, v) \in Vec /\ After(A, B) \in Mat
    BY ImageIs, AfterIs
  <2>2. Image(A, Image(B, v)) \in Vec /\ Image(After(A, B), v) \in Vec
    BY <2>1, ImageIs
  <2>3. ASSUME NEW i \in 1 .. 3 PROVE Image(A, Image(B, v))[i] = Image(After(A, B), v)[i]
    <3>1. /\ A.x[i] \in Int /\ A.y[i] \in Int /\ A.z[i] \in Int
          /\ \A j \in 1 .. 3 : v[j] \in Int /\ B.x[j] \in Int /\ B.y[j] \in Int /\ B.z[j] \in Int
      BY DEF Mat, Vec
    <3>2. Image(A, Image(B, v))[i]
            = (v[1] * B.x[1] + v[2] * B.y[1] + v[3] * B.z[1]) * A.x[i]
              + (v[1] * B.x[2] + v[2] * B.y[2] + v[3] * B.z[2]) * A.y[i]
              + (v[1] * B.x[3] + v[2] * B.y[3] + v[3] * B.z[3]) * A.z[i]
      BY DEF Image
    <3>3. /\ After(A, B).x[i] = B.x[1] * A.x[i] + B.x[2] * A.y[i] + B.x[3] * A.z[i]
          /\ After(A, B).y[i] = B.y[1] * A.x[i] + B.y[2] * A.y[i] + B.y[3] * A.z[i]
          /\ After(A, B).z[i] = B.z[1] * A.x[i] + B.z[2] * A.y[i] + B.z[3] * A.z[i]
      BY DEF After, Image
    <3>4. Image(After(A, B), v)[i]
            = v[1] * (B.x[1] * A.x[i] + B.x[2] * A.y[i] + B.x[3] * A.z[i])
              + v[2] * (B.y[1] * A.x[i] + B.y[2] * A.y[i] + B.y[3] * A.z[i])
              + v[3] * (B.z[1] * A.x[i] + B.z[2] * A.y[i] + B.z[3] * A.z[i])
      BY <3>3 DEF Image
    <3>5. 1 \in 1 .. 3 /\ 2 \in 1 .. 3 /\ 3 \in 1 .. 3
      OBVIOUS
    <3> QED BY <1>1, <3>1, <3>2, <3>4, <3>5
  <2> QED BY <2>2, <2>3 DEF Vec
<1>3. C.x \in Vec /\ C.y \in Vec /\ C.z \in Vec
  BY DEF Mat
<1>4. /\ After(A, After(B, C)) = [x |-> Image(A, Image(B, C.x)), y |-> Image(A, Image(B, C.y)),
                                   z |-> Image(A, Image(B, C.z))]
      /\ After(After(A, B), C) = [x |-> Image(After(A, B), C.x), y |-> Image(After(A, B), C.y),
                                  z |-> Image(After(A, B), C.z)]
  BY DEF After
<1> QED BY <1>2, <1>3, <1>4

LEMMA Identity ==
  ASSUME NEW A \in Mat
  PROVE  After(Unit, A) = A /\ After(A, Unit) = A
<1>1. ASSUME NEW v \in Vec PROVE Image(Unit, v) = v
  <2>1. Image(Unit, v)[1] = v[1] /\ Image(Unit, v)[2] = v[2] /\ Image(Unit, v)[3] = v[3]
    <3>1. v[1] \in Int /\ v[2] \in Int /\ v[3] \in Int
      BY DEF Vec
    <3>2. Unit \in Mat
      BY UnitIs DEF Is
    <3> QED BY <3>1, <3>2, ImageIs, UnitIs DEF Is
  <2>2. Image(Unit, v) \in Vec
    BY ImageIs, UnitIs DEF Is
  <2>3. \A i \in 1 .. 3 : i = 1 \/ i = 2 \/ i = 3
    OBVIOUS
  <2>4. \A i \in 1 .. 3 : Image(Unit, v)[i] = v[i]
    BY <2>1, <2>3
  <2> QED BY <2>2, <2>4 DEF Vec
<1>2. After(Unit, A) = A
  <2>1. Unit \in Mat /\ A.x \in Vec /\ A.y \in Vec /\ A.z \in Vec
    BY UnitIs DEF Is, Mat
  <2>2. After(Unit, A) \in Mat /\ After(Unit, A).x = A.x /\ After(Unit, A).y = A.y
        /\ After(Unit, A).z = A.z
    BY <1>1, <2>1, AfterIs
  <2> QED BY <2>2 DEF Mat
<1>3. After(A, Unit) = A
  <2>1. /\ A.x[1] \in Int /\ A.x[2] \in Int /\ A.x[3] \in Int
        /\ A.y[1] \in Int /\ A.y[2] \in Int /\ A.y[3] \in Int
        /\ A.z[1] \in Int /\ A.z[2] \in Int /\ A.z[3] \in Int
    BY DEF Mat, Vec
  <2>3. Unit \in Mat /\ Unit.x \in Vec /\ Unit.y \in Vec /\ Unit.z \in Vec
    BY UnitIs DEF Is, Mat
  <2>4. /\ After(A, Unit) \in Mat /\ After(A, Unit).x = Image(A, Unit.x)
        /\ After(A, Unit).y = Image(A, Unit.y) /\ After(A, Unit).z = Image(A, Unit.z)
    BY <2>3, AfterIs
  <2>5. /\ Image(A, Unit.x)[1] = A.x[1] /\ Image(A, Unit.x)[2] = A.x[2] /\ Image(A, Unit.x)[3] = A.x[3]
        /\ Image(A, Unit.y)[1] = A.y[1] /\ Image(A, Unit.y)[2] = A.y[2] /\ Image(A, Unit.y)[3] = A.y[3]
        /\ Image(A, Unit.z)[1] = A.z[1] /\ Image(A, Unit.z)[2] = A.z[2] /\ Image(A, Unit.z)[3] = A.z[3]
    BY <2>1, <2>3, ImageIs, UnitIs DEF Is
  <2> QED BY <2>4, <2>5, MatIs
<1> QED BY <1>2, <1>3

(* Turns about one axis add up. *)
LEMMA QuarterTurns ==
  ASSUME NEW axis \in {"x", "y", "z"}
  PROVE  /\ Quarter[axis] \in Mat
         /\ \A k \in 0 .. 3 : Turns[axis][k] \in Mat
         /\ After(Quarter[axis], Turns[axis][3]) = Turns[axis][0]
<1>1. /\ Turns[axis][0] \in Mat /\ Turns[axis][1] \in Mat /\ Turns[axis][2] \in Mat
      /\ Turns[axis][3] \in Mat /\ Quarter[axis] \in Mat
  BY TurnsAboutX, TurnsAboutY, TurnsAboutZ, QuarterIs DEF Is
<1>2. \A k \in 0 .. 3 : k = 0 \/ k = 1 \/ k = 2 \/ k = 3
  OBVIOUS
<1>3. CASE axis = "x"
  <2>1. Is(After(Quarter.x, Turns["x"][3]), 1, 0, 0, 0, 1, 0, 0, 0, 1)
    BY TurnsAboutX, QuarterIs, Product
  <2>2. After(Quarter.x, Turns["x"][3]) = Turns["x"][0]
    BY <2>1, TurnsAboutX, MatIs DEF Is
  <2> QED BY <1>1, <1>2, <1>3, <2>2
<1>4. CASE axis = "y"
  <2>1. Is(After(Quarter.y, Turns["y"][3]), 1, 0, 0, 0, 1, 0, 0, 0, 1)
    BY TurnsAboutY, QuarterIs, Product
  <2>2. After(Quarter.y, Turns["y"][3]) = Turns["y"][0]
    BY <2>1, TurnsAboutY, MatIs DEF Is
  <2> QED BY <1>1, <1>2, <1>4, <2>2
<1>5. CASE axis = "z"
  <2>1. Is(After(Quarter.z, Turns["z"][3]), 1, 0, 0, 0, 1, 0, 0, 0, 1)
    BY TurnsAboutZ, QuarterIs, Product
  <2>2. After(Quarter.z, Turns["z"][3]) = Turns["z"][0]
    BY <2>1, TurnsAboutZ, MatIs DEF Is
  <2> QED BY <1>1, <1>2, <1>5, <2>2
<1> QED BY <1>3, <1>4, <1>5

LEMMA TurnsAdd ==
  ASSUME NEW axis \in {"x", "y", "z"}, NEW a \in Int, NEW b \in Int
  PROVE  /\ Turn(axis, a) \in Mat
         /\ After(Turn(axis, a), Turn(axis, b)) = Turn(axis, a + b)
<1> DEFINE T == Turns[axis]
           Q == Quarter[axis]
<1>1. /\ T[0] = Unit /\ T[1] = After(Q, T[0]) /\ T[2] = After(Q, T[1]) /\ T[3] = After(Q, T[2])
      /\ After(Q, T[3]) = T[0] /\ Q \in Mat /\ \A k \in 0 .. 3 : T[k] \in Mat
  BY TurnsAre, QuarterTurns
<1> HIDE DEF T, Q
<1>2. ASSUME NEW k \in 0 .. 3 PROVE After(Q, T[k]) = T[(k + 1) % 4]
  <2>1. k = 0 \/ k = 1 \/ k = 2 \/ k = 3
    OBVIOUS
  <2>2. (0 + 1) % 4 = 1 /\ (1 + 1) % 4 = 2 /\ (2 + 1) % 4 = 3 /\ (3 + 1) % 4 = 0
    OBVIOUS
  <2> QED BY <1>1, <2>1, <2>2
<1>3. ASSUME NEW j \in 0 .. 2, NEW k \in 0 .. 3, T[j + 1] = After(Q, T[j]),
             After(T[j], T[k]) = T[(j + k) % 4]
      PROVE  After(T[j + 1], T[k]) = T[(j + 1 + k) % 4]
  <2>1. After(T[j + 1], T[k]) = After(Q, After(T[j], T[k]))
    BY <1>1, <1>3, Associative
  <2>2. (j + k) % 4 \in 0 .. 3 /\ (((j + k) % 4) + 1) % 4 = (j + 1 + k) % 4
    OBVIOUS
  <2> QED BY <1>2, <1>3, <2>1, <2>2
<1>4. ASSUME NEW k \in 0 .. 3
      PROVE  \A j \in 0 .. 3 : After(T[j], T[k]) = T[(j + k) % 4]
  <2>1. After(T[0], T[k]) = T[(0 + k) % 4]
    <3>1. (0 + k) % 4 = k
      OBVIOUS
    <3> QED BY <1>1, <3>1, Identity
  <2>2. After(T[1], T[k]) = T[(1 + k) % 4]
    <3>1. 0 \in 0 .. 2 /\ 0 + 1 = 1
      OBVIOUS
    <3> QED BY <1>1, <1>3, <2>1, <3>1
  <2>3. After(T[2], T[k]) = T[(2 + k) % 4]
    <3>1. 1 \in 0 .. 2 /\ 1 + 1 = 2
      OBVIOUS
    <3> QED BY <1>1, <1>3, <2>2, <3>1
  <2>4. After(T[3], T[k]) = T[(3 + k) % 4]
    <3>1. 2 \in 0 .. 2 /\ 2 + 1 = 3
      OBVIOUS
    <3> QED BY <1>1, <1>3, <2>3, <3>1
  <2>5. \A j \in 0 .. 3 : j = 0 \/ j = 1 \/ j = 2 \/ j = 3
    OBVIOUS
  <2> QED BY <2>1, <2>2, <2>3, <2>4, <2>5
<1>5. a % 4 \in 0 .. 3 /\ b % 4 \in 0 .. 3 /\ ((a % 4) + (b % 4)) % 4 = (a + b) % 4
  OBVIOUS
<1>6. Turn(axis, a) = T[a % 4] /\ Turn(axis, b) = T[b % 4] /\ Turn(axis, a + b) = T[(a + b) % 4]
  BY DEF Turn, T
<1> QED BY <1>1, <1>4, <1>5, <1>6

(* A tilt backwards is one forwards, between two half turns about z; a tilt  *)
(* about x is one about y, between two quarter turns.                        *)
LEMMA Tilts ==
  ASSUME NEW b \in Int
  PROVE  /\ After(Turn("z", 2), After(Turn("y", b), Turn("z", 2))) = Turn("y", -b)
         /\ After(Turn("z", -1), After(Turn("y", b), Turn("z", 1))) = Turn("x", b)
<1> DEFINE X == Turns["x"]
           Y == Turns["y"]
           Z == Turns["z"]
<1>1. /\ Is(X[0], 1, 0, 0, 0, 1, 0, 0, 0, 1) /\ Is(X[1], 1, 0, 0, 0, 0, 1, 0, -1, 0)
      /\ Is(X[2], 1, 0, 0, 0, -1, 0, 0, 0, -1) /\ Is(X[3], 1, 0, 0, 0, 0, -1, 0, 1, 0)
  BY TurnsAboutX
<1>2. /\ Is(Y[0], 1, 0, 0, 0, 1, 0, 0, 0, 1) /\ Is(Y[1], 0, 0, -1, 0, 1, 0, 1, 0, 0)
      /\ Is(Y[2], -1, 0, 0, 0, 1, 0, 0, 0, -1) /\ Is(Y[3], 0, 0, 1, 0, 1, 0, -1, 0, 0)
  BY TurnsAboutY
<1>3. /\ Is(Z[1], 0, 1, 0, -1, 0, 0, 0, 0, 1)
      /\ Is(Z[2], -1, 0, 0, 0, -1, 0, 0, 0, 1) /\ Is(Z[3], 0, -1, 0, 1, 0, 0, 0, 0, 1)
  BY TurnsAboutZ
<1> HIDE DEF X, Y, Z
<1>3a. Is(Z[1], 0, 1, 0, -1, 0, 0, 0, 0, 1)
  BY <1>3
<1>3b. Is(Z[2], -1, 0, 0, 0, -1, 0, 0, 0, 1)
  BY <1>3
<1>3c. Is(Z[3], 0, -1, 0, 1, 0, 0, 0, 0, 1)
  BY <1>3
<1>8. After(Z[2], After(Y[0], Z[2])) = Y[0] /\ After(Z[3], After(Y[0], Z[1])) = X[0]
  <2>1. Is(Y[0], 1, 0, 0, 0, 1, 0, 0, 0, 1) /\ Is(Y[0], 1, 0, 0, 0, 1, 0, 0, 0, 1) /\ Is(X[0], 1, 0, 0, 0, 1, 0, 0, 0, 1)
    BY <1>1, <1>2
  <2>2. Is(After(Y[0], Z[2]), -1, 0, 0, 0, -1, 0, 0, 0, 1)
    BY <1>3b, <2>1, Product
  <2>3. Is(After(Z[2], After(Y[0], Z[2])), 1, 0, 0, 0, 1, 0, 0, 0, 1)
    BY <1>3b, <2>2, Product
  <2>4. Is(After(Y[0], Z[1]), 0, 1, 0, -1, 0, 0, 0, 0, 1)
    BY <1>3a, <2>1, Product
  <2>5. Is(After(Z[3], After(Y[0], Z[1])), 1, 0, 0, 0, 1, 0, 0, 0, 1)
    BY <1>3c, <2>4, Product
  <2> QED BY <2>1, <2>3, <2>5, SameIs
<1>9. After(Z[2], After(Y[1], Z[2])) = Y[3] /\ After(Z[3], After(Y[1], Z[1])) = X[1]
  <2>1. Is(Y[1], 0, 0, -1, 0, 1, 0, 1, 0, 0) /\ Is(Y[3], 0, 0, 1, 0, 1, 0, -1, 0, 0) /\ Is(X[1], 1, 0, 0, 0, 0, 1, 0, -1, 0)
    BY <1>1, <1>2
  <2>2. Is(After(Y[1], Z[2]), 0, 0, 1, 0, -1, 0, 1, 0, 0)
    BY <1>3b, <2>1, Product
  <2>3. Is(After(Z[2], After(Y[1], Z[2])), 0, 0, 1, 0, 1, 0, -1, 0, 0)
    BY <1>3b, <2>2, Product
  <2>4. Is(After(Y[1], Z[1]), 0, 1, 0, 0, 0, 1, 1, 0, 0)
    BY <1>3a, <2>1, Product
  <2>5. Is(After(Z[3], After(Y[1], Z[1])), 1, 0, 0, 0, 0, 1, 0, -1, 0)
    BY <1>3c, <2>4, Product
  <2> QED BY <2>1, <2>3, <2>5, SameIs
<1>10. After(Z[2], After(Y[2], Z[2])) = Y[2] /\ After(Z[3], After(Y[2], Z[1])) = X[2]
  <2>1. Is(Y[2], -1, 0, 0, 0, 1, 0, 0, 0, -1) /\ Is(Y[2], -1, 0, 0, 0, 1, 0, 0, 0, -1) /\ Is(X[2], 1, 0, 0, 0, -1, 0, 0, 0, -1)
    BY <1>1, <1>2
  <2>2. Is(After(Y[2], Z[2]), 1, 0, 0, 0, -1, 0, 0, 0, -1)
    BY <1>3b, <2>1, Product
  <2>3. Is(After(Z[2], After(Y[2], Z[2])), -1, 0, 0, 0, 1, 0, 0, 0, -1)
    BY <1>3b, <2>2, Product
  <2>4. Is(After(Y[2], Z[1]), 0, 1, 0, 1, 0, 0, 0, 0, -1)
    BY <1>3a, <2>1, Product
  <2>5. Is(After(Z[3], After(Y[2], Z[1])), 1, 0, 0, 0, -1, 0, 0, 0, -1)
    BY <1>3c, <2>4, Product
  <2> QED BY <2>1, <2>3, <2>5, SameIs
<1>11. After(Z[2], After(Y[3], Z[2])) = Y[1] /\ After(Z[3], After(Y[3], Z[1])) = X[3]
  <2>1. Is(Y[3], 0, 0, 1, 0, 1, 0, -1, 0, 0) /\ Is(Y[1], 0, 0, -1, 0, 1, 0, 1, 0, 0) /\ Is(X[3], 1, 0, 0, 0, 0, -1, 0, 1, 0)
    BY <1>1, <1>2
  <2>2. Is(After(Y[3], Z[2]), 0, 0, -1, 0, -1, 0, -1, 0, 0)
    BY <1>3b, <2>1, Product
  <2>3. Is(After(Z[2], After(Y[3], Z[2])), 0, 0, -1, 0, 1, 0, 1, 0, 0)
    BY <1>3b, <2>2, Product
  <2>4. Is(After(Y[3], Z[1]), 0, 1, 0, 0, 0, -1, -1, 0, 0)
    BY <1>3a, <2>1, Product
  <2>5. Is(After(Z[3], After(Y[3], Z[1])), 1, 0, 0, 0, 0, -1, 0, 1, 0)
    BY <1>3c, <2>4, Product
  <2> QED BY <2>1, <2>3, <2>5, SameIs
<1>12. /\ b % 4 = 0 => (-b) % 4 = 0
       /\ b % 4 = 1 => (-b) % 4 = 3
       /\ b % 4 = 2 => (-b) % 4 = 2
       /\ b % 4 = 3 => (-b) % 4 = 1
       /\ b % 4 = 0 \/ b % 4 = 1 \/ b % 4 = 2 \/ b % 4 = 3
  OBVIOUS
<1>12a. 2 % 4 = 2 /\ (-1) % 4 = 3 /\ 1 % 4 = 1
  <2>2. 1 % 4 = 1 /\ 2 % 4 = 2
    OBVIOUS
  <2>3. (-1) % 4 = 3
    <3>1. \A c \in Int : c + 1 = 0 => c % 4 = 3
      OBVIOUS
    <3>2. -1 \in Int /\ -1 + 1 = 0
      OBVIOUS
    <3> QED BY <3>1, <3>2, Zenon
  <2> QED BY <2>2, <2>3
<1>13. /\ Turn("z", 2) = Z[2] /\ Turn("z", -1) = Z[3] /\ Turn("z", 1) = Z[1]
       /\ Turn("y", b) = Y[b % 4] /\ Turn("y", -b) = Y[(-b) % 4] /\ Turn("x", b) = X[b % 4]
  BY <1>12a DEF Turn, X, Y, Z
<1> QED BY <1>8, <1>9, <1>10, <1>11, <1>12, <1>13

(* Three angles: turns about z before and after join the first and the last; *)
(* the sign of the tilt can be traded for half turns; without a tilt the     *)
(* first and the last are one; a tilt about x is one about y.                *)
LEMMA EulerTurned ==
  ASSUME NEW axis \in {"x", "y"}, NEW alpha \in Int, NEW beta \in Int, NEW gamma \in Int,
         NEW a \in Int, NEW c \in Int
  PROVE  After(Turn("z", c), After(Euler(axis, alpha, beta, gamma), Turn("z", a)))
           = Euler(axis, alpha + a, beta, gamma + c)
<1> DEFINE Z(n) == Turn("z", n)
           T == Turn(axis, beta)
<1>1. T \in Mat /\ \A n \in Int : Z(n) \in Mat
  BY TurnsAdd
<1>2. \A m, n \in Int : After(Z(m), Z(n)) = Z(m + n)
  BY TurnsAdd
<1>3. Euler(axis, alpha, beta, gamma) = After(Z(gamma), After(T, Z(alpha)))
      /\ Euler(axis, alpha + a, beta, gamma + c) = After(Z(gamma + c), After(T, Z(alpha + a)))
  BY DEF Euler
<1> HIDE DEF Z, T
<1>4. After(T, Z(alpha)) \in Mat
  BY <1>1, AfterIs
<1>6. After(After(Z(gamma), After(T, Z(alpha))), Z(a)) = After(Z(gamma), After(T, Z(alpha + a)))
  <2>1. After(After(T, Z(alpha)), Z(a)) = After(T, After(Z(alpha), Z(a)))
    BY <1>1, Associative
  <2>2. After(After(T, Z(alpha)), Z(a)) = After(T, Z(alpha + a))
    BY <1>2, <2>1
  <2> QED BY <1>1, <1>4, <2>2, Associative
<1>7. After(Z(c), After(Z(gamma), After(T, Z(alpha + a)))) = After(Z(gamma + c), After(T, Z(alpha + a)))
  <2>1. After(T, Z(alpha + a)) \in Mat /\ c + gamma = gamma + c
    BY <1>1, AfterIs
  <2>2. After(Z(c), Z(gamma)) = Z(gamma + c)
    BY <1>2, <2>1
  <2> QED BY <1>1, <2>1, <2>2, Associative
<1> QED BY <1>3, <1>6, <1>7 DEF Z

LEMMA EulerTilted ==
  ASSUME NEW alpha \in Int, NEW beta \in Int, NEW gamma \in Int
  PROVE  /\ Euler("y", alpha + 2, beta, gamma + 2) = Euler("y", alpha, -beta, gamma)
         /\ Euler("y", alpha + 1, beta, gamma - 1) = Euler("x", alpha, beta, gamma)
         /\ Euler("y", alpha + gamma, 0, 0) = Euler("y", alpha, 0, gamma)
         /\ Euler("y", 0, beta, 0) = Turn("y", beta) /\ Euler("x", 0, beta, 0) = Turn("x", beta)
<1>1. \A axis \in {"x", "y", "z"} : \A n \in Int : Turn(axis, n) \in Mat
  BY TurnsAdd
<1>2. \A axis \in {"x", "y", "z"} : Turn(axis, 0) = Unit
  <2>1. 0 % 4 = 0
    OBVIOUS
  <2> QED BY <2>1, TurnsAre DEF Turn
<1>3. \A axis \in {"x", "y"}, b \in Int : Euler(axis, 0, b, 0) = Turn(axis, b)
  BY <1>1, <1>2, Identity DEF Euler
<1>4. \A b \in Int : /\ Euler("y", 2, b, 2) = Turn("y", -b) /\ -b \in Int
                     /\ Euler("y", 1, b, -1) = Turn("x", b)
  BY Tilts DEF Euler
<1>5. ASSUME NEW axis \in {"x", "y"}, NEW b \in Int, NEW a0 \in Int, NEW c0 \in Int
      PROVE  After(Turn("z", gamma), After(Euler(axis, a0, b, c0), Turn("z", alpha)))
               = Euler(axis, a0 + alpha, b, c0 + gamma)
  <2>1. \A x, y, z, u, v \in Int :
          After(Turn("z", v), After(Euler(axis, x, y, z), Turn("z", u)))
            = Euler(axis, x + u, y, z + v)
    BY EulerTurned
  <2> QED BY <2>1
<1>6. Euler("y", alpha + 2, beta, gamma + 2) = Euler("y", alpha, -beta, gamma)
  <2>1. After(Turn("z", gamma), After(Euler("y", 2, beta, 2), Turn("z", alpha)))
          = Euler("y", 2 + alpha, beta, 2 + gamma)
    BY <1>5
  <2>2. After(Turn("z", gamma), After(Turn("y", -beta), Turn("z", alpha)))
          = Euler("y", alpha, -beta, gamma)
    BY DEF Euler
  <2>3. 2 + alpha = alpha + 2 /\ 2 + gamma = gamma + 2
    OBVIOUS
  <2> QED BY <1>4, <2>1, <2>2, <2>3
<1>7. Euler("y", alpha + 1, beta, gamma - 1) = Euler("x", alpha, beta, gamma)
  <2>1. After(Turn("z", gamma), After(Euler("y", 1, beta, -1), Turn("z", alpha)))
          = Euler("y", 1 + alpha, beta, -1 + gamma)
    BY <1>5, -1 \in Int
  <2>2. After(Turn("z", gamma), After(Turn("x", beta), Turn("z", alpha)))
          = Euler("x", alpha, beta, gamma)
    BY DEF Euler
  <2>3. 1 + alpha = alpha + 1 /\ -1 + gamma = gamma - 1
    OBVIOUS
  <2> QED BY <1>4, <2>1, <2>2, <2>3
<1>8. Euler("y", alpha + gamma, 0, 0) = Euler("y", alpha, 0, gamma)
  <2>1. After(Turn("z", gamma), Turn("z", alpha)) = Turn("z", gamma + alpha)
    BY TurnsAdd
  <2>2. gamma + alpha = alpha + gamma /\ alpha + gamma \in Int
    OBVIOUS
  <2>3. \A n \in Int : After(Turn("y", 0), Turn("z", n)) = Turn("z", n)
    BY <1>1, <1>2, Identity
  <2>4. Euler("y", alpha + gamma, 0, 0) = Turn("z", alpha + gamma)
    BY <1>1, <1>2, <2>2, <2>3, Identity DEF Euler
  <2>5. Euler("y", alpha, 0, gamma) = Turn("z", gamma + alpha)
    BY <2>1, <2>3 DEF Euler
  <2> QED BY <2>2, <2>4, <2>5
<1> QED BY <1>3, <1>6, <1>7, <1>8

(* Angles that differ by whole turns. *)
LEMMA EulerWhole ==
  ASSUME NEW axis, NEW beta, NEW alpha \in Int, NEW gamma \in Int, NEW a \in Int, NEW c \in Int,
         alpha % 4 = a % 4, gamma % 4 = c % 4
  PROVE  Euler(axis, alpha, beta, gamma) = Euler(axis, a, beta, c)
BY DEF Euler, Turn

(* The angles that are kept make the rotation of those that are given. *)
LEMMA NormalRight ==
  ASSUME NEW alpha \in Int, NEW beta \in Int, NEW gamma \in Int
  PROVE  LET n == Normal(alpha, beta, gamma)
         IN  /\ Euler("y", n.alpha, n.beta, n.gamma) = Euler("y", alpha, beta, gamma)
             /\ n.alpha \in Int /\ n.beta \in Nat /\ n.gamma \in Int
<1>1. CASE beta < 0
  <2>1. Normal(alpha, beta, gamma)
          = [alpha |-> HalfTurned(alpha), beta |-> -beta, gamma |-> HalfTurned(gamma)]
    BY <1>1 DEF Normal
  <2>2. ASSUME NEW a \in Int PROVE HalfTurned(a) \in Int /\ HalfTurned(a) % 4 = (a + 2) % 4
    <3>1. CASE a > 0
      <4>1. (a - 2) % 4 = (a + 2) % 4
        OBVIOUS
      <4> QED BY <3>1, <4>1 DEF HalfTurned
    <3>2. CASE ~ (a > 0)
      BY <3>2 DEF HalfTurned
    <3> QED BY <3>1, <3>2
  <2>3. Euler("y", HalfTurned(alpha), -beta, HalfTurned(gamma))
          = Euler("y", alpha + 2, -beta, gamma + 2)
    BY <2>2, EulerWhole
  <2>4. -beta \in Nat /\ -(-beta) = beta
    BY <1>1
  <2>5. Euler("y", alpha + 2, -beta, gamma + 2) = Euler("y", alpha, beta, gamma)
    BY <2>4, EulerTilted
  <2> QED BY <2>1, <2>2, <2>3, <2>4, <2>5
<1>2. CASE beta = 0
  <2>1. Normal(alpha, beta, gamma) = [alpha |-> alpha + gamma, beta |-> 0, gamma |-> 0]
    BY <1>2 DEF Normal
  <2>2. Euler("y", alpha + gamma, 0, 0) = Euler("y", alpha, 0, gamma)
    BY EulerTilted
  <2> QED BY <1>2, <2>1, <2>2
<1>3. CASE beta > 0
  BY <1>3 DEF Normal
<1> QED BY <1>1, <1>2, <1>3

(* Whatever convention angles are given in, those that are kept make the     *)
(* rotation of space that was asked for.                                     *)
LEMMA SetAnglesRight ==
  ASSUME Kept, NEW alpha \in Int, NEW beta \in Int, NEW gamma \in Int,
         SetAngles(alpha, beta, gamma), asked' = Euler("y", alpha, beta, gamma)
  PROVE  AnglesRight'
<1> DEFINE b == beta * r.no_cs_phase
           n == Normal(alpha, b, gamma)
<1>1. r.no_cs_phase \in {-1, 1}
  BY DEF Kept
<1>2. b \in Int /\ (r.no_cs_phase = 1 => b = beta) /\ (r.no_cs_phase # 1 => b = -beta)
  BY <1>1
<1> HIDE DEF b
<1>3. Euler("y", n.alpha, n.beta, n.gamma) = Euler("y", alpha, b, gamma)
  BY <1>2, NormalRight
<1>4. /\ r'.alpha = n.alpha /\ r'.beta = n.beta /\ r'.gamma = n.gamma
      /\ r'.no_cs_phase = r.no_cs_phase
  <2> DEFINE ea == (-n.alpha) % 4  eg == (-n.gamma) % 4
             flag == (IF n.alpha # 0 THEN 1 ELSE 0) + (IF n.gamma # 0 THEN 2 ELSE 0)
             pb == IF n.beta # 0 THEN n.beta ELSE r.plm_beta
  <2>1. r' = [r EXCEPT !.alpha = n.alpha, !.beta = n.beta, !.gamma = n.gamma,
                       !.eia = ea, !.eig = eg, !.flag_alpha_gamma = flag, !.plm_beta = pb]
    BY DEF SetAngles, b
  <2> HIDE DEF ea, eg, flag, pb, n
  <2>2. r \in [live : BOOLEAN, lmax : Nat, mmax : Nat, no_cs_phase : {-1, 1},
               alpha : Int, beta : Nat, gamma : Int, eia : {Zero} \cup 0 .. 3,
               eig : {Zero} \cup 0 .. 3, flag_alpha_gamma : 0 .. 3, plm_beta : Int]
    BY DEF Kept
  <2> QED BY <2>1, <2>2
<1>5. Euler("y", alpha, b, gamma) = Phased(asked)'
  <2>1. CASE r.no_cs_phase = 1
    BY <1>2, <1>4, <2>1 DEF Phased
  <2>2. CASE r.no_cs_phase # 1
    <3>1. Phased(asked)' = After(Turn("z", 2), After(asked', Turn("z", 2)))
      BY <1>4, <2>2 DEF Phased
    <3>2. \A u, v \in Int :
            After(Turn("z", v), After(Euler("y", alpha, beta, gamma), Turn("z", u)))
              = Euler("y", alpha + u, beta, gamma + v)
      BY EulerTurned
    <3>3. After(Turn("z", 2), After(asked', Turn("z", 2))) = Euler("y", alpha + 2, beta, gamma + 2)
      BY <3>2
    <3>4. Euler("y", alpha + 2, beta, gamma + 2) = Euler("y", alpha, -beta, gamma)
      BY EulerTilted
    <3> QED BY <1>2, <2>2, <3>1, <3>3, <3>4
  <2> QED BY <2>1, <2>2
<1>6. Euler("y", r'.alpha, r'.beta, r'.gamma) = Euler("y", alpha, b, gamma)
  BY <1>3, <1>4
<1>7. Euler("y", r.alpha, r.beta, r.gamma)' = Euler("y", r'.alpha, r'.beta, r'.gamma)
  BY DEF Euler
<1> QED BY <1>5, <1>6, <1>7 DEF AnglesRight

(* An axis of space and an angle about it, in three angles. *)
LEMMA AboutAxis ==
  ASSUME Kept, NEW theta \in Angle, NEW axis \in {"x", "y", "z"}, NEW along \in {-1, 1},
         shtns_rotation_set_angle_axis(theta, axis, along)
  PROVE  AnglesRight'
<1> DEFINE size == IF theta < 0 THEN -theta ELSE theta
           beta == IF size <= 2 THEN size ELSE 4 - size
           sign == IF theta = 0 THEN 0 ELSE IF (theta > 0) = (size <= 2) THEN along ELSE -along
<1>1. theta \in Int /\ -3 <= theta /\ theta <= 3
  BY RotationAssumption
<1>2. /\ beta \in Nat /\ sign \in {-1, 0, 1} /\ along * theta \in Int
      /\ sign = 0 => beta = 0 /\ along * theta = 0
      /\ sign = 1 => beta % 4 = (along * theta) % 4
      /\ sign = -1 => (-beta) % 4 = (along * theta) % 4
  <2>1. theta = -3 \/ theta = -2 \/ theta = -1 \/ theta = 0 \/ theta = 1 \/ theta = 2 \/ theta = 3
    BY <1>1
  <2>2. along = 1 \/ along = -1
    OBVIOUS
  <2> QED BY <2>1, <2>2
<1>3. /\ asked' = Turn(axis, along * theta)
      /\ \/ axis = "z" /\ SetAngles(along * theta, 0, 0)
         \/ axis = "x" /\ SetAngles(sign, beta, -sign)
         \/ axis = "y" /\ (IF sign < 0 THEN SetAngles(2, beta, 2) ELSE SetAngles(0, beta, 0))
  BY DEF shtns_rotation_set_angle_axis
<1> HIDE DEF beta, sign
<1> DEFINE turn == along * theta
<1> HIDE DEF turn
<1>4. /\ beta \in Int /\ -beta \in Int /\ sign \in Int /\ -sign \in Int /\ turn \in Int
      /\ 0 \in Int /\ 2 \in Int
  BY <1>2 DEF turn
<1>5. \A a, b, c \in Int :
        SetAngles(a, b, c) /\ Euler("y", a, b, c) = Turn(axis, turn) => AnglesRight'
  BY <1>3, SetAnglesRight DEF turn
<1>6. /\ sign = 0 => Turn(axis, beta) = Turn(axis, turn)
      /\ sign = 1 => Turn(axis, beta) = Turn(axis, turn)
      /\ sign = -1 => Turn(axis, -beta) = Turn(axis, turn)
  BY <1>2 DEF Turn, turn
<1>7. /\ Euler("y", 0, beta, 0) = Turn("y", beta) /\ Euler("x", 0, beta, 0) = Turn("x", beta)
      /\ Euler("x", 0, -beta, 0) = Turn("x", -beta) /\ Euler("y", 0, -beta, 0) = Turn("y", -beta)
      /\ Euler("y", 0 + 2, beta, 0 + 2) = Euler("y", 0, -beta, 0)
      /\ Euler("y", 0 + 1, beta, 0 - 1) = Euler("x", 0, beta, 0)
      /\ Euler("y", 0 + 1, -beta, 0 - 1) = Euler("x", 0, -beta, 0)
  <2>1. ASSUME NEW b \in Int
        PROVE  /\ Euler("y", 0, b, 0) = Turn("y", b) /\ Euler("x", 0, b, 0) = Turn("x", b)
               /\ Euler("y", 0 + 2, b, 0 + 2) = Euler("y", 0, -b, 0)
               /\ Euler("y", 0 + 1, b, 0 - 1) = Euler("x", 0, b, 0)
    BY EulerTilted, 0 \in Int
  <2> QED BY <1>4, <2>1
<1>8. CASE axis = "z"
  <2>1. Euler("y", turn, 0, 0) = Turn("z", turn)
    <3>1. Turn("y", 0) = Unit /\ Turn("z", 0) = Unit
      <4>1. 0 % 4 = 0
        OBVIOUS
      <4> QED BY <4>1, TurnsAre DEF Turn
    <3>2. Turn("z", turn) \in Mat
      BY <1>4, TurnsAdd
    <3> QED BY <3>1, <3>2, Identity DEF Euler
  <2>2. SetAngles(turn, 0, 0)
    BY <1>3, <1>8 DEF turn
  <2> QED BY <1>4, <1>5, <1>8, <2>1, <2>2
<1>9. CASE axis = "x"
  <2>1. SetAngles(sign, beta, -sign)
    BY <1>3, <1>9
  <2>2. Euler("y", sign, beta, -sign) = Turn("x", turn)
    <3>1. CASE sign = 0
      <4>1. -sign = 0 /\ sign = 0 /\ beta = 0
        <5>1. \A x \in Int : x + (-x) = 0
          OBVIOUS
        <5>2. \A y \in Int : 0 + y = 0 => y = 0
          OBVIOUS
        <5> QED BY <1>2, <1>4, <3>1, <5>1, <5>2
      <4>2. Turn("y", 0) = Turn("x", 0)
        <5>1. 0 % 4 = 0
          OBVIOUS
        <5> QED BY <5>1, TurnsAre DEF Turn
      <4> QED BY <1>6, <1>7, <1>9, <4>1, <4>2
    <3>2. CASE sign = 1
      <4>1. 0 + 1 = sign /\ 0 - 1 = -sign
        BY <3>2
      <4>2. Euler("y", sign, beta, -sign) = Euler("y", 0 + 1, beta, 0 - 1)
        BY <4>1
      <4> QED BY <1>6, <1>7, <1>9, <3>2, <4>2
    <3>3. CASE sign = -1
      <4>1. Euler("y", sign, beta, -sign) = Euler("y", 1 + 2, beta, -1 + 2)
        <5>1. sign % 4 = (1 + 2) % 4 /\ (-sign) % 4 = (-1 + 2) % 4
          <6>1. sign + 1 = 0 /\ sign \in Int
            BY <1>4, <3>3
          <6>2. \A x \in Int : x + 1 = 0 => x % 4 = (1 + 2) % 4 /\ (-x) % 4 = (-1 + 2) % 4
            OBVIOUS
          <6> QED BY <6>1, <6>2
        <5>2. 1 + 2 \in Int /\ -1 + 2 \in Int
          OBVIOUS
        <5> QED BY <1>4, <5>1, <5>2, EulerWhole
      <4>2. \A a, b, c \in Int : Euler("y", a + 2, b, c + 2) = Euler("y", a, -b, c)
        BY EulerTilted
      <4>3. Euler("y", 1 + 2, beta, -1 + 2) = Euler("y", 1, -beta, -1)
        BY <1>4, <4>2, 1 \in Int, -1 \in Int
      <4>4. 0 + 1 = 1 /\ 0 - 1 = -1
        OBVIOUS
      <4>5. Euler("y", 1, -beta, -1) = Euler("y", 0 + 1, -beta, 0 - 1)
        BY <4>4
      <4> QED BY <1>6, <1>7, <1>9, <3>3, <4>1, <4>3, <4>5
    <3> QED BY <1>2, <3>1, <3>2, <3>3
  <2> QED BY <1>4, <1>5, <1>9, <2>1, <2>2
<1>10. CASE axis = "y"
  <2>1. CASE sign < 0
    <3>1. sign = -1
      BY <1>2, <2>1
    <3>2. 0 + 2 = 2
      OBVIOUS
    <3>3. Euler("y", 2, beta, 2) = Turn("y", turn)
      BY <1>6, <1>7, <1>10, <3>1, <3>2
    <3> QED BY <1>3, <1>4, <1>5, <1>10, <2>1, <3>3
  <2>2. CASE ~ (sign < 0)
    <3>1. sign = 0 \/ sign = 1
      BY <1>2, <2>2
    <3>2. Euler("y", 0, beta, 0) = Turn("y", turn)
      BY <1>6, <1>7, <1>10, <3>1
    <3> QED BY <1>3, <1>4, <1>5, <1>10, <2>2, <3>2
  <2> QED BY <2>1, <2>2
<1> QED BY <1>8, <1>9, <1>10

LEMMA AnglesStay ==
  ASSUME AnglesRight, UNCHANGED <<r, asked>>
  PROVE  AnglesRight'
BY DEF AnglesRight, Euler, Phased

(* The angles that are kept make the rotation of space that was asked for.   *)
THEOREM AnglesAlwaysRight == Spec => []AnglesRight
<1>1. Init => AnglesRight
  BY DEF Init, AnglesRight, NoRotation
<1>2. RotInv /\ AnglesRight /\ [Next]_vars => AnglesRight'
  <2> SUFFICES ASSUME RotInv, AnglesRight, [Next]_vars PROVE AnglesRight'
    OBVIOUS
  <2>1. Kept
    BY DEF RotInv
  <2>2. ASSUME NEW size \in Size, NEW phase \in {-1, 1}, shtns_rotation_create(size, phase)
        PROVE  AnglesRight'
    <3>1. asked' = Unit
      BY <2>2 DEF shtns_rotation_create
    <3>2. r' = [live |-> TRUE, lmax |-> size.lmax, mmax |-> size.mmax, no_cs_phase |-> phase,
                alpha |-> 0, beta |-> 0, gamma |-> 0, eia |-> Zero, eig |-> Zero,
                flag_alpha_gamma |-> 0, plm_beta |-> NotComputed]
      BY <2>2 DEF shtns_rotation_create, NoRotation
    <3>3. r'.alpha = 0 /\ r'.beta = 0 /\ r'.gamma = 0
      BY <3>2
    <3>4. Unit \in Mat
      BY UnitIs DEF Is
    <3>5. Turn("y", 0) = Unit /\ Turn("z", 0) = Unit
      <4>1. 0 % 4 = 0
        OBVIOUS
      <4> QED BY <4>1, TurnsAre DEF Turn
    <3>6. Euler("y", 0, 0, 0) = Unit
      BY <3>4, <3>5, Identity DEF Euler
    <3>7. Phased(asked)' = Unit
      <4>1. Turn("z", 2) \in Mat /\ After(Turn("z", 2), Turn("z", 2)) = Turn("z", 4)
        <5>1. 2 \in Int /\ 2 + 2 = 4
          OBVIOUS
        <5> QED BY <5>1, TurnsAdd
      <4>2. Turn("z", 4) = Turn("z", 0)
        <5>1. 4 % 4 = 0 % 4
          OBVIOUS
        <5> QED BY <5>1 DEF Turn
      <4> QED BY <3>1, <3>5, <4>1, <4>2, Identity DEF Phased
    <3>8. Euler("y", r.alpha, r.beta, r.gamma)' = Euler("y", 0, 0, 0)
      BY <3>3 DEF Euler
    <3> QED BY <3>6, <3>7, <3>8 DEF AnglesRight
  <2>3. CASE shtns_rotation_destroy
    BY <2>3 DEF shtns_rotation_destroy, NoRotation, AnglesRight
  <2>4. ASSUME NEW alpha \in Angle, NEW gamma \in Angle, NEW beta \in Tilt,
               \/ shtns_rotation_set_angles_ZYZ(alpha, beta, gamma)
               \/ shtns_rotation_set_angles_ZXZ(alpha, beta, gamma)
        PROVE  AnglesRight'
    <3>1. alpha \in Int /\ beta \in Int /\ gamma \in Int /\ alpha + 1 \in Int /\ gamma - 1 \in Int
      BY RotationAssumption
    <3>2. CASE shtns_rotation_set_angles_ZYZ(alpha, beta, gamma)
      BY <2>1, <3>1, <3>2, SetAnglesRight DEF shtns_rotation_set_angles_ZYZ
    <3>3. CASE shtns_rotation_set_angles_ZXZ(alpha, beta, gamma)
      <4>1. Euler("y", alpha + 1, beta, gamma - 1) = Euler("x", alpha, beta, gamma)
        BY <3>1, EulerTilted
      <4>2. /\ SetAngles(alpha + 1, beta, gamma - 1)
            /\ asked' = Euler("y", alpha + 1, beta, gamma - 1)
        BY <3>3, <4>1 DEF shtns_rotation_set_angles_ZXZ
      <4> QED BY <2>1, <3>1, <4>2, SetAnglesRight
    <3> QED BY <2>4, <3>2, <3>3
  <2>5. ASSUME NEW inplace \in BOOLEAN,
               shtns_rotation_apply_real(inplace) \/ shtns_rotation_apply_cplx(inplace)
        PROVE  UNCHANGED <<r, asked>>
    BY <2>5 DEF shtns_rotation_apply_real, shtns_rotation_apply_cplx, Apply
  <2>6. ASSUME NEW t \in Thread, Take(t) \/ Gather(t) \/ Scatter(t)
        PROVE  UNCHANGED <<r, asked>>
    BY <2>6 DEF Take, Gather, Scatter
  <2>7. EndRegion => UNCHANGED <<r, asked>>
    BY DEF EndRegion
  <2>8. UNCHANGED vars => UNCHANGED <<r, asked>>
    BY DEF vars
  <2> QED BY <2>1, <2>2, <2>3, <2>4, <2>5, <2>6, <2>7, <2>8, AboutAxis, AnglesStay DEF Next
<1> QED BY <1>1, <1>2, RotationInvariant, PTL DEF Spec
=============================================================================
