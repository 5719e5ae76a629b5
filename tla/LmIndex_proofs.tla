-------------------------- MODULE LmIndex_proofs --------------------------
(* Facts about the index formulas of LmIndex, for every truncation. The      *)
(* argument: im * (im + 1) is even, so the halvings of the formulas are      *)
(* exact and LiM is affine in the triangular number of im. The positions of  *)
(* a complex array are met once each, and those of a real one are told apart *)
(* by the square root of im_from_lm.                                         *)
EXTENDS LmIndex, WellFoundedInduction, TLAPS

(* A set of naturals has a least one. *)
LEMMA LeastNatural ==
  ASSUME NEW S \in SUBSET Nat, S # {}
  PROVE  \E x \in S : \A y \in S : x <= y
<1>1. PICK x \in S : \A y \in S : ~ (<<y, x>> \in OpToRel(<, Nat))
  BY NatLessThanWellFounded, WFMin
<1>2. \A y \in S : ~ (y < x)
  BY <1>1 DEF OpToRel
<1>3. \A y \in S : x <= y
  BY <1>2
<1> QED BY <1>3

(* The triangular numbers, which every formula of LmIndex hides. *)
Triangle(n) == (n * (n + 1)) \div 2

(* The product of two consecutive integers is even. *)
LEMMA TriangleExact ==
  ASSUME NEW n \in Nat
  PROVE  Triangle(n) \in Nat /\ n * (n + 1) = 2 * Triangle(n)
<1> DEFINE q == n \div 2
<1>1. q \in Nat /\ (n = 2 * q \/ n = 2 * q + 1)
  OBVIOUS
<1> HIDE DEF q
<1>2. CASE n = 2 * q
  <2>1. n * (n + 1) = 2 * (q * (2 * q + 1))
    BY <1>1, <1>2
  <2>2. q * (2 * q + 1) \in Nat
    BY <1>1
  <2> QED BY <2>1, <2>2 DEF Triangle
<1>3. CASE n = 2 * q + 1
  <2>1. n * (n + 1) = 2 * ((2 * q + 1) * (q + 1))
    BY <1>1, <1>3
  <2>2. (2 * q + 1) * (q + 1) \in Nat
    BY <1>1
  <2> QED BY <2>1, <2>2 DEF Triangle
<1> QED BY <1>1, <1>2, <1>3

(* One order more. *)
LEMMA TriangleStep ==
  ASSUME NEW n \in Nat
  PROVE  Triangle(n + 1) = Triangle(n) + n + 1
<1>1. n * (n + 1) = 2 * Triangle(n) /\ Triangle(n) \in Nat
  BY TriangleExact
<1>2. (n + 1) * (n + 2) = 2 * Triangle(n + 1) /\ Triangle(n + 1) \in Nat
  <2>1. n + 1 \in Nat /\ (n + 1) + 1 = n + 2
    OBVIOUS
  <2> QED BY <2>1, TriangleExact
<1>3. (n + 1) * (n + 2) = n * (n + 1) + 2 * (n + 1)
  OBVIOUS
<1> QED BY <1>1, <1>2, <1>3

(* The halving of LiM is exact. *)
LEMMA LiMHalving ==
  ASSUME NEW lmax \in Nat, NEW mres \in Nat, NEW n \in Nat
  PROVE  (n * (2 * lmax + 2 - (n + 1) * mres)) \div 2 = n * (lmax + 1) - mres * Triangle(n)
<1> DEFINE t == Triangle(n)
<1>1. t \in Nat /\ n * (n + 1) = 2 * t
  BY TriangleExact
<1> HIDE DEF t
<1>2. n * (2 * lmax + 2 - (n + 1) * mres) = 2 * (n * (lmax + 1)) - mres * (n * (n + 1))
  OBVIOUS
<1>3. mres * (n * (n + 1)) = 2 * (mres * t)
  BY <1>1
<1>4. n * (lmax + 1) \in Nat /\ mres * t \in Nat
  BY <1>1
<1> DEFINE a == n * (lmax + 1)
           b == mres * t
<1>5. n * (2 * lmax + 2 - (n + 1) * mres) = 2 * (a - b)
  BY <1>2, <1>3, <1>4
<1>6. a - b \in Int
  BY <1>4
<1>7. (n * (2 * lmax + 2 - (n + 1) * mres)) \div 2 = a - b
  <2> HIDE DEF a, b
  <2>1. (2 * (a - b)) \div 2 = a - b
    BY <1>6
  <2> QED BY <1>5, <2>1
<1> QED BY <1>7 DEF t

(* LiM without its halving. *)
LEMMA LiMAffine ==
  ASSUME NEW lmax \in Nat, NEW mres \in Nat, NEW d \in Int, NEW n \in Nat
  PROVE  LiM(lmax, mres, d, n) = n * (lmax + 1) - mres * Triangle(n) + d
<1>1. (n * (2 * lmax + 2 - (n + 1) * mres)) \div 2 = n * (lmax + 1) - mres * Triangle(n)
  BY LiMHalving
<1> QED BY ONLY <1>1 DEF LiM

(* One past the last degree of an order. *)
LEMMA LiMAtEnd ==
  ASSUME NEW lmax \in Nat, NEW mres \in Nat, NEW n \in Nat
  PROVE  LiM(lmax, mres, lmax + 1, n) = n * (lmax + 1) - mres * Triangle(n) + (lmax + 1)
<1>1. (n * (2 * lmax + 2 - (n + 1) * mres)) \div 2 = n * (lmax + 1) - mres * Triangle(n)
  BY LiMHalving
<1> QED BY ONLY <1>1 DEF LiM

(* The end of an order is the start of the next one. *)
LEMMA OrdersMeet ==
  ASSUME NEW lmax \in Nat, NEW mres \in Nat, NEW n \in Nat
  PROVE  LiM(lmax, mres, lmax + 1, n) = LiM(lmax, mres, (n + 1) * mres, n + 1)
<1> DEFINE t == Triangle(n)
<1>1. t \in Nat /\ Triangle(n + 1) = t + n + 1
  BY TriangleExact, TriangleStep
<1>2. LiM(lmax, mres, lmax + 1, n) = n * (lmax + 1) - mres * t + (lmax + 1)
  BY LiMAtEnd
<1>3. LiM(lmax, mres, (n + 1) * mres, n + 1) =
        (n + 1) * (lmax + 1) - mres * (t + n + 1) + (n + 1) * mres
  <2>1. n + 1 \in Nat /\ (n + 1) * mres \in Int
    OBVIOUS
  <2>2. LiM(lmax, mres, (n + 1) * mres, n + 1) =
          (n + 1) * (lmax + 1) - mres * Triangle(n + 1) + (n + 1) * mres
    <3>1. \A e \in Int, k \in Nat :
            LiM(lmax, mres, e, k) = k * (lmax + 1) - mres * Triangle(k) + e
      BY LiMAffine
    <3> HIDE DEF t
    <3> QED BY <2>1, <3>1
  <2> QED BY <1>1, <2>2
<1> HIDE DEF t
<1>4. mres * (t + n + 1) = mres * t + (n + 1) * mres
  BY <1>1
<1>5. (n + 1) * (lmax + 1) = n * (lmax + 1) + (lmax + 1)
  OBVIOUS
<1>6. n * (lmax + 1) \in Nat /\ mres * t \in Nat /\ (n + 1) * mres \in Nat
  BY <1>1
<1> QED BY <1>2, <1>3, <1>4, <1>5, <1>6

(* A truncation has as many coefficients as there are positions up to the    *)
(* end of its last order.                                                    *)
LEMMA NlmIsEnd ==
  ASSUME NEW lmax \in Nat, NEW mres \in Nat, NEW mmax \in Nat, mmax * mres <= lmax
  PROVE  nlm_calc(lmax, mmax, mres) = LiM(lmax, mres, lmax + 1, mmax)
<1> DEFINE t == Triangle(mmax)
<1>1. t \in Nat /\ mmax * (mmax + 1) = 2 * t
  BY TriangleExact
<1>2. LiM(lmax, mres, lmax + 1, mmax) = mmax * (lmax + 1) - mres * t + (lmax + 1)
  BY LiMAtEnd
<1> HIDE DEF t
<1>3. (mmax * mres) * (mmax + 1) = 2 * (mres * t) /\ mres * t \in Nat
  <2>1. (mmax * mres) * (mmax + 1) = mres * (mmax * (mmax + 1))
    OBVIOUS
  <2> QED BY <1>1, <2>1
<1>4. ((mmax * mres) * (mmax + 1)) \div 2 = mres * t
  <2> DEFINE b == mres * t
  <2>1. b \in Nat /\ (mmax * mres) * (mmax + 1) = 2 * b
    BY <1>3
  <2> HIDE DEF b
  <2>2. (2 * b) \div 2 = b
    BY <2>1
  <2> QED BY <2>1, <2>2 DEF b
<1>5. nlm_calc(lmax, mmax, mres) = (mmax + 1) * (lmax + 1) - mres * t
  <2>1. mmax * mres \in Int /\ ~ (mmax * mres > lmax)
    OBVIOUS
  <2> QED BY <2>1, <1>4 DEF nlm_calc
<1>6. (mmax + 1) * (lmax + 1) = mmax * (lmax + 1) + (lmax + 1)
  OBVIOUS
<1>7. mmax * (lmax + 1) \in Nat
  OBVIOUS
<1> QED BY <1>2, <1>3, <1>5, <1>6, <1>7

(* Orders are stored one after the other: an order that comes later, and     *)
(* fits below lmax, ends later.                                              *)
LEMMA OrdersGrow ==
  ASSUME NEW lmax \in Nat, NEW mres \in Nat, NEW a \in Nat, NEW b \in Nat,
         a <= b, b * mres <= lmax
  PROVE  LiM(lmax, mres, lmax + 1, a) <= LiM(lmax, mres, lmax + 1, b)
<1> DEFINE s == Triangle(a)
           t == Triangle(b)
           k == b - a
<1>1. /\ s \in Nat /\ a * (a + 1) = 2 * s
      /\ t \in Nat /\ b * (b + 1) = 2 * t
  BY TriangleExact
<1>2. /\ LiM(lmax, mres, lmax + 1, a) = a * (lmax + 1) - mres * s + (lmax + 1)
      /\ LiM(lmax, mres, lmax + 1, b) = b * (lmax + 1) - mres * t + (lmax + 1)
  <2>1. lmax + 1 \in Int
    OBVIOUS
  <2>2. \A e \in Int, n \in Nat :
          LiM(lmax, mres, e, n) = n * (lmax + 1) - mres * Triangle(n) + e
    BY LiMAffine
  <2> QED BY <2>1, <2>2
<1>3. k \in Nat /\ b = a + k
  OBVIOUS
<1> HIDE DEF s, t, k
<1>4. 2 * (t - s) = k * (a + b + 1)
  BY <1>1, <1>3
<1>5. k * (a + b + 1) <= 2 * (k * b)
  <2>1. CASE k = 0
    BY <2>1
  <2>2. CASE k > 0
    <3>1. a + b + 1 <= 2 * b
      BY <1>3, <2>2
    <3> DEFINE u == a + b + 1
               v == 2 * b
    <3>2. u \in Nat /\ v \in Nat /\ u <= v
      BY <3>1
    <3> HIDE DEF u, v
    <3>3. k * u <= k * v
      BY <1>3, <3>2
    <3> QED BY <1>3, <3>3 DEF u, v
  <2> QED BY <1>3, <2>1, <2>2
<1>6. t - s \in Int /\ k * b \in Nat /\ t - s <= k * b
  BY <1>1, <1>3, <1>4, <1>5
<1>7. mres * (t - s) <= mres * (k * b)
  <2> DEFINE u == t - s
             v == k * b
  <2>1. u \in Int /\ v \in Int /\ u <= v
    BY <1>6
  <2> HIDE DEF u, v
  <2>2. mres * u <= mres * v
    BY <2>1
  <2> QED BY <2>2 DEF u, v
<1>8. mres * (k * b) <= k * (lmax + 1)
  <2> DEFINE u == b * mres
             v == lmax + 1
  <2>1. u \in Int /\ v \in Int /\ u <= v
    OBVIOUS
  <2>2. mres * (k * b) = k * u
    BY <1>3
  <2> HIDE DEF u, v
  <2>3. k * u <= k * v
    BY <1>3, <2>1
  <2> QED BY <2>2, <2>3 DEF v
<1>9. mres * (t - s) = mres * t - mres * s /\ mres * t \in Nat /\ mres * s \in Nat
  BY <1>1
<1>10. k * (lmax + 1) = b * (lmax + 1) - a * (lmax + 1)
  BY <1>3
<1>11. /\ b * (lmax + 1) \in Nat /\ a * (lmax + 1) \in Nat /\ k * (lmax + 1) \in Nat
       /\ mres * (k * b) \in Nat /\ mres * (t - s) \in Int
  BY <1>1, <1>3
<1> QED BY <1>2, <1>7, <1>8, <1>9, <1>10, <1>11

(* The macro LM divides an order by mres and finds its index again. *)
LEMMA LMIsLiM ==
  ASSUME NEW lmax \in Nat, NEW mres \in Nat, mres >= 1, NEW d \in Int, NEW n \in Nat
  PROVE  /\ LM(lmax, mres, d, n * mres) = LiM(lmax, mres, d, n)
         /\ (n * mres) % mres = 0 /\ n * mres \in Nat
<1>1. (n * mres) \div mres = n /\ (n * mres) % mres = 0 /\ n * mres \in Nat
  OBVIOUS
<1>2. n * mres + mres = (n + 1) * mres
  OBVIOUS
<1> QED BY <1>1, <1>2 DEF LM, LiM

(* With mres = 1, the positions of an order end before those of a later one  *)
(* start, and those of an order go with the degree.                          *)
LEMMA OrdersApart ==
  ASSUME NEW lmax \in Nat, NEW a \in Nat, NEW b \in Nat, a < b, b <= lmax
  PROVE  LM(lmax, 1, lmax, a) < LM(lmax, 1, b, b)
<1>1. \A d \in Int, n \in Nat : LM(lmax, 1, d, n) = LiM(lmax, 1, d, n)
  <2> TAKE d \in Int, n \in Nat
  <2>1. LM(lmax, 1, d, n * 1) = LiM(lmax, 1, d, n)
    <3>1. 1 \in Nat /\ 1 >= 1
      OBVIOUS
    <3> QED BY <3>1, LMIsLiM
  <2> QED BY <2>1
<1> DEFINE c == b - 1
<1>2. c \in Nat /\ a <= c /\ c * 1 <= lmax /\ (c + 1) * 1 = b /\ c + 1 = b
  OBVIOUS
<1>3. LiM(lmax, 1, lmax + 1, a) <= LiM(lmax, 1, lmax + 1, c)
  <2> HIDE DEF c
  <2>1. \A r \in Nat, x, y \in Nat : x <= y /\ y * r <= lmax =>
          LiM(lmax, r, lmax + 1, x) <= LiM(lmax, r, lmax + 1, y)
    BY OrdersGrow
  <2> QED BY <1>2, <2>1
<1>4. LiM(lmax, 1, lmax + 1, c) = LiM(lmax, 1, b, b)
  <2> HIDE DEF c
  <2>1. \A r \in Nat, n \in Nat :
          LiM(lmax, r, lmax + 1, n) = LiM(lmax, r, (n + 1) * r, n + 1)
    BY OrdersMeet
  <2>2. LiM(lmax, 1, lmax + 1, c) = LiM(lmax, 1, (c + 1) * 1, c + 1)
    BY <1>2, <2>1
  <2> QED BY <1>2, <2>2
<1>5. LiM(lmax, 1, lmax, a) + 1 = LiM(lmax, 1, lmax + 1, a)
  BY DEF LiM
<1>6. LiM(lmax, 1, lmax, a) \in Int /\ LiM(lmax, 1, b, b) \in Int
  BY DEF LiM
<1>7. LM(lmax, 1, lmax, a) = LiM(lmax, 1, lmax, a) /\ LM(lmax, 1, b, b) = LiM(lmax, 1, b, b)
  BY <1>1
<1> HIDE DEF c
<1> QED BY <1>3, <1>4, <1>5, <1>6, <1>7

-----------------------------------------------------------------------------
(* The product of LiM is greatest for the last order of a step of one.       *)
LEMMA LiMProduct ==
  ASSUME NEW L \in Nat, NEW r \in Nat, NEW n \in Nat, r >= 1, n * r <= L
  PROVE  /\ n * (2 * L + 2 - (n + 1) * r) \in 0 .. L * (L + 1)
         /\ (n + 1) * r <= L + r /\ n <= L
         /\ (n + 1) * r \in Nat
<1>1. n <= L
  <2>1. n <= n * r
    <3>1. n * 1 <= n * r
      OBVIOUS
    <3> QED BY <3>1
  <2>2. n * r \in Nat
    OBVIOUS
  <2> QED BY <2>1, <2>2
<1>2. (n + 1) * r = n * r + r /\ n * r \in Nat
  OBVIOUS
<1>3. (n + 1) * r <= L + r /\ (n + 1) * r \in Nat
  BY <1>2
<1>4. CASE n = 0
  <2>1. n * (2 * L + 2 - (n + 1) * r) = 0 /\ L * (L + 1) \in Nat
    BY <1>3, <1>4
  <2> QED BY <1>1, <1>3, <2>1
<1>5. CASE n >= 1
  <2> DEFINE c == 2 * L + 2 - (n + 1) * r
             k == L - n
  <2>1. r <= n * r
    <3>1. 1 * r <= n * r
      BY <1>5
    <3> QED BY <3>1
  <2>2. (n + 1) * r >= n + 1
    <3>1. (n + 1) * r >= (n + 1) * 1
      OBVIOUS
    <3> QED BY <3>1
  <2>3. c \in Nat /\ c <= 2 * L + 1 - n
    BY <1>2, <1>3, <2>1, <2>2
  <2>4. k \in Nat /\ L = n + k
    BY <1>1
  <2> HIDE DEF c, k
  <2>5. n * c \in Nat /\ n * c <= n * (2 * L + 1 - n)
    <3> DEFINE d == 2 * L + 1 - n
    <3>1. d \in Nat /\ c <= d
      BY <1>1, <2>3
    <3> HIDE DEF d
    <3>2. n * c \in Nat /\ n * c <= n * d
      BY <2>3, <3>1
    <3> QED BY <3>2 DEF d
  <2>6. L * (L + 1) = n * (2 * L + 1 - n) + k * (k + 1) /\ k * (k + 1) >= 0
    BY <2>4
  <2>7. n * (2 * L + 1 - n) \in Int /\ k * (k + 1) \in Int /\ L * (L + 1) \in Int
    BY <2>4
  <2>8. n * c \in 0 .. L * (L + 1)
    BY <2>5, <2>6, <2>7
  <2> QED BY <1>1, <1>3, <2>8 DEF c
<1> QED BY <1>4, <1>5

(* Nothing LiM computes is greater than L * (L + 1), or than what two shorts *)
(* make.                                                                     *)
LEMMA LiMWidth ==
  ASSUME NEW L \in Nat, NEW r \in Nat, NEW n \in Nat, NEW d \in Nat,
         NEW S \in Nat, NEW I \in Nat,
         L >= 1, r >= 1, n * r <= L, d <= L,
         L <= S, r <= S, I >= 3 * S + 2, L * (L + 1) <= I
  PROVE  LiMSteps(L, r, d, n) \subseteq -I - 1 .. I
<1> DEFINE p == n * (2 * L + 2 - (n + 1) * r)
           q == (n + 1) * r
           t == L * (L + 1)
<1>1. p \in 0 .. t /\ q <= L + r /\ n <= L /\ q \in Nat
  BY LiMProduct
<1>2. t \in Nat /\ 2 * L <= t /\ t <= I
  <2>1. L * 2 <= L * (L + 1)
    OBVIOUS
  <2>2. L * 2 = 2 * L
    OBVIOUS
  <2> QED BY <2>1, <2>2
<1>3. LiM(L, r, d, n) = p \div 2 + d
  BY DEF LiM
<1>4. LiMSteps(L, r, d, n) =
        {n + 1, q, 2 * L + 2, 2 * L + 2 - q, p, LiM(L, r, d, n)}
  BY DEF LiMSteps
<1> HIDE DEF p, q, t
<1>5. p \div 2 + d \in 0 .. t
  <2>1. p \div 2 \in Nat /\ 2 * (p \div 2) <= p
    BY <1>1, <1>2
  <2> QED BY <1>1, <1>2, <2>1
<1>6. /\ n + 1 \in -I - 1 .. I /\ q \in -I - 1 .. I
      /\ 2 * L + 2 \in -I - 1 .. I /\ 2 * L + 2 - q \in -I - 1 .. I
      /\ p \in -I - 1 .. I
  BY <1>1, <1>2
<1>7. LiM(L, r, d, n) \in -I - 1 .. I
  BY <1>2, <1>3, <1>5
<1> QED BY <1>4, <1>6, <1>7

-----------------------------------------------------------------------------
(* One degree more in a complex array. *)
LEMMA CplxStep ==
  ASSUME NEW mmax \in Nat, NEW d \in Nat, NEW m \in Int
  PROVE  LM_cplx(mmax, d, m) =
           LM_cplx(mmax, d - 1, m) + (IF d <= mmax THEN 2 * d ELSE 2 * mmax + 1)
<1>1. CASE d <= mmax
  <2>1. d - 1 <= mmax
    BY <1>1
  <2>2. d * (d + 1) = (d - 1) * d + 2 * d /\ (d - 1) + 1 = d
    OBVIOUS
  <2>3. d * (d + 1) \in Int /\ (d - 1) * d \in Int
    OBVIOUS
  <2> QED BY <1>1, <2>1, <2>2, <2>3 DEF LM_cplx
<1>2. CASE d = mmax + 1
  <2>1. ~ (d <= mmax) /\ d - 1 = mmax
    BY <1>2
  <2>2. mmax * (2 * d - mmax) = mmax * (mmax + 1) + mmax
    BY <1>2
  <2> QED BY <1>2, <2>1, <2>2 DEF LM_cplx
<1>3. CASE d > mmax + 1
  <2>1. ~ (d <= mmax) /\ ~ (d - 1 <= mmax)
    BY <1>3
  <2>2. mmax * (2 * d - mmax) = mmax * (2 * (d - 1) - mmax) + 2 * mmax
    OBVIOUS
  <2>3. mmax * (2 * d - mmax) \in Int /\ mmax * (2 * (d - 1) - mmax) \in Int
    OBVIOUS
  <2> QED BY <1>3, <2>1, <2>2, <2>3 DEF LM_cplx
<1> QED BY <1>1, <1>2, <1>3

(* The coefficients of a degree all come before those of a later one. *)
LEMMA CplxGrows ==
  ASSUME NEW mmax \in Nat, NEW a \in Nat, NEW b \in Nat, NEW m \in Int, NEW n \in Int,
         a < b, m <= a, m <= mmax, -b <= n, -mmax <= n
  PROVE  LM_cplx(mmax, a, m) < LM_cplx(mmax, b, n)
<1>1. CASE b <= mmax
  <2>1. LM_cplx(mmax, a, m) = a * (a + 1) + m /\ LM_cplx(mmax, b, n) = b * (b + 1) + n
    BY <1>1 DEF LM_cplx
  <2> DEFINE k == b - (a + 1)
  <2>2. k \in Nat /\ b = a + 1 + k
    OBVIOUS
  <2> HIDE DEF k
  <2>3. b * b = (a + 1) * (a + 1) + k * (2 * (a + 1) + k) /\ k * (2 * (a + 1) + k) >= 0
    BY <2>2
  <2>4. (a + 1) * (a + 1) = a * (a + 1) + a + 1 /\ b * (b + 1) = b * b + b
    OBVIOUS
  <2>5. a * (a + 1) \in Int /\ b * b \in Int /\ (a + 1) * (a + 1) \in Int /\ b * (b + 1) \in Int
        /\ k * (2 * (a + 1) + k) \in Int
    BY <2>2
  <2> QED BY <2>1, <2>3, <2>4, <2>5
<1>2. CASE a <= mmax /\ b > mmax
  <2>1. LM_cplx(mmax, a, m) = a * (a + 1) + m
        /\ LM_cplx(mmax, b, n) = mmax * (2 * b - mmax) + b + n
    BY <1>2 DEF LM_cplx
  <2>2. a * (a + 1) <= mmax * (mmax + 1) 
    <3> DEFINE k == mmax - a
    <3>1. k \in Nat /\ mmax = a + k
      BY <1>2
    <3> HIDE DEF k
    <3>2. mmax * (mmax + 1) = a * (a + 1) + k * (2 * a + k + 1) /\ k * (2 * a + k + 1) >= 0
      BY <3>1
    <3>3. a * (a + 1) \in Int /\ mmax * (mmax + 1) \in Int /\ k * (2 * a + k + 1) \in Int
      BY <3>1
    <3> QED BY <3>2, <3>3
  <2>3. mmax * (2 * b - mmax) >= mmax * (mmax + 2)
    <3> DEFINE k == b - (mmax + 1)
    <3>1. k \in Nat /\ b = mmax + 1 + k
      BY <1>2
    <3> HIDE DEF k
    <3>2. mmax * (2 * b - mmax) = mmax * (mmax + 2) + 2 * (mmax * k) /\ mmax * k >= 0
      BY <3>1
    <3>3. mmax * (2 * b - mmax) \in Int /\ mmax * (mmax + 2) \in Int /\ mmax * k \in Int
      BY <3>1
    <3> QED BY <3>2, <3>3
  <2>4. mmax * (mmax + 2) = mmax * (mmax + 1) + mmax
    OBVIOUS
  <2>5. a * (a + 1) \in Int /\ mmax * (mmax + 1) \in Int /\ mmax * (mmax + 2) \in Int
        /\ mmax * (2 * b - mmax) \in Int
    OBVIOUS
  <2> QED BY <1>2, <2>1, <2>2, <2>3, <2>4, <2>5
<1>3. CASE a > mmax
  <2>1. LM_cplx(mmax, a, m) = mmax * (2 * a - mmax) + a + m
        /\ LM_cplx(mmax, b, n) = mmax * (2 * b - mmax) + b + n
    BY <1>3 DEF LM_cplx
  <2> DEFINE k == b - (a + 1)
  <2>2. k \in Nat /\ b = a + 1 + k
    OBVIOUS
  <2> HIDE DEF k
  <2>3. mmax * (2 * b - mmax) = mmax * (2 * a - mmax) + 2 * mmax + 2 * (mmax * k)
        /\ mmax * k >= 0
    BY <2>2
  <2>4. mmax * (2 * b - mmax) \in Int /\ mmax * (2 * a - mmax) \in Int /\ mmax * k \in Int
    BY <2>2
  <2> QED BY <2>1, <2>2, <2>3, <2>4
<1> QED BY <1>1, <1>2, <1>3

(* No two coefficients of a complex array are at the same position. *)
LEMMA CplxInjective ==
  ASSUME NEW mmax \in Nat, NEW a \in Nat, NEW b \in Nat, NEW m \in Int, NEW n \in Int,
         m <= a, m <= mmax, -a <= m, -mmax <= m,
         n <= b, n <= mmax, -b <= n, -mmax <= n,
         LM_cplx(mmax, a, m) = LM_cplx(mmax, b, n)
  PROVE  a = b /\ m = n
<1>1. LM_cplx(mmax, a, m) \in Int
  BY DEF LM_cplx
<1>2. ~ (a < b) /\ ~ (b < a)
  <2>1. a < b => LM_cplx(mmax, a, m) < LM_cplx(mmax, b, n)
    BY CplxGrows
  <2>2. b < a => LM_cplx(mmax, b, n) < LM_cplx(mmax, a, m)
    BY CplxGrows
  <2> QED BY <1>1, <2>1, <2>2
<1>3. a = b
  BY <1>2
<1>4. m = n
  <2>1. a * (a + 1) \in Int /\ mmax * (2 * a - mmax) \in Int
    OBVIOUS
  <2> QED BY <1>3, <2>1 DEF LM_cplx
<1> QED BY <1>3, <1>4

(* Every coefficient of a complex field has its position in the array.       *)
LEMMA CplxReach ==
  ASSUME NEW lmax \in Nat, NEW mmax \in Nat, mmax <= lmax, NEW d \in Nat, d <= lmax,
         NEW m \in Int, m <= d, m <= mmax, -d <= m, -mmax <= m
  PROVE  LM_cplx(mmax, d, m) \in 0 .. nlm_cplx_calc(lmax, mmax, 1) - 1
<1> DEFINE n == nlm_cplx_calc(lmax, mmax, 1)
<1>1. LM_cplx(mmax, d, m) \in Int
  BY DEF LM_cplx
<1>2. LM_cplx(mmax, lmax + 1, -mmax) = n /\ n \in Int
  <2>1. LM_cplx(mmax, lmax + 1, -mmax) = mmax * (2 * (lmax + 1) - mmax) + (lmax + 1) - mmax
    BY DEF LM_cplx
  <2>2. n = (2 * mmax + 1) * (lmax + 1) - (mmax * 1) * (mmax + 1)
    BY DEF nlm_cplx_calc
  <2>3. mmax * (2 * (lmax + 1) - mmax) + (lmax + 1) - mmax
          = (2 * mmax + 1) * (lmax + 1) - (mmax * 1) * (mmax + 1)
    OBVIOUS
  <2>4. (2 * mmax + 1) * (lmax + 1) - (mmax * 1) * (mmax + 1) \in Int
    OBVIOUS
  <2> HIDE DEF n
  <2> QED BY <2>1, <2>2, <2>3, <2>4
<1>3. LM_cplx(mmax, d, m) < LM_cplx(mmax, lmax + 1, -mmax)
  <2> DEFINE e == lmax + 1
             j == -mmax
  <2>1. e \in Nat /\ j \in Int /\ d < e /\ -e <= j /\ -mmax <= j
    OBVIOUS
  <2> HIDE DEF e, j
  <2>2. LM_cplx(mmax, d, m) < LM_cplx(mmax, e, j)
    BY <2>1, CplxGrows
  <2> QED BY <2>2 DEF e, j
<1>4. LM_cplx(mmax, d, m) >= 0
  <2>1. LM_cplx(mmax, 0, 0) = 0
    BY DEF LM_cplx
  <2>2. CASE d = 0
    <3>1. m = 0
      BY <2>2
    <3> QED BY <2>1, <2>2, <3>1
  <2>3. CASE d # 0
    <3>1. 0 < d /\ 0 \in Nat /\ 0 \in Int /\ 0 <= mmax /\ 0 <= 0
      BY <2>3
    <3>2. LM_cplx(mmax, 0, 0) < LM_cplx(mmax, d, m)
      BY <3>1, CplxGrows
    <3> QED BY <1>1, <2>1, <3>2
  <2> QED BY <2>2, <2>3
<1> HIDE DEF n
<1>5. LM_cplx(mmax, d, m) \in 0 .. n - 1
  BY <1>1, <1>2, <1>3, <1>4
<1> QED BY <1>5 DEF n

(* Every position of a complex array is that of a coefficient: of the first  *)
(* degree that reaches as far.                                               *)
LEMMA CplxOnto ==
  ASSUME NEW lmax \in Nat, NEW mmax \in Nat, mmax <= lmax,
         NEW p \in 0 .. nlm_cplx_calc(lmax, mmax, 1) - 1
  PROVE  \E d \in 0 .. lmax : \E m \in Int :
           /\ m <= d /\ m <= mmax /\ -d <= m /\ -mmax <= m
           /\ LM_cplx(mmax, d, m) = p
<1> DEFINE M(d) == IF d <= mmax THEN d ELSE mmax
           F(d) == LM_cplx(mmax, d, 0)
           S == {d \in Nat : p <= F(d) + M(d)}
<1>1. \A d \in Nat, m \in Int : LM_cplx(mmax, d, m) = F(d) + m /\ F(d) \in Int
  BY DEF LM_cplx
<1>2. \A d \in Nat : M(d) \in Nat /\ M(d) <= d /\ M(d) <= mmax
  OBVIOUS
<1>3. nlm_cplx_calc(lmax, mmax, 1) - 1 = F(lmax) + M(lmax) /\ p \in Nat
  <2>1. mmax * 1 = mmax
    OBVIOUS
  <2>2. nlm_cplx_calc(lmax, mmax, 1) = (2 * mmax + 1) * (lmax + 1) - mmax * (mmax + 1)
    BY <2>1 DEF nlm_cplx_calc
  <2>3. F(lmax) + M(lmax) = (2 * mmax + 1) * (lmax + 1) - mmax * (mmax + 1) - 1
    <3>1. CASE lmax <= mmax
      <4>1. mmax = lmax
        BY <3>1
      <4>2. lmax * (lmax + 1) + 0 + lmax = (2 * lmax + 1) * (lmax + 1) - lmax * (lmax + 1) - 1
        OBVIOUS
      <4> QED BY <4>1, <4>2 DEF LM_cplx
    <3>2. CASE ~ (lmax <= mmax)
      <4>1. mmax * (2 * lmax - mmax) + lmax + 0 + mmax
              = (2 * mmax + 1) * (lmax + 1) - mmax * (mmax + 1) - 1
        OBVIOUS
      <4> QED BY <3>2, <4>1 DEF LM_cplx
    <3> QED BY <3>1, <3>2
  <2>4. p \in Nat
    OBVIOUS
  <2>5. (2 * mmax + 1) * (lmax + 1) \in Int /\ mmax * (mmax + 1) \in Int
    OBVIOUS
  <2> HIDE DEF F, M
  <2> QED BY <2>2, <2>3, <2>4, <2>5
<1>4. \A d \in Nat : d >= 1 => F(d) = F(d - 1) + M(d - 1) + M(d) + 1
  <2> SUFFICES ASSUME NEW d \in Nat, d >= 1 PROVE F(d) = F(d - 1) + M(d - 1) + M(d) + 1
    OBVIOUS
  <2>1. F(d) = F(d - 1) + (IF d <= mmax THEN 2 * d ELSE 2 * mmax + 1)
    BY CplxStep, 0 \in Int
  <2>2. F(d - 1) \in Int /\ d - 1 \in Nat
    BY <1>1
  <2> DEFINE f == F(d - 1)
  <2>3. (IF d <= mmax THEN 2 * d ELSE 2 * mmax + 1) = M(d - 1) + M(d) + 1
    OBVIOUS
  <2>4. M(d - 1) \in Nat /\ M(d) \in Nat
    BY <1>2, <2>2
  <2> HIDE DEF F, M
  <2> QED BY <2>1, <2>2, <2>3, <2>4
<1>5. F(0) = 0 /\ M(0) = 0
  BY DEF LM_cplx
<1> HIDE DEF F, M
<1>6. lmax \in S
  <2> DEFINE n == nlm_cplx_calc(lmax, mmax, 1)
  <2>1. n - 1 = F(lmax) + M(lmax) /\ p \in 0 .. n - 1
    BY <1>3
  <2> HIDE DEF n
  <2>2. F(lmax) + M(lmax) \in Int
    BY <1>1, <1>2
  <2> QED BY <2>1, <2>2
<1>7. PICK d \in S : \A e \in S : d <= e
  <2>1. S \in SUBSET Nat /\ S # {}
    BY <1>6
  <2> HIDE DEF S
  <2> QED BY <2>1, LeastNatural
<1>8. d \in Nat /\ d <= lmax /\ p <= F(d) + M(d) /\ F(d) \in Int /\ M(d) \in Nat
  BY <1>1, <1>2, <1>6, <1>7
<1>9. F(d) - M(d) <= p
  <2>1. CASE d = 0
    BY <1>3, <1>5, <2>1
  <2>2. CASE d # 0
    <3>1. d - 1 \in Nat /\ d - 1 \notin S /\ d >= 1
      BY <1>7, <1>8, <2>2
    <3>2. F(d - 1) + M(d - 1) < p /\ F(d - 1) \in Int /\ M(d - 1) \in Nat
      BY <1>1, <1>2, <1>3, <3>1
    <3>3. F(d) = F(d - 1) + M(d - 1) + M(d) + 1
      BY <1>4, <1>8, <3>1
    <3> QED BY <1>3, <1>8, <3>2, <3>3
  <2> QED BY <2>1, <2>2
<1> DEFINE m == p - F(d)
<1>10. m \in Int /\ m <= M(d) /\ -M(d) <= m /\ F(d) + m = p
  BY <1>3, <1>8, <1>9
<1> HIDE DEF m
<1>11. m <= d /\ m <= mmax /\ -d <= m /\ -mmax <= m
  BY <1>2, <1>8, <1>10
<1>12. LM_cplx(mmax, d, m) = p /\ d \in 0 .. lmax
  BY <1>1, <1>8, <1>10
<1> QED BY <1>10, <1>11, <1>12

-----------------------------------------------------------------------------
(* The square root of a natural number, rounded up, exists. *)
LEMMA CeilSqrtIs ==
  ASSUME NEW d \in Nat
  PROVE  LET s == CeilSqrt(d)
         IN  s \in 0 .. d /\ s * s >= d /\ (s = 0 \/ (s - 1) * (s - 1) < d)
<1> DEFINE S == {s \in Nat : s * s >= d}
           P(s) == s \in 0 .. d /\ s * s >= d /\ (s = 0 \/ (s - 1) * (s - 1) < d)
<1>1. d * d >= d
  OBVIOUS
<1>2. PICK x \in S : \A y \in S : x <= y
  <2>1. S \in SUBSET Nat /\ d \in S
    BY <1>1
  <2> HIDE DEF S
  <2> QED BY <2>1, LeastNatural
<1>3. x \in Nat /\ x <= d /\ x * x >= d
  BY <1>1, <1>2
<1>4. x # 0 => (x - 1) * (x - 1) < d
  <2> SUFFICES ASSUME x # 0 PROVE (x - 1) * (x - 1) < d
    OBVIOUS
  <2>1. x - 1 \in Nat /\ x - 1 \notin S
    BY <1>2, <1>3
  <2>2. (x - 1) * (x - 1) \in Int
    BY <1>3
  <2> QED BY <2>1, <2>2
<1>5. \E s \in 0 .. d : s * s >= d /\ (s = 0 \/ (s - 1) * (s - 1) < d)
  BY <1>3, <1>4
<1>6. P(CHOOSE s \in 0 .. d : s * s >= d /\ (s = 0 \/ (s - 1) * (s - 1) < d))
  BY <1>5
<1> QED BY <1>6 DEF CeilSqrt

(* LiM in terms of the order, for every degree at once.                      *)
LEMMA LiMAffineAll ==
  ASSUME NEW L \in Nat, NEW r \in Nat, NEW n \in Nat
  PROVE  \A e \in Int : LiM(L, r, e, n) = n * (L + 1) - r * Triangle(n) + e
BY LiMAffine

(* The position of a coefficient, and the argument of the square root it is  *)
(* told by, between two squares a step apart.                                *)
LEMMA RootArgument ==
  ASSUME NEW L \in Nat, NEW r \in Nat, r >= 1, NEW n \in Nat, NEW d \in Nat,
         n * r <= d, d <= L
  PROVE  LET b == 2 * L + 2 + r
             c == b - 2 * (n * r)
             D == b * b - (r * LiM(L, r, d, n) * 8 + 1)
         IN  c \in Nat /\ D \in Nat /\ D < c * c /\ (c - 2 * r) * (c - 2 * r) < D
<1>0. \A e \in Int : LiM(L, r, e, n) = n * (L + 1) - r * Triangle(n) + e
  BY LiMAffineAll
<1> DEFINE b == 2 * L + 2 + r
           w == n * r
           c == b - 2 * w
           D == b * b - (r * LiM(L, r, d, n) * 8 + 1)
           t == Triangle(n)
           x == d - w
           y == L - d
<1>1. w \in Nat /\ x \in Nat /\ y \in Nat /\ d = w + x /\ L = w + x + y
  <2>1. n * r \in Nat
    OBVIOUS
  <2> QED BY <2>1
<1>2. LiM(L, r, d, n) = n * (L + 1) - r * t + d
  BY <1>0
<1>3. t \in Nat /\ n * (n + 1) = 2 * t
  BY TriangleExact
<1> HIDE DEF t
<1>4. r * LiM(L, r, d, n) * 8 = 8 * (w * (L + 1)) - 4 * (w * (w + r)) + 8 * (r * d)
  <2>1. r * LiM(L, r, d, n) * 8 = 8 * ((r * n) * (L + 1)) - 8 * (r * (r * t)) + 8 * (r * d)
    <3>1. r * (n * (L + 1) - r * t + d) = (r * n) * (L + 1) - r * (r * t) + r * d
      BY <1>3
    <3>2. (r * n) * (L + 1) \in Int /\ r * (r * t) \in Int /\ r * d \in Int
      BY <1>3
    <3> QED BY <1>2, <3>1, <3>2
  <2>2. 2 * (r * (r * t)) = w * (w + r)
    <3>1. 2 * (r * (r * t)) = r * (r * (2 * t))
      BY <1>3
    <3>2. r * (r * (n * (n + 1))) = (n * r) * (n * r + r)
      OBVIOUS
    <3> QED BY <1>3, <3>1, <3>2
  <2>3. r * n = w
    OBVIOUS
  <2>4. w * (L + 1) \in Int /\ r * (r * t) \in Int /\ r * d \in Int /\ w * (w + r) \in Int
    BY <1>1, <1>3
  <2> HIDE DEF w
  <2> QED BY <2>1, <2>2, <2>3, <2>4
<1> HIDE DEF w, x, y
<1>5. c = 2 * x + 2 * y + 2 + r
  BY <1>1
<1>6. D = c * c - 8 * (r * x) - 1
  <2>1. b * b - (8 * (w * (L + 1)) - 4 * (w * (w + r)) + 8 * (r * d) + 1)
          = (b - 2 * w) * (b - 2 * w) - 8 * (r * x) - 1
    BY <1>1
  <2> QED BY <1>4, <2>1
<1>7. (c - 2 * r) * (c - 2 * r) = c * c - 4 * (r * c) + 4 * (r * r)
  BY <1>1
<1>8. r * c = 2 * (r * x) + 2 * (r * y) + 2 * r + r * r
  BY <1>1, <1>5
<1>9. r * x \in Nat /\ r * y \in Nat /\ r * r \in Nat /\ c \in Nat /\ c * c \in Nat /\ D \in Int
      /\ r * c \in Nat
  BY <1>1, <1>5, <1>6
<1> HIDE DEF c, D
<1>10. (c - 2 * r) * (c - 2 * r) >= 0
  <2>1. \A i \in Int : i * i >= 0
    OBVIOUS
  <2>2. c - 2 * r \in Int
    BY <1>9
  <2> QED BY <2>1, <2>2
<1> DEFINE q == (c - 2 * r) * (c - 2 * r)
<1>11. q \in Int /\ q = c * c - 4 * (r * c) + 4 * (r * r) /\ q >= 0
  BY <1>7, <1>9, <1>10
<1> HIDE DEF q
<1>12. D < c * c /\ q < D
  BY <1>6, <1>8, <1>9, <1>11
<1>13. D \in Nat
  BY <1>9, <1>11, <1>12
<1> QED BY <1>9, <1>12, <1>13 DEF c, D, q, w

(* So the square root tells the order, whatever its step.                    *)
LEMMA RootIsOrder ==
  ASSUME NEW L \in Nat, NEW r \in Nat, r >= 1, NEW n \in Nat, NEW d \in Nat,
         n * r <= d, d <= L
  PROVE  im_from_lm(LiM(L, r, d, n), L, r) = n
<1> DEFINE k == LiM(L, r, d, n)
           b == 2 * L + 2 + r
           c == b - 2 * (n * r)
           D == b * b - (r * k * 8 + 1)
           s == CeilSqrt(D)
<1>1. c \in Nat /\ D \in Nat /\ D < c * c /\ (c - 2 * r) * (c - 2 * r) < D
  BY RootArgument
<1>2. k \in Int /\ b \in Nat
  BY DEF LiM
<1> HIDE DEF D, k
<1>3. s \in Nat /\ s * s >= D /\ (s = 0 \/ (s - 1) * (s - 1) < D)
  BY <1>1, CeilSqrtIs
<1>4. \A i, j \in Nat : i <= j => i * i <= j * j
  OBVIOUS
<1> HIDE DEF b, c, s
<1>5. s <= c
  <2> SUFFICES ASSUME c < s PROVE FALSE
    BY <1>1, <1>3
  <2>1. s - 1 \in Nat /\ c <= s - 1 /\ s # 0
    BY <1>1, <1>3
  <2>2. c * c <= (s - 1) * (s - 1) /\ c * c \in Int /\ (s - 1) * (s - 1) \in Int
    BY <1>1, <1>4, <2>1
  <2> QED BY <1>1, <1>3, <2>1, <2>2
<1>6. c - 2 * r < s
  <2> SUFFICES ASSUME s <= c - 2 * r PROVE FALSE
    BY <1>1, <1>3
  <2>1. c - 2 * r \in Nat
    BY <1>1, <1>3
  <2>2. s * s <= (c - 2 * r) * (c - 2 * r) /\ s * s \in Int
        /\ (c - 2 * r) * (c - 2 * r) \in Int
    BY <1>1, <1>3, <1>4, <2>1
  <2> QED BY <1>1, <1>3, <2>2
<1>7. (b - s) \div (2 * r) = n
  <2> DEFINE e == c - s
  <2>1. e \in Nat /\ e < 2 * r
    BY <1>1, <1>3, <1>5, <1>6
  <2>2. b - s = (2 * r) * n + e
    <3>1. n * r \in Int /\ (2 * r) * n = 2 * (n * r)
      OBVIOUS
    <3> QED BY <1>1, <1>2, <1>3, <3>1 DEF c
  <2> HIDE DEF e
  <2>3. \A v \in Nat : v >= 1 => \A u \in 0 .. v - 1 : (v * n + u) \div v = n
    OBVIOUS
  <2>4. 2 * r \in Nat /\ 2 * r >= 1 /\ e \in 0 .. 2 * r - 1
    BY <2>1
  <2> QED BY <2>2, <2>3, <2>4
<1>8. CASE r = 1
  <2>1. 2 * L + 3 = b /\ 1 * k * 8 = k * 8 /\ 2 * 1 = 2
    BY <1>2, <1>8 DEF b
  <2>2. im_from_lm(k, L, r) = (b - CeilSqrt(b * b - (k * 8 + 1))) \div 2
    BY <1>8, <2>1 DEF im_from_lm
  <2>3. b * b - (k * 8 + 1) = D
    BY <1>8, <2>1 DEF D
  <2> QED BY <1>7, <1>8, <2>1, <2>2, <2>3 DEF s, k
<1>9. CASE r # 1
  BY <1>7, <1>9 DEF im_from_lm, s, D, b, k
<1> QED BY <1>8, <1>9
=============================================================================
