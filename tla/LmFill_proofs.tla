--------------------------- MODULE LmFill_proofs ---------------------------
(* The fill loop of shtns_create agrees with the index formulas for every    *)
(* truncation: what the loop has counted is LiM of where it is. The square   *)
(* root that inverts the formulas then finds the orders of the loop, and a   *)
(* complex field that is walked like the loop comes back as it was.          *)
EXTENDS TwoReal, LmIndex_proofs

-----------------------------------------------------------------------------
(* The size of a run is that of a valid truncation. *)
LEMMA SizeFacts ==
  ASSUME size \in Truncation
  PROVE  /\ size.lmax \in Nat /\ size.mmax \in Nat /\ size.mres \in Nat
         /\ size.lmax >= 1 /\ size.mres >= 1
         /\ size.mmax * size.mres <= size.lmax
         /\ nlm = LiM(size.lmax, size.mres, size.lmax + 1, size.mmax)
         /\ nlm \in Nat
<1>1. /\ size.lmax \in Nat /\ size.mmax \in Nat /\ size.mres \in Nat
      /\ size.lmax >= 1 /\ size.mres >= 1
      /\ size.mmax * size.mres <= size.lmax
  BY TruncationAssumption DEF ValidSize
<1>2. nlm = LiM(size.lmax, size.mres, size.lmax + 1, size.mmax)
  BY <1>1, NlmIsEnd DEF nlm
<1>3. nlm \in Nat
  <2> DEFINE L == size.lmax
             r == size.mres
             M == size.mmax
  <2>1. L \in Nat /\ r \in Nat /\ M \in Nat /\ M * r <= L /\ 0 <= M /\ 0 \in Nat
    BY <1>1
  <2>2. LiM(L, r, L + 1, 0) = L + 1
    BY <2>1 DEF LiM
  <2>3. LiM(L, r, L + 1, 0) <= LiM(L, r, L + 1, M)
    BY <2>1, OrdersGrow
  <2>4. LiM(L, r, L + 1, M) \in Int
    BY <2>1 DEF LiM
  <2> QED BY <1>2, <2>1, <2>2, <2>3, <2>4
<1> QED BY <1>1, <1>2, <1>3

-----------------------------------------------------------------------------
(* The invariant holds before the first entry is written. *)
LEMMA InitInv == Init => FillInv
<1> SUFFICES ASSUME Init PROVE FillInv
  OBVIOUS
<1>1. /\ size \in Truncation /\ lm = 0 /\ im = 0 /\ l = 0 /\ pc = "fill"
      /\ li = [k \in 0 .. nlm - 1 |-> -1] /\ mi = [k \in 0 .. nlm - 1 |-> -1]
  BY DEF Init
<1>2. /\ size.lmax \in Nat /\ size.mmax \in Nat /\ size.mres \in Nat
  BY <1>1, SizeFacts
<1>3. TypeOK
  BY <1>1, <1>2 DEF TypeOK
<1>4. AtLiM
  BY <1>1, <1>2 DEF AtLiM, LiM
<1>5. NoUnexpectedError /\ DoneIsFull /\ Inverse
  BY <1>1 DEF NoUnexpectedError, DoneIsFull, Inverse
<1> QED BY <1>3, <1>4, <1>5 DEF FillInv

(* While an order is being filled, there is room for the entry. *)
LEMMA RoomLeft == FillInv => InBounds
<1> SUFFICES ASSUME FillInv, l <= size.lmax PROVE lm < nlm
  BY DEF InBounds
<1> DEFINE L == size.lmax
           r == size.mres
           M == size.mmax
<1>1. TypeOK /\ AtLiM
  BY DEF FillInv
<1>2. L \in Nat /\ r \in Nat /\ M \in Nat /\ M * r <= L
  BY <1>1, SizeFacts DEF TypeOK
<1>3. nlm = LiM(L, r, L + 1, M)
  BY <1>1, SizeFacts DEF TypeOK
<1>4. im \in Nat /\ im <= M /\ l \in Int
  <2>1. im \in 0 .. M /\ l \in im * r .. L + 1
    BY <1>1 DEF TypeOK
  <2>2. im * r \in Int
    BY <1>2, <2>1
  <2> QED BY <1>2, <2>1, <2>2
<1>5. lm = LiM(L, r, l, im)
  BY <1>1 DEF AtLiM
<1> HIDE DEF L, r, M
<1>6. LiM(L, r, L + 1, im) <= LiM(L, r, L + 1, M)
  BY <1>2, <1>4, OrdersGrow
<1>7. LiM(L, r, l, im) < LiM(L, r, L + 1, im)
  <2> DEFINE h == (im * (2 * L + 2 - (im + 1) * r)) \div 2
  <2>1. LiM(L, r, l, im) = h + l /\ LiM(L, r, L + 1, im) = h + L + 1
    BY <1>2, <1>4 DEF LiM
  <2>2. h \in Int
    BY <1>2, <1>4
  <2>3. l <= L
    BY DEF L
  <2> HIDE DEF h
  <2> QED BY <1>2, <1>4, <2>1, <2>2, <2>3
<1>8. LiM(L, r, l, im) \in Int /\ LiM(L, r, L + 1, im) \in Int /\ LiM(L, r, L + 1, M) \in Int
  BY <1>2, <1>4 DEF LiM
<1> QED BY <1>3, <1>5, <1>6, <1>7, <1>8

(* One entry is written where the macro looks for it. *)
LEMMA FillOneInv == FillInv /\ FillOne => FillInv'
<1> SUFFICES ASSUME FillInv, FillOne PROVE FillInv'
  OBVIOUS
<1> DEFINE L == size.lmax
           r == size.mres
           M == size.mmax
<1>1. TypeOK /\ AtLiM /\ NoUnexpectedError /\ DoneIsFull /\ Inverse
  BY DEF FillInv
<1>2. /\ pc = "fill" /\ l <= L
      /\ li' = [li EXCEPT ![lm] = l] /\ mi' = [mi EXCEPT ![lm] = im * r]
      /\ lm' = lm + 1 /\ l' = l + 1 /\ size' = size /\ im' = im /\ pc' = pc
  BY DEF FillOne
<1>3. /\ L \in Nat /\ r \in Nat /\ M \in Nat /\ r >= 1 /\ M * r <= L /\ nlm \in Nat
  BY <1>1, SizeFacts DEF TypeOK
<1>4. nlm' = nlm
  BY <1>2 DEF nlm
<1>5. lm \in 0 .. nlm - 1 /\ lm \in Nat
  BY <1>1, <1>2, <1>3, RoomLeft DEF InBounds, FillInv, TypeOK
<1>6. /\ im \in Nat /\ im <= M /\ im * r \in Nat /\ im * r <= M * r
      /\ l \in Int /\ im * r <= l
  <2>1. im \in 0 .. M /\ l \in im * r .. L + 1
    BY <1>1 DEF TypeOK
  <2>2. im * r \in Nat /\ im * r <= M * r
    BY <1>3, <2>1
  <2> QED BY <1>3, <2>1, <2>2
<1>7. /\ li' \in [0 .. nlm - 1 -> Int] /\ mi' \in [0 .. nlm - 1 -> Int]
      /\ li'[lm] = l /\ mi'[lm] = im * r
      /\ \A k \in 0 .. lm - 1 : li'[k] = li[k] /\ mi'[k] = mi[k]
  <2> HIDE DEF L, r, M
  <2>1. li \in [0 .. nlm - 1 -> Int] /\ mi \in [0 .. nlm - 1 -> Int]
    BY <1>1 DEF TypeOK
  <2>2. l \in Int /\ im * r \in Int
    BY <1>6
  <2>3. li' = [li EXCEPT ![lm] = l] /\ mi' = [mi EXCEPT ![lm] = im * r]
    BY <1>2
  <2> DEFINE x == im * r
             n == nlm
  <2> HIDE DEF x, n
  <2>4. li' \in [0 .. n - 1 -> Int] /\ mi' \in [0 .. n - 1 -> Int]
    BY <1>5, <2>1, <2>2, <2>3 DEF x, n
  <2>5. li'[lm] = l /\ mi'[lm] = x
    BY <1>5, <2>1, <2>3 DEF x, n
  <2>6. \A k \in 0 .. lm - 1 : li'[k] = li[k] /\ mi'[k] = mi[k]
    BY <1>5, <2>1, <2>3, <2>2
  <2> QED BY <2>4, <2>5, <2>6 DEF x, n
<1> HIDE DEF L, r, M
<1>8. TypeOK'
  <2>1. l' \in im * r .. L + 1
    BY <1>2, <1>3, <1>6
  <2>2. pc' \in {"fill", "done", "error"} /\ size' \in Truncation /\ lm' \in Nat
    BY <1>1, <1>2, <1>5 DEF TypeOK
  <2>3. im' \in 0 .. M
    BY <1>2, <1>3, <1>6
  <2> QED BY <1>2, <1>4, <1>7, <2>1, <2>2, <2>3 DEF TypeOK, L, r, M
<1>9. AtLiM'
  <2>1. lm = LiM(L, r, l, im)
    BY <1>1 DEF AtLiM, L, r
  <2>2. LiM(L, r, l + 1, im) = LiM(L, r, l, im) + 1
    <3> DEFINE h == (im * (2 * L + 2 - (im + 1) * r)) \div 2
    <3>1. h \in Int
      BY <1>3, <1>6
    <3>2. LiM(L, r, l, im) = h + l /\ LiM(L, r, l + 1, im) = h + (l + 1)
      BY DEF LiM
    <3> HIDE DEF h
    <3> QED BY <1>6, <3>1, <3>2
  <2> QED BY <1>2, <2>1, <2>2 DEF AtLiM, L, r
<1>10. NoUnexpectedError' /\ DoneIsFull'
  BY <1>2 DEF NoUnexpectedError, DoneIsFull
<1>11. Inverse'
  <2> SUFFICES ASSUME NEW k \in 0 .. lm
               PROVE  /\ mi'[k] \in 0 .. M * r
                      /\ mi'[k] % r = 0
                      /\ li'[k] \in mi'[k] .. L
                      /\ LM(L, r, li'[k], mi'[k]) = k
    BY <1>2, <1>5 DEF Inverse, L, r, M
  <2>1. CASE k # lm
    <3>1. k \in 0 .. lm - 1
      BY <1>5, <2>1
    <3> QED BY <1>1, <1>7, <3>1 DEF Inverse, L, r, M
  <2>2. CASE k = lm
    <3>1. /\ LM(L, r, l, im * r) = LiM(L, r, l, im) /\ (im * r) % r = 0
      BY <1>3, <1>6, LMIsLiM
    <3>2. LiM(L, r, l, im) = lm
      BY <1>1 DEF AtLiM, L, r
    <3>3. im * r \in 0 .. M * r /\ l \in im * r .. L
      BY <1>2, <1>3, <1>6 DEF L
    <3> QED BY <1>7, <2>2, <3>1, <3>2, <3>3
  <2> QED BY <2>1, <2>2
<1> QED BY <1>8, <1>9, <1>10, <1>11 DEF FillInv

(* The next order starts where the last one ended. *)
LEMMA NextOrderInv == FillInv /\ NextOrder => FillInv'
<1> SUFFICES ASSUME FillInv, NextOrder PROVE FillInv'
  OBVIOUS
<1> DEFINE L == size.lmax
           r == size.mres
           M == size.mmax
<1>1. TypeOK /\ AtLiM /\ NoUnexpectedError /\ DoneIsFull /\ Inverse
  BY DEF FillInv
<1>2. /\ pc = "fill" /\ l > L /\ im < M /\ im' = im + 1 /\ l' = (im + 1) * r
      /\ UNCHANGED <<size, li, mi, lm, pc>>
  BY DEF NextOrder
<1>3. /\ L \in Nat /\ r \in Nat /\ M \in Nat /\ r >= 1 /\ M * r <= L
  BY <1>1, SizeFacts DEF TypeOK
<1>4. im \in Nat /\ l = L + 1
  <2>1. im \in 0 .. M /\ l \in im * r .. L + 1
    BY <1>1 DEF TypeOK
  <2>2. im * r \in Nat
    BY <1>3, <2>1
  <2> QED BY <1>2, <1>3, <2>1, <2>2
<1>5. nlm' = nlm
  BY <1>2 DEF nlm
<1>6. TypeOK'
  <2>1. (im + 1) * r \in Nat /\ (im + 1) * r <= M * r
    BY <1>2, <1>3, <1>4
  <2>2. l' \in im' * r .. L + 1
    BY <1>2, <1>3, <2>1
  <2>3. im' \in 0 .. M
    BY <1>2, <1>3, <1>4
  <2> QED BY <1>1, <1>2, <1>5, <2>2, <2>3 DEF TypeOK
<1>7. AtLiM'
  <2>1. lm = LiM(L, r, L + 1, im)
    BY <1>1, <1>4 DEF AtLiM
  <2>2. LiM(L, r, L + 1, im) = LiM(L, r, (im + 1) * r, im + 1)
    BY <1>3, <1>4, OrdersMeet
  <2> QED BY <1>2, <2>1, <2>2 DEF AtLiM
<1>8. NoUnexpectedError' /\ DoneIsFull' /\ Inverse'
  BY <1>1, <1>2 DEF NoUnexpectedError, DoneIsFull, Inverse
<1> QED BY <1>6, <1>7, <1>8 DEF FillInv

(* When the last order is filled, the two counts are the same. *)
LEMMA FinishInv == FillInv /\ Finish => FillInv'
<1> SUFFICES ASSUME FillInv, Finish PROVE FillInv'
  OBVIOUS
<1> DEFINE L == size.lmax
           r == size.mres
           M == size.mmax
<1>1. TypeOK /\ AtLiM /\ Inverse
  BY DEF FillInv
<1>2. /\ l > L /\ im = M /\ pc' = IF lm # nlm THEN "error" ELSE "done"
      /\ UNCHANGED <<size, li, mi, lm, im, l>>
  BY DEF Finish
<1>3. /\ L \in Nat /\ r \in Nat /\ M \in Nat /\ nlm = LiM(L, r, L + 1, M)
  BY <1>1, SizeFacts DEF TypeOK
<1>4. l = L + 1
  <2>1. l \in im * r .. L + 1 /\ im * r \in Nat
    BY <1>1, <1>2, <1>3 DEF TypeOK
  <2> QED BY <1>2, <1>3, <2>1
<1>5. lm = nlm
  BY <1>1, <1>2, <1>3, <1>4 DEF AtLiM
<1>6. pc' = "done" /\ nlm' = nlm
  BY <1>2, <1>5 DEF nlm
<1>7. TypeOK'
  BY <1>1, <1>2, <1>6 DEF TypeOK
<1>8. AtLiM' /\ NoUnexpectedError' /\ DoneIsFull' /\ Inverse'
  BY <1>1, <1>2, <1>5, <1>6 DEF AtLiM, NoUnexpectedError, DoneIsFull, Inverse
<1> QED BY <1>7, <1>8 DEF FillInv

-----------------------------------------------------------------------------
(* The invariant of the fill loop holds for every truncation. *)
THEOREM FillInvariant == Spec => []FillInv
<1>1. FillInv /\ UNCHANGED vars => FillInv'
  <2> SUFFICES ASSUME FillInv, UNCHANGED vars PROVE FillInv'
    OBVIOUS
  <2>1. UNCHANGED <<size, li, mi, lm, im, l, pc>> /\ nlm' = nlm
    BY DEF vars, nlm
  <2>2. TypeOK' /\ AtLiM'
    BY <2>1 DEF FillInv, TypeOK, AtLiM
  <2>3. NoUnexpectedError' /\ DoneIsFull' /\ Inverse'
    BY <2>1 DEF FillInv, NoUnexpectedError, DoneIsFull, Inverse
  <2> QED BY <2>2, <2>3 DEF FillInv
<1>2. FillInv /\ [Next]_vars => FillInv'
  BY <1>1, FillOneInv, NextOrderInv, FinishInv DEF Next
<1> QED BY <1>2, InitInv, PTL DEF Spec

(* The variables of the loop keep their types. *)
THEOREM FillTypeCorrect == Spec => []TypeOK
<1>1. FillInv => TypeOK
  BY DEF FillInv
<1> QED BY <1>1, FillInvariant, PTL

(* The loop counts like the macro LiM, for every truncation. *)
THEOREM LoopCountsLikeLiM == Spec => []AtLiM
<1>1. FillInv => AtLiM
  BY DEF FillInv
<1> QED BY <1>1, FillInvariant, PTL

(* No entry is ever written outside the arrays. *)
THEOREM NeverOutOfBounds == Spec => []InBounds
<1> QED BY FillInvariant, RoomLeft, PTL

(* The check of shtns_create after the loop never stops the program. *)
THEOREM NeverUnexpectedError == Spec => []NoUnexpectedError
<1>1. FillInv => NoUnexpectedError
  BY DEF FillInv
<1> QED BY <1>1, FillInvariant, PTL

(* Every entry that is written is where the macro LM looks for it. *)
THEOREM ArraysInvertLM == Spec => []Inverse
<1>1. FillInv => Inverse
  BY DEF FillInv
<1> QED BY <1>1, FillInvariant, PTL

(* Up to the greatest degree whose square fits an int, LiM never overflows.  *)
THEOREM LiMAlwaysFits == Spec => []LiMFits
<1>1. FillInv => LiMFits
  <2> SUFFICES ASSUME FillInv, size.lmax <= ShortMax, size.mres <= ShortMax,
                      size.lmax * (size.lmax + 1) <= IntMax, l <= size.lmax
               PROVE  LiMSteps(size.lmax, size.mres, l, im) \subseteq -IntMax - 1 .. IntMax
    BY DEF LiMFits
  <2> DEFINE L == size.lmax
             r == size.mres
             M == size.mmax
  <2>1. /\ size \in Truncation /\ im \in 0 .. M /\ l \in im * r .. L + 1
    BY DEF FillInv, TypeOK
  <2>2. L \in Nat /\ M \in Nat /\ r \in Nat /\ L >= 1 /\ r >= 1 /\ M * r <= L
    BY <2>1, SizeFacts
  <2>3. im \in Nat /\ im <= M /\ ShortMax \in Nat /\ IntMax \in Nat
        /\ IntMax >= 3 * ShortMax + 2
    BY <2>1, <2>2, WidthAssumption
  <2>4. L <= ShortMax /\ r <= ShortMax /\ L * (L + 1) <= IntMax /\ l <= L
    OBVIOUS
  <2> HIDE DEF L, r, M
  <2>5. im * r <= L /\ im * r \in Nat
    <3>1. im * r <= M * r
      BY <2>2, <2>3
    <3>2. im * r \in Nat /\ M * r \in Nat
      BY <2>2, <2>3
    <3> QED BY <2>2, <3>1, <3>2
  <2>6. l \in Nat
    BY <2>1, <2>2, <2>5
  <2>7. LiMSteps(L, r, l, im) \subseteq -IntMax - 1 .. IntMax
    BY <2>2, <2>3, <2>4, <2>5, <2>6, LiMWidth
  <2> QED BY <2>7 DEF L, r
<1> QED BY <1>1, FillInvariant, PTL

-----------------------------------------------------------------------------
(* LiM is a base, which depends on the order only, plus the degree. *)
LEMMA LiMOfDegree ==
  ASSUME NEW lmax \in Nat, NEW mres \in Nat, NEW d \in Int, NEW e \in Int, NEW n \in Nat
  PROVE  /\ LiM(lmax, mres, d, n) \in Int
         /\ LiM(lmax, mres, e, n) = LiM(lmax, mres, d, n) + (e - d)
<1> DEFINE h == (n * (2 * lmax + 2 - (n + 1) * mres)) \div 2
<1>1. h \in Int
  OBVIOUS
<1>2. LiM(lmax, mres, d, n) = h + d /\ LiM(lmax, mres, e, n) = h + e
  BY DEF LiM
<1> HIDE DEF h
<1> QED BY <1>1, <1>2

(* A multiple of mres is its quotient times mres. *)
LEMMA MultipleOf ==
  ASSUME NEW x \in Nat, NEW y \in Nat, y >= 1, x % y = 0
  PROVE  x \div y \in Nat /\ x = (x \div y) * y
OBVIOUS

(* What the arrays say of a position that is written: the order index, and   *)
(* the macro that gives the position back.                                   *)
LEMMA Entry ==
  ASSUME FillInv, NEW k \in 0 .. lm - 1
  PROVE  LET L == size.lmax
             r == size.mres
             n == mi[k] \div r
         IN  /\ n \in Nat /\ mi[k] = n * r /\ li[k] \in Nat
             /\ n * r <= li[k] /\ li[k] <= L
             /\ k = LiM(L, r, li[k], n)
<1> DEFINE L == size.lmax
           r == size.mres
           M == size.mmax
           n == mi[k] \div r
<1>1. /\ L \in Nat /\ r \in Nat /\ M \in Nat /\ r >= 1 /\ M * r <= L
  BY SizeFacts DEF FillInv, TypeOK
<1>2. /\ mi[k] \in 0 .. M * r /\ mi[k] % r = 0 /\ li[k] \in mi[k] .. L
      /\ LM(L, r, li[k], mi[k]) = k
  BY DEF FillInv, Inverse
<1>3. M * r \in Nat /\ mi[k] \in Nat /\ li[k] \in Nat /\ mi[k] <= li[k] /\ li[k] <= L
  BY <1>1, <1>2
<1>4. n \in Nat /\ mi[k] = n * r
  <2>1. \A x, y \in Nat : y >= 1 /\ x % y = 0 => x \div y \in Nat /\ x = (x \div y) * y
    BY MultipleOf
  <2> QED BY <1>1, <1>2, <1>3, <2>1
<1> HIDE DEF L, r, M, n
<1>5. k = LiM(L, r, li[k], n)
  <2>1. \A d \in Int, x \in Nat : LM(L, r, d, x * r) = LiM(L, r, d, x)
    BY <1>1, LMIsLiM
  <2>2. LM(L, r, li[k], n * r) = k
    BY <1>2, <1>4
  <2> QED BY <1>3, <1>4, <2>1, <2>2
<1> QED BY <1>3, <1>4, <1>5 DEF L, r, n

(* When the arrays are full, their first entries are those of any            *)
(* configuration with fewer orders.                                          *)
LEMMA PrefixFits == FillInv => BorrowersFit
<1> DEFINE L == size.lmax
           r == size.mres
           M == size.mmax
<1> SUFFICES ASSUME FillInv, pc = "done", NEW mm \in 0 .. M, NEW k \in 0 .. nlm - 1
             PROVE  mi[k] <= mm * r <=> k < nlm_calc(L, mm, r)
  BY DEF BorrowersFit
<1>1. TypeOK /\ Inverse /\ lm = nlm
  BY DEF FillInv, DoneIsFull
<1>2. /\ L \in Nat /\ r \in Nat /\ M \in Nat /\ r >= 1 /\ M * r <= L /\ nlm \in Nat
  BY <1>1, SizeFacts DEF TypeOK
<1> DEFINE n == mi[k] \div r
<1>3. /\ n \in Nat /\ mi[k] = n * r /\ li[k] \in Nat /\ n * r <= li[k] /\ li[k] <= L
      /\ k = LiM(L, r, li[k], n)
  BY <1>1, Entry
<1>4. M * r \in Nat /\ mi[k] \in Nat /\ li[k] \in Int /\ mi[k] <= li[k] /\ li[k] <= L
  BY <1>2, <1>3
<1> HIDE DEF L, r, M, n
<1>5. n \in Nat /\ mi[k] = n * r
  BY <1>3
<1>6. k = LiM(L, r, li[k], n)
  BY <1>3
<1>7. mm \in Nat /\ mm <= M /\ mm * r <= L
  <2>1. mm \in Nat /\ mm <= M
    BY <1>2
  <2>2. mm * r <= M * r /\ mm * r \in Nat
    BY <1>2, <2>1
  <2> QED BY <1>2, <1>4, <2>1, <2>2
<1>8. nlm_calc(L, mm, r) = LiM(L, r, L + 1, mm)
  BY <1>2, <1>7, NlmIsEnd
<1>9. CASE n <= mm
  <2>1. mi[k] <= mm * r
    BY <1>2, <1>5, <1>7, <1>9
  <2>2. LiM(L, r, L + 1, n) <= LiM(L, r, L + 1, mm)
    BY <1>2, <1>5, <1>7, <1>9, OrdersGrow
  <2>3. /\ LiM(L, r, li[k], n) \in Int
        /\ LiM(L, r, L + 1, n) = LiM(L, r, li[k], n) + (L + 1 - li[k])
    <3>1. L + 1 \in Int
      BY <1>2
    <3> QED BY <1>2, <1>4, <1>5, <3>1, LiMOfDegree
  <2>4. LiM(L, r, L + 1, mm) \in Int
    <3>1. L + 1 \in Int
      BY <1>2
    <3> QED BY <1>2, <1>7, <3>1, LiMOfDegree
  <2> QED BY <1>2, <1>4, <1>6, <1>8, <2>1, <2>2, <2>3, <2>4
<1>10. CASE n > mm
  <2> DEFINE p == n - 1
  <2>1. p \in Nat /\ mm <= p /\ n = p + 1
    BY <1>5, <1>7, <1>10
  <2>2. n * r <= L /\ p * r <= n * r /\ p * r \in Nat /\ n * r \in Nat
    BY <1>2, <1>4, <1>5, <2>1
  <2> HIDE DEF p
  <2>3. p * r <= L
    BY <1>2, <2>2
  <2>4. LiM(L, r, L + 1, mm) <= LiM(L, r, L + 1, p)
    BY <1>2, <1>7, <2>1, <2>3, OrdersGrow
  <2>5. LiM(L, r, L + 1, p) = LiM(L, r, n * r, n)
    BY <1>2, <2>1, OrdersMeet
  <2>6. /\ LiM(L, r, n * r, n) \in Int
        /\ LiM(L, r, li[k], n) = LiM(L, r, n * r, n) + (li[k] - n * r)
    <3>1. n * r \in Int
      BY <2>2
    <3> QED BY <1>2, <1>4, <1>5, <3>1, LiMOfDegree
  <2>7. LiM(L, r, L + 1, mm) \in Int
    <3>1. L + 1 \in Int
      BY <1>2
    <3> QED BY <1>2, <1>7, <3>1, LiMOfDegree
  <2>8. k >= LiM(L, r, L + 1, mm)
    BY <1>4, <1>5, <1>6, <2>2, <2>4, <2>5, <2>6, <2>7
  <2>9. ~ (mi[k] <= mm * r)
    <3>1. (mm + 1) * r <= n * r /\ (mm + 1) * r = mm * r + r /\ mm * r \in Nat
      BY <1>2, <1>5, <1>7, <1>10
    <3> QED BY <1>2, <1>5, <2>2, <3>1
  <2> QED BY <1>8, <2>7, <2>8, <2>9
<1> QED BY <1>5, <1>7, <1>9, <1>10 DEF L, r

(* A configuration that borrows the arrays of one with more orders finds     *)
(* exactly its own coefficients in the part it reads.                        *)
THEOREM BorrowersAlwaysFit == Spec => []BorrowersFit
<1> QED BY FillInvariant, PrefixFits, PTL

(* The square root finds the order the loop wrote at each position, whatever *)
(* the truncation and the step of its orders.                                *)
THEOREM RootAlwaysAgrees == Spec => []RootAgrees
<1>1. FillInv => RootAgrees
  <2> SUFFICES ASSUME FillInv, NEW k \in 0 .. lm - 1
               PROVE  im_from_lm(k, size.lmax, size.mres) * size.mres = mi[k]
    BY DEF RootAgrees
  <2> DEFINE L == size.lmax
             r == size.mres
             n == mi[k] \div r
  <2>1. L \in Nat /\ r \in Nat /\ r >= 1
    BY SizeFacts DEF FillInv, TypeOK
  <2>2. /\ n \in Nat /\ mi[k] = n * r /\ li[k] \in Nat
        /\ n * r <= li[k] /\ li[k] <= L
        /\ k = LiM(L, r, li[k], n)
    BY Entry
  <2> HIDE DEF L, r, n
  <2>3. im_from_lm(k, L, r) = n
    BY <2>1, <2>2, RootIsOrder
  <2> QED BY <2>2, <2>3 DEF L, r
<1> QED BY <1>1, FillInvariant, PTL

(* Two real fields less their order 0, written once, are a complex field.    *)
LEMMA CountsAgree == FillInv => CplxCount
<1>1. FillInv => CplxCount
  <2> SUFFICES ASSUME FillInv PROVE CplxCount
    OBVIOUS
  <2> DEFINE L == size.lmax
             r == size.mres
             M == size.mmax
             h == ((M * r) * (M + 1)) \div 2
             t == Triangle(M)
  <2>1. L \in Nat /\ r \in Nat /\ M \in Nat /\ M * r <= L /\ M * r \in Nat
    BY SizeFacts DEF FillInv, TypeOK
  <2>2. t \in Nat /\ M * (M + 1) = 2 * t
    BY <2>1, TriangleExact
  <2> HIDE DEF t
  <2>3. (M * r) * (M + 1) = 2 * (r * t) /\ r * t \in Nat
    <3>1. (M * r) * (M + 1) = r * (M * (M + 1))
      BY <2>1
    <3> QED BY <2>1, <2>2, <3>1
  <2>4. h = r * t
    <3> DEFINE b == r * t
    <3>1. b \in Nat /\ (M * r) * (M + 1) = 2 * b
      BY <2>3
    <3> HIDE DEF b
    <3>2. (2 * b) \div 2 = b
      BY <3>1
    <3> QED BY <3>1, <3>2 DEF b
  <2>5. nlm = (M + 1) * (L + 1) - h
    BY <2>1 DEF nlm, nlm_calc
  <2>6. nlm_cplx_calc(L, M, r) = (2 * M + 1) * (L + 1) - (M * r) * (M + 1)
    BY <2>1 DEF nlm_cplx_calc
  <2>7. 2 * ((M + 1) * (L + 1)) - (L + 1) = (2 * M + 1) * (L + 1)
    BY <2>1
  <2> HIDE DEF h
  <2>8. nlm_cplx = 2 * ((M + 1) * (L + 1)) - 2 * (r * t) - (L + 1)
    <3>1. (M + 1) * (L + 1) \in Nat
      BY <2>1
    <3> QED BY <2>1, <2>3, <2>4, <2>5, <3>1 DEF nlm_cplx
  <2> QED BY <2>1, <2>3, <2>6, <2>7, <2>8 DEF CplxCount
<1> QED BY <1>1

(* The two ways shtns_create and nlm_cplx_calc count the coefficients of a   *)
(* complex field agree.                                                      *)
THEOREM CplxCountAgrees == Spec => []CplxCount
<1> QED BY CountsAgree, FillInvariant, PTL

-----------------------------------------------------------------------------
(* Whatever the complex field, what its two real fields hold of a position   *)
(* combines to the coefficients they were split from, of both signs.         *)
THEOREM ValuesReturn ==
  ASSUME NEW Zlm, NEW k \in 0 .. nlm - 1, mi[k] \in Nat,
         \A p \in {Centre(k) + mi[k], Centre(k) - mi[k], Centre(k)} :
           Zlm[p] \in [re : Int, im : Int]
  PROVE  Combined(SH_cplx_to_2real(Zlm), k) =
           IF mi[k] = 0
           THEN {[at |-> Centre(k), value |-> Twice(Zlm[Centre(k)])]}
           ELSE {[at |-> Centre(k) + mi[k], value |-> Twice(Zlm[Centre(k) + mi[k]])],
                 [at |-> Centre(k) - mi[k], value |-> Twice(Zlm[Centre(k) - mi[k]])]}
<1> DEFINE c == Centre(k)
           m == mi[k]
           F == SH_cplx_to_2real(Zlm)
<1>1. F[k] = Split(Zlm, k)
  BY DEF SH_cplx_to_2real
<1>2. CASE m = 0
  <2>1. F[k].real.re = Twice(Zlm[c]).re /\ F[k].imag.re = Twice(Zlm[c]).im
    BY <1>1, <1>2 DEF Split
  <2>2. Twice(Zlm[c]) = [re |-> Twice(Zlm[c]).re, im |-> Twice(Zlm[c]).im]
    BY DEF Twice, Plus
  <2> QED BY <1>2, <2>1, <2>2 DEF Combined
<1>3. CASE m # 0
  <2> DEFINE y == Zlm[c + m]
             z == Zlm[c - m]
  <2>1. /\ y \in [re : Int, im : Int] /\ z \in [re : Int, im : Int]
    OBVIOUS
  <2>2. /\ F[k].real = Plus(conj(Signed(m, z)), y)
        /\ F[k].imag = TimesI(Plus(conj(Signed(m, z)), Minus(y)))
    BY <1>1, <1>3 DEF Split
  <2>3. Combined(F, k) =
          {[at |-> c + m, value |-> Plus(F[k].real, TimesI(F[k].imag))],
           [at |-> c - m, value |-> Signed(m, Plus(conj(F[k].real), TimesI(conj(F[k].imag))))]}
    BY <1>3 DEF Combined
  <2> HIDE DEF y, z, c, m, F
  <2>4. Plus(F[k].real, TimesI(F[k].imag)) = Twice(y)
    BY <2>1, <2>2 DEF Plus, TimesI, Minus, Signed, conj, Twice
  <2>5. Signed(m, Plus(conj(F[k].real), TimesI(conj(F[k].imag)))) = Twice(z)
    BY <2>1, <2>2 DEF Plus, TimesI, Minus, Signed, conj, Twice
  <2> QED BY <1>3, <2>3, <2>4, <2>5 DEF y, z, c, m, F
<1> QED BY <1>2, <1>3

-----------------------------------------------------------------------------
(* The running index of an order is at each degree where the macro LM_cplx   *)
(* has the order 0 of that degree.                                           *)
LEMMA RunningIsCentre ==
  ASSUME size.lmax \in Nat, size.mmax \in Nat, NEW m \in 0 .. size.mmax,
         NEW d \in m .. size.lmax
  PROVE  Running(m)[d] = LM_cplx(size.mmax, d, 0)
<1> DEFINE L == size.lmax
           M == size.mmax
           step(e) == IF e <= M THEN 2 * e ELSE 2 * M + 1
           body(g) == [e \in m .. L |-> (IF e = m THEN (m - 1) * m ELSE g[e - 1]) + step(e)]
           closed == [e \in m .. L |-> LM_cplx(M, e, 0)]
           ll == CHOOSE g : g = body(g)
           S == {e \in m .. L : ll[e] # LM_cplx(M, e, 0)}
<1>1. L \in Nat /\ M \in Nat /\ m \in Nat /\ m <= M
  OBVIOUS
<1>2. Running(m) = ll
  BY DEF Running
<1> HIDE DEF L, M
<1>3. LM_cplx(M, m, 0) = (m - 1) * m + step(m)
  <2>1. LM_cplx(M, m, 0) = m * (m + 1) + 0
    BY <1>1 DEF LM_cplx
  <2>2. step(m) = 2 * m /\ m * (m + 1) + 0 = (m - 1) * m + 2 * m
    BY <1>1
  <2> QED BY <2>1, <2>2
<1>4. ASSUME NEW e \in m .. L, e # m PROVE LM_cplx(M, e, 0) = LM_cplx(M, e - 1, 0) + step(e)
  <2>1. e \in Nat /\ 0 \in Int
    BY <1>1
  <2> QED BY <1>1, <2>1, CplxStep
<1> HIDE DEF step
<1>5. closed = body(closed)
  <2>1. ASSUME NEW e \in m .. L
        PROVE  LM_cplx(M, e, 0) = (IF e = m THEN (m - 1) * m ELSE closed[e - 1]) + step(e)
    <3>1. CASE e = m
      BY <1>3, <3>1
    <3>2. CASE e # m
      <4>1. e - 1 \in m .. L
        BY <1>1, <3>2
      <4> QED BY <1>4, <3>2, <4>1
    <3> QED BY <3>1, <3>2
  <2> QED BY <2>1
<1>6. ll = body(ll)
  BY <1>5
<1> HIDE DEF ll
<1>7. \A e \in m .. L : ll[e] = (IF e = m THEN (m - 1) * m ELSE ll[e - 1]) + step(e)
  BY <1>6
<1>8. S = {}
  <2> SUFFICES ASSUME S # {} PROVE FALSE
    OBVIOUS
  <2>1. PICK x \in S : \A y \in S : x <= y
    <3>1. S \in SUBSET Nat
      BY <1>1
    <3> HIDE DEF S
    <3> QED BY <3>1, LeastNatural
  <2>2. x \in m .. L /\ ll[x] # LM_cplx(M, x, 0)
    OBVIOUS
  <2>3. x # m
    BY <1>3, <1>7, <2>2
  <2>4. x - 1 \in m .. L /\ x - 1 \notin S
    BY <1>1, <2>1, <2>2, <2>3
  <2>5. ll[x] = LM_cplx(M, x - 1, 0) + step(x)
    BY <1>7, <2>2, <2>3, <2>4
  <2> QED BY <1>4, <2>2, <2>3, <2>5
<1> QED BY <1>2, <1>8 DEF L, M

(* Every coefficient of the truncation has an entry in the arrays.           *)
LEMMA EntryOfCoefficient ==
  ASSUME FillInv, lm = nlm, size.mres = 1,
         NEW n \in 0 .. size.mmax, NEW d \in n .. size.lmax
  PROVE  \E k \in 0 .. nlm - 1 : mi[k] = n /\ li[k] = d
<1> DEFINE L == size.lmax
           M == size.mmax
           k == LiM(L, 1, d, n)
<1>1. /\ L \in Nat /\ M \in Nat /\ M <= L /\ nlm \in Nat
      /\ nlm = LiM(L, 1, L + 1, M)
  BY SizeFacts DEF FillInv, TypeOK
<1>2. n \in Nat /\ d \in Nat /\ n <= M /\ n <= d /\ d <= L
  BY <1>1
<1> HIDE DEF L, M
<1>3. k \in 0 .. nlm - 1
  <2> DEFINE p == n * (2 * L + 2 - (n + 1) * 1)
  <2>1. p \in Nat
    <3>1. 1 \in Nat /\ 1 >= 1 /\ n * 1 <= L
      BY <1>1, <1>2
    <3>2. p \in 0 .. L * (L + 1)
      BY <1>1, <1>2, <3>1, LiMProduct
    <3>3. L * (L + 1) \in Nat
      BY <1>1
    <3> HIDE DEF p
    <3> QED BY <3>2, <3>3
  <2>2. k = p \div 2 + d
    BY DEF LiM
  <2> HIDE DEF p
  <2>3. k \in Nat
    <3>1. p \div 2 \in Nat
      BY <2>1
    <3> HIDE DEF k
    <3> QED BY <1>2, <2>2, <3>1
  <2>4. LiM(L, 1, L + 1, n) = k + (L + 1 - d)
    <3>1. 1 \in Nat /\ L + 1 \in Int /\ d \in Int
      BY <1>1, <1>2
    <3> QED BY <1>1, <1>2, <3>1, LiMOfDegree
  <2>5. LiM(L, 1, L + 1, n) <= nlm
    <3>1. 1 \in Nat /\ M * 1 <= L
      BY <1>1
    <3> QED BY <1>1, <1>2, <3>1, OrdersGrow
  <2> HIDE DEF k
  <2> QED BY <1>1, <1>2, <2>3, <2>4, <2>5
<1>4. /\ mi[k] \in Nat /\ li[k] \in Nat /\ mi[k] <= li[k] /\ li[k] <= L
      /\ k = LiM(L, 1, li[k], mi[k])
  <2> HIDE DEF k
  <2>1. k \in 0 .. lm - 1
    BY <1>3
  <2> DEFINE q == mi[k] \div 1
  <2>2. /\ q \in Nat /\ mi[k] = q * 1 /\ li[k] \in Nat
        /\ q * 1 <= li[k] /\ li[k] <= L
        /\ k = LiM(L, 1, li[k], q)
    BY <2>1, Entry DEF L
  <2> HIDE DEF q
  <2>3. mi[k] = q
    BY <2>2
  <2> QED BY <2>2, <2>3
<1> DEFINE o == mi[k]
           e == li[k]
<1>5. \A x, y \in Nat : x <= y /\ y <= L => im_from_lm(LiM(L, 1, y, x), L, 1) = x
  <2> TAKE x, y \in Nat
  <2> HAVE x <= y /\ y <= L
  <2>1. 1 \in Nat /\ 1 >= 1 /\ x * 1 <= y
    OBVIOUS
  <2> QED BY <1>1, <2>1, RootIsOrder
<1>6. o = n
  <2> HIDE DEF o, e
  <2>1. im_from_lm(LiM(L, 1, e, o), L, 1) = o /\ im_from_lm(LiM(L, 1, d, n), L, 1) = n
    BY <1>2, <1>4, <1>5 DEF o, e
  <2>2. LiM(L, 1, e, o) = LiM(L, 1, d, n)
    BY <1>4 DEF o, e
  <2> QED BY <2>1, <2>2
<1>7. e = d
  <2> HIDE DEF o, e
  <2>1. 1 \in Nat /\ e \in Int /\ d \in Int
    BY <1>2, <1>4 DEF e
  <2>2. LiM(L, 1, e, n) = LiM(L, 1, d, n) + (e - d) /\ LiM(L, 1, d, n) \in Int
    BY <1>1, <1>2, <2>1, LiMOfDegree
  <2>3. LiM(L, 1, e, n) = LiM(L, 1, d, n)
    BY <1>4, <1>6 DEF o, e
  <2> QED BY <2>1, <2>2, <2>3
<1> QED BY <1>3, <1>6, <1>7

(* Where the two signs of a position are in the complex array.               *)
LEMMA BothSides ==
  ASSUME FillInv, lm = nlm, size.mres = 1, NEW k \in 0 .. nlm - 1
  PROVE  /\ mi[k] \in Nat
         /\ Centre(k) + mi[k] = LM_cplx(size.mmax, li[k], mi[k])
         /\ Centre(k) - mi[k] = LM_cplx(size.mmax, li[k], -mi[k])
         /\ Centre(k) = LM_cplx(size.mmax, li[k], 0)
         /\ {Centre(k) + mi[k], Centre(k) - mi[k], Centre(k)} \subseteq 0 .. nlm_cplx - 1
<1> DEFINE L == size.lmax
           M == size.mmax
           N == nlm_cplx
           m == mi[k]
           d == li[k]
           c == Centre(k)
<1>1. /\ L \in Nat /\ M \in Nat /\ M <= L
      /\ N = nlm_cplx_calc(L, M, 1)
  BY SizeFacts, CountsAgree DEF FillInv, TypeOK, CplxCount
<1>2. m \in Nat /\ d \in Nat /\ m <= d /\ d <= L /\ m <= M
  <2>1. /\ m \in 0 .. M * 1 /\ d \in m .. L
    BY DEF FillInv, Inverse
  <2> HIDE DEF m, d, L, M
  <2>2. M * 1 = M
    BY <1>1
  <2> QED BY <1>1, <2>1, <2>2
<1>3. c = LM_cplx(M, d, 0)
  <2>1. m \in 0 .. M /\ d \in m .. L
    BY <1>1, <1>2
  <2>2. Running(m)[d] = LM_cplx(M, d, 0)
    BY <1>1, <2>1, RunningIsCentre
  <2> QED BY <2>2 DEF Centre
<1> HIDE DEF L, M, N, m, d, c
<1>4. \A j \in Int : LM_cplx(M, d, j) = LM_cplx(M, d, 0) + j /\ LM_cplx(M, d, 0) \in Int
  <2> TAKE j \in Int
  <2>1. CASE d <= M
    <3>1. d * (d + 1) \in Int
      BY <1>2
    <3>2. LM_cplx(M, d, j) = d * (d + 1) + j /\ LM_cplx(M, d, 0) = d * (d + 1) + 0
      BY <2>1 DEF LM_cplx
    <3> DEFINE q == d * (d + 1)
    <3> HIDE DEF q
    <3> QED BY <3>1, <3>2 DEF q
  <2>2. CASE ~ (d <= M)
    <3>1. M * (2 * d - M) + d \in Int
      BY <1>1, <1>2
    <3>2. LM_cplx(M, d, j) = M * (2 * d - M) + d + j
          /\ LM_cplx(M, d, 0) = M * (2 * d - M) + d + 0
      BY <2>2 DEF LM_cplx
    <3> DEFINE q == M * (2 * d - M) + d
    <3> HIDE DEF q
    <3> QED BY <3>1, <3>2 DEF q
  <2> QED BY <2>1, <2>2
<1>5. -m \in Int /\ m \in Int /\ 0 \in Int /\ c \in Int
  BY <1>2, <1>3, <1>4
<1>6. c + m = LM_cplx(M, d, m) /\ c - m = LM_cplx(M, d, -m)
  <2>1. LM_cplx(M, d, m) = c + m /\ LM_cplx(M, d, -m) = c + (-m)
    BY <1>3, <1>4, <1>5
  <2>2. c + (-m) = c - m
    BY <1>5
  <2> QED BY <2>1, <2>2
<1>7. ASSUME NEW j \in Int, j \in {m, -m, 0} PROVE LM_cplx(M, d, j) \in 0 .. N - 1
  <2>1. j <= d /\ j <= M /\ -d <= j /\ -M <= j
    BY <1>1, <1>2, <1>7
  <2>2. LM_cplx(M, d, j) \in 0 .. nlm_cplx_calc(L, M, 1) - 1
    BY <1>1, <1>2, <2>1, CplxReach
  <2> QED BY <1>1, <2>2
<1>8. {c + m, c - m, c} \subseteq 0 .. N - 1
  <2>1. LM_cplx(M, d, m) \in 0 .. N - 1 /\ LM_cplx(M, d, -m) \in 0 .. N - 1
        /\ LM_cplx(M, d, 0) \in 0 .. N - 1
    BY <1>5, <1>7
  <2> QED BY <1>3, <1>6, <2>1
<1> QED BY <1>2, <1>3, <1>6, <1>8 DEF M, N, m, d, c

(* A complex field that is split in two real ones and combined again comes   *)
(* back: every coefficient once, with its own value, and nothing else.       *)
THEOREM RoundTripRight == Spec => []RoundTrip
<1>1. FillInv => RoundTrip
  <2> DEFINE N == nlm_cplx
             F == SH_cplx_to_2real(Probe)
             Back(p) == [at |-> p, value |-> Twice(Probe[p])]
  <2> SUFFICES ASSUME FillInv, pc = "done", size.mres = 1
               PROVE  SH_2real_to_cplx(F) = {Back(p) : p \in 0 .. N - 1}
    BY DEF RoundTrip
  <2>1. lm = nlm
    BY DEF FillInv, DoneIsFull
  <2>2. \A p \in 0 .. N - 1 : Probe[p] \in [re : Int, im : Int]
    <3> HIDE DEF N
    <3>1. \A p \in Int : [re |-> 2 * p + 1, im |-> -3 - p * p] \in [re : Int, im : Int]
      OBVIOUS
    <3>2. \A p \in 0 .. N - 1 : Probe[p] = [re |-> 2 * p + 1, im |-> -3 - p * p]
      BY DEF Probe, N
    <3>3. N \in Int
      BY SizeFacts DEF FillInv, TypeOK, N, nlm_cplx
    <3> TAKE p \in 0 .. N - 1
    <3>4. p \in Int
      BY <3>3
    <3>5. Probe[p] = [re |-> 2 * p + 1, im |-> -3 - p * p]
      BY <3>2
    <3> QED BY <3>1, <3>4, <3>5
  <2> HIDE DEF N
  <2>3. ASSUME NEW k \in 0 .. nlm - 1
        PROVE  /\ Combined(F, k) = IF mi[k] = 0 THEN {Back(Centre(k))}
                                   ELSE {Back(Centre(k) + mi[k]), Back(Centre(k) - mi[k])}
               /\ {Centre(k) + mi[k], Centre(k) - mi[k], Centre(k)} \subseteq 0 .. N - 1
    <3>1. /\ mi[k] \in Nat
          /\ {Centre(k) + mi[k], Centre(k) - mi[k], Centre(k)} \subseteq 0 .. N - 1
      BY <2>1, BothSides DEF N
    <3>2. \A p \in {Centre(k) + mi[k], Centre(k) - mi[k], Centre(k)} :
            Probe[p] \in [re : Int, im : Int]
      BY <2>2, <3>1
    <3>3. Combined(F, k) = IF mi[k] = 0 THEN {Back(Centre(k))}
                           ELSE {Back(Centre(k) + mi[k]), Back(Centre(k) - mi[k])}
      BY <3>1, <3>2, ValuesReturn
    <3> QED BY <3>1, <3>3
  <2>4. ASSUME NEW p \in 0 .. N - 1 PROVE \E k \in 0 .. nlm - 1 : Back(p) \in Combined(F, k)
    <3> DEFINE L == size.lmax
               M == size.mmax
    <3>1. L \in Nat /\ M \in Nat /\ M <= L /\ N = nlm_cplx_calc(L, M, 1)
      BY SizeFacts, CountsAgree DEF FillInv, TypeOK, CplxCount, N
    <3>2. PICK d \in 0 .. L : \E m \in Int :
            /\ m <= d /\ m <= M /\ -d <= m /\ -M <= m
            /\ LM_cplx(M, d, m) = p
      <4>1. p \in 0 .. nlm_cplx_calc(L, M, 1) - 1
        BY <3>1
      <4> HIDE DEF L, M
      <4> QED BY <3>1, <4>1, CplxOnto
    <3>3. PICK m \in Int : /\ m <= d /\ m <= M /\ -d <= m /\ -M <= m
                           /\ LM_cplx(M, d, m) = p
      BY <3>2
    <3> DEFINE n == IF m < 0 THEN -m ELSE m
    <3>4. n \in 0 .. M /\ d \in n .. L /\ (m = n \/ m = -n) /\ (n = 0 => m = 0)
      BY <3>1, <3>3
    <3> HIDE DEF n
    <3>5. PICK k \in 0 .. nlm - 1 : mi[k] = n /\ li[k] = d
      <4>1. n \in 0 .. size.mmax /\ d \in n .. size.lmax
        BY <3>4
      <4> QED BY <2>1, <4>1, EntryOfCoefficient
    <3>6. /\ Centre(k) + n = LM_cplx(M, d, n) /\ Centre(k) - n = LM_cplx(M, d, -n)
          /\ Centre(k) = LM_cplx(M, d, 0)
      BY <2>1, <3>5, BothSides
    <3> HIDE DEF L, M, Back
    <3>7. CASE n = 0
      <4>1. p = Centre(k)
        BY <3>3, <3>4, <3>6, <3>7
      <4>2. Back(Centre(k)) \in Combined(F, k)
        BY <2>3, <3>5, <3>7
      <4> QED BY <4>1, <4>2
    <3>8. CASE n # 0
      <4>1. p = Centre(k) + n \/ p = Centre(k) - n
        BY <3>3, <3>4, <3>6
      <4>2. Back(Centre(k) + n) \in Combined(F, k) /\ Back(Centre(k) - n) \in Combined(F, k)
        BY <2>3, <3>5, <3>8
      <4> QED BY <4>1, <4>2
    <3> QED BY <3>7, <3>8
  <2>5. SH_2real_to_cplx(F) = UNION {Combined(F, k) : k \in 0 .. nlm - 1}
    BY DEF SH_2real_to_cplx
  <2> HIDE DEF F, Back
  <2>6. \A k \in 0 .. nlm - 1 : Combined(F, k) \subseteq {Back(p) : p \in 0 .. N - 1}
    <3> TAKE k \in 0 .. nlm - 1
    <3> DEFINE x == Centre(k) + mi[k]
               y == Centre(k) - mi[k]
               z == Centre(k)
    <3>1. /\ Combined(F, k) = IF mi[k] = 0 THEN {Back(z)} ELSE {Back(x), Back(y)}
          /\ {x, y, z} \subseteq 0 .. N - 1
      BY <2>3
    <3> HIDE DEF x, y, z
    <3> QED BY <3>1
  <2> QED BY <2>4, <2>5, <2>6
<1> QED BY <1>1, FillInvariant, PTL
=============================================================================
