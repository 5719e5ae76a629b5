------------------------ MODULE OmpTransform_proofs ------------------------
(* The two loops of the parallel region never race, for every truncation,    *)
(* every batch and every number of threads, and a call does what the         *)
(* abstract transform does in one step. First the region: an iteration is    *)
(* handed out once, orders up to lim and rows past lim do not meet because   *)
(* there are more than 2 * mmax rows, and all threads are in the same call.  *)
(* Then the contents: what has no result yet is still to be taken, or a      *)
(* thread is about to write it.                                              *)
EXTENDS FlyTransform, TLAPS

(* The last order of a truncated call is an order of the configuration. *)
LEMMA LimBound ==
  ASSUME NEW e \in 0 .. lmax
  PROVE  imlim(e) \in 0 .. mmax
<1>1. lmax \in Nat /\ mmax \in Nat /\ mres \in Nat \ {0} /\ e \in Nat
  BY SizeAssumption
<1>2. CASE mmax * mres > e
  <2> DEFINE q == e \div mres
  <2>1. q \in Nat /\ q * mres <= e
    BY <1>1
  <2> HIDE DEF q
  <2>2. q <= mmax
    <3> SUFFICES ASSUME q >= mmax + 1 PROVE FALSE
      BY <1>1, <2>1
    <3> DEFINE k == q - mmax
    <3>1. k \in Nat /\ q = mmax + k
      BY <1>1, <2>1
    <3> HIDE DEF k
    <3>2. q * mres = mmax * mres + k * mres /\ k * mres >= 0
      BY <1>1, <3>1
    <3>3. q * mres \in Int /\ mmax * mres \in Int /\ k * mres \in Int
      BY <1>1, <2>1, <3>1
    <3> QED BY <1>1, <1>2, <2>1, <3>2, <3>3
  <2> QED BY <1>1, <1>2, <2>1, <2>2 DEF imlim, q
<1>3. CASE ~ (mmax * mres > e)
  BY <1>1, <1>3 DEF imlim
<1> QED BY <1>2, <1>3

(* An iteration number gives an order and a field, and they give it back. *)
LEMMA Division ==
  ASSUME NEW n \in Nat, NEW h \in Nat \ {0}
  PROVE  n \div h \in Nat /\ n % h \in 0 .. h - 1 /\ (n \div h) * h + (n % h) = n
OBVIOUS

(* The bounds every step uses. *)
LEMMA Bounds ==
  ASSUME RegionInv
  PROVE  /\ mmax \in Nat /\ nphi \in Nat /\ nphi > 2 * mmax
         /\ howmany \in Nat \ {0} /\ lim \in 0 .. mmax
         /\ llim \in 0 .. lmax /\ next \in Nat /\ zero \in Nat
BY SizeAssumption, LimBound DEF RegionInv, lim

-----------------------------------------------------------------------------
(* Initially all threads are out of the region. *)
LEMMA InitRegionInv == Init => RegionInv
<1> SUFFICES ASSUME Init PROVE RegionInv
  OBVIOUS
<1>1. th = [t \in Thread |-> Idle] /\ llim = lmax /\ next = 0 /\ zero = 0 /\ call = "none"
      /\ stage = "fft"
  BY DEF Init
<1> QED BY <1>1, SizeAssumption DEF RegionInv, Idle, At, HandedOut, Granted, Exclusive

(* All threads start the region together, before anything is handed out. *)
LEMMA EnterInv ==
  ASSUME EnterRegion, llim' \in 0 .. lmax, zero' \in Nat, call' # "none",
         call' = "synthesis" => zero' > lim'
  PROVE  RegionInv'
<1>1. th' = [t \in Thread |-> [at |-> "loop1", im |-> 0, b |-> 0]] /\ next' = 0
      /\ stage' = "region"
  BY DEF EnterRegion
<1>2. (th \in [Thread -> [at : At, im : Int, b : Int]])'
  BY <1>1 DEF At
<1>3. \A t \in Thread : th'[t].at = "loop1"
  BY <1>1
<1>4. (\A t \in Thread : HandedOut(th[t]))'
  BY <1>3 DEF HandedOut, Granted
<1>5. (\A t, u \in Thread : t # u => Exclusive(th[t], th[u]))'
  BY <1>3 DEF Exclusive
<1> QED BY <1>1, <1>2, <1>4, <1>5 DEF RegionInv

(* Between two calls nothing the threads do changes. *)
LEMMA QuietInv ==
  ASSUME RegionInv, \A t \in Thread : th[t].at = "out", th' = th,
         llim' \in 0 .. lmax, next' \in Nat, zero' = zero,
         stage' \in {"fft", "fly"}
  PROVE  RegionInv'
<1>1. \A t \in Thread : th'[t].at = "out"
  OBVIOUS
<1>2. (\A t \in Thread : HandedOut(th[t]))'
  BY <1>1 DEF HandedOut, Granted
<1>3. (\A t, u \in Thread : t # u => Exclusive(th[t], th[u]))'
  BY <1>1 DEF Exclusive
<1> QED BY <1>1, <1>2, <1>3 DEF RegionInv

(* One thread moves: its new iteration was handed out, and to it alone.      *)
LEMMA MoveInv ==
  ASSUME RegionInv, NEW t \in Thread, th[t].at # "out",
         NEW s \in [at : At, im : Int, b : Int], th' = [th EXCEPT ![t] = s],
         call' = call, stage' = stage, llim' = llim,
         next' \in Nat, next' >= next, zero' \in Nat, zero' >= zero,
         Granted(s, call, lim, next', zero'), \A u \in Thread \ {t} : Exclusive(s, th[u])
  PROVE  RegionInv'
<1>1. lim' = lim /\ lim \in Int /\ nphi \in Nat /\ next \in Nat /\ zero \in Nat /\ howmany \in Nat
  BY Bounds DEF lim
<1>2. th \in [Thread -> [at : At, im : Int, b : Int]]
  BY DEF RegionInv
<1>3. \A u \in Thread : th'[u] = IF u = t THEN s ELSE th[u]
  BY <1>2
<1>4. (th \in [Thread -> [at : At, im : Int, b : Int]])'
  BY <1>2
<1>5. \A u \in Thread : HandedOut(th[u])'
  <2> TAKE u \in Thread
  <2>1. CASE u = t
    <3>1. th'[u] = s
      BY <1>3, <2>1
    <3> QED BY <1>1, <3>1 DEF HandedOut
  <2>2. CASE u # t
    <3>1. th'[u] = th[u] /\ HandedOut(th[u])
      BY <1>3, <2>2 DEF RegionInv
    <3>2. th[u].im \in Int /\ th[u].b \in Int
      BY <1>2
    <3> DEFINE p == th[u].im * howmany + th[u].b
    <3>3. p \in Int
      BY <1>1, <3>2
    <3>4. p < next => p < next'
      BY <1>1, <3>3
    <3>5. th[u].im < next => th[u].im < next'
      BY <1>1, <3>2
    <3>6. th[u].im < zero => th[u].im < zero'
      BY <1>1, <3>2
    <3>7. th[u].b < zero => th[u].b < zero'
      BY <1>1, <3>2
    <3> QED BY <1>1, <3>1, <3>4, <3>5, <3>6, <3>7 DEF HandedOut, Granted
  <2> QED BY <2>1, <2>2
<1>6. \A u, v \in Thread : u # v => Exclusive(th'[u], th'[v])
  <2> SUFFICES ASSUME NEW u \in Thread, NEW v \in Thread, u # v
               PROVE  Exclusive(th'[u], th'[v])
    OBVIOUS
  <2>1. CASE u = t
    BY <1>3, <2>1
  <2>2. CASE v = t
    <3>1. Exclusive(s, th[u]) /\ th'[v] = s /\ th'[u] = th[u]
      BY <1>3, <2>2
    <3> QED BY <3>1 DEF Exclusive
  <2>3. CASE u # t /\ v # t
    BY <1>3, <2>3 DEF RegionInv
  <2> QED BY <2>1, <2>2, <2>3
<1>7. call # "none" /\ stage = "region"
  BY DEF RegionInv
<1>8. (call = "synthesis" /\ stage = "region" => zero > lim)'
  BY <1>1 DEF RegionInv
<1>9. (\A u, v \in Thread : u # v => Exclusive(th[u], th[v]))'
  BY <1>6 DEF Exclusive
<1>10. llim' \in 0 .. lmax
  BY Bounds
<1> QED BY <1>4, <1>5, <1>7, <1>8, <1>9, <1>10 DEF RegionInv

(* A thread that goes to a place where it has no iteration. *)
LEMMA LeaveInv ==
  ASSUME RegionInv, NEW t \in Thread, th[t].at # "out",
         NEW where \in {"loop1", "loop2", "out"}, Goto(t, where, 0, 0),
         call' = call, stage' = stage, llim' = llim, next' = next, zero' = zero
  PROVE  RegionInv'
<1> DEFINE s == [at |-> where, im |-> 0, b |-> 0]
<1>1. s \in [at : At, im : Int, b : Int] /\ th' = [th EXCEPT ![t] = s]
  BY DEF At, Goto
<1>2. Granted(s, call, lim, next', zero')
  BY DEF HandedOut, Granted
<1>3. \A u \in Thread \ {t} : Exclusive(s, th[u])
  BY DEF Exclusive
<1>4. next' \in Nat /\ next' >= next /\ zero' \in Nat /\ zero' >= zero
  BY Bounds
<1> HIDE DEF s
<1> QED BY <1>1, <1>2, <1>3, <1>4, MoveInv

(* A new iteration over orders and fields is nobody else's. *)
LEMMA TakeOrderInv ==
  ASSUME RegionInv, NEW t \in Thread, TakeOrder(t)
  PROVE  RegionInv'
<1> DEFINE q == next \div howmany
           r == next % howmany
           s == [at |-> "low", im |-> q, b |-> r]
<1>1. /\ call = "synthesis" /\ th[t].at = "loop1" /\ next < (lim + 1) * howmany
      /\ next' = next + 1 /\ th' = [th EXCEPT ![t] = s]
      /\ call' = call /\ stage' = stage /\ llim' = llim /\ zero' = zero
  BY DEF TakeOrder, Goto
<1>2. /\ howmany \in Nat \ {0} /\ lim \in Nat /\ next \in Nat /\ zero \in Nat
  BY Bounds
<1>3. q \in Nat /\ r \in 0 .. howmany - 1 /\ q * howmany + r = next
  BY <1>2, Division
<1> HIDE DEF q, r
<1>4. q <= lim
  <2> SUFFICES ASSUME q >= lim + 1 PROVE FALSE
    BY <1>2, <1>3
  <2> DEFINE k == q - (lim + 1)
  <2>1. k \in Nat /\ q = lim + 1 + k
    BY <1>2, <1>3
  <2> HIDE DEF k
  <2>2. q * howmany = (lim + 1) * howmany + k * howmany /\ k * howmany >= 0
    BY <1>2, <2>1
  <2>3. q * howmany \in Int /\ (lim + 1) * howmany \in Int /\ k * howmany \in Int
    BY <1>2, <1>3, <2>1
  <2> QED BY <1>1, <1>2, <1>3, <2>2, <2>3
<1>5. s \in [at : At, im : Int, b : Int]
  BY <1>3 DEF At
<1>6. Granted(s, call, lim, next', zero')
  <2>1. lim' = lim
    BY <1>1 DEF lim
  <2>2. q * howmany + r < next'
    BY <1>1, <1>2, <1>3
  <2> QED BY <1>1, <1>2, <1>3, <1>4, <2>1, <2>2 DEF HandedOut, Granted, Batch
<1>7. \A u \in Thread \ {t} : Exclusive(s, th[u])
  <2> SUFFICES ASSUME NEW u \in Thread, th[u].at \in {"low", "high"}
               PROVE  q # th[u].im \/ r # th[u].b
    BY DEF Exclusive
  <2>1. HandedOut(th[u])
    BY DEF RegionInv
  <2>2. th[u].im * howmany + th[u].b < next
    BY <2>1 DEF HandedOut, Granted
  <2> QED BY <1>2, <1>3, <2>2
<1>8. next' \in Nat /\ next' >= next /\ zero' \in Nat /\ zero' >= zero /\ th[t].at # "out"
  BY <1>1, <1>2
<1> HIDE DEF s
<1> QED BY <1>1, <1>5, <1>6, <1>7, <1>8, MoveInv

(* The second row of an order is written by the thread that wrote the first. *)
LEMMA WriteLowInv ==
  ASSUME RegionInv, NEW t \in Thread, WriteLow(t)
  PROVE  RegionInv'
<1>1. th[t].at = "low" /\ call' = call /\ stage' = stage /\ llim' = llim
      /\ next' = next /\ zero' = zero
  BY DEF WriteLow
<1>2. CASE th[t].im = 0
  <2>1. Goto(t, "loop1", 0, 0)
    BY <1>2 DEF WriteLow
  <2> QED BY <1>1, <2>1, LeaveInv
<1>3. CASE th[t].im # 0
  <2> DEFINE s == [at |-> "high", im |-> th[t].im, b |-> th[t].b]
  <2>1. th' = [th EXCEPT ![t] = s]
    BY <1>3 DEF WriteLow, Goto
  <2>2. HandedOut(th[t]) /\ th[t].im \in Int /\ th[t].b \in Int
    BY DEF RegionInv
  <2>3. s \in [at : At, im : Int, b : Int]
    BY <2>2 DEF At
  <2>4. Granted(s, call, lim, next', zero')
    <3>1. lim' = lim /\ lim \in Nat
      BY <1>1, Bounds DEF lim
    <3> QED BY <1>1, <1>3, <2>2, <3>1 DEF HandedOut, Granted
  <2>5. \A u \in Thread \ {t} : Exclusive(s, th[u])
    <3>1. \A u \in Thread \ {t} : Exclusive(th[t], th[u])
      BY DEF RegionInv
    <3> QED BY <1>1, <3>1 DEF Exclusive
  <2>6. next' \in Nat /\ next' >= next /\ zero' \in Nat /\ zero' >= zero
    BY <1>1, Bounds
  <2> HIDE DEF s
  <2> QED BY <1>1, <2>1, <2>3, <2>4, <2>5, <2>6, MoveInv
<1> QED BY <1>2, <1>3

(* A new order to analyse is nobody else's. *)
LEMMA TakeAnalysisInv ==
  ASSUME RegionInv, NEW t \in Thread, TakeAnalysis(t)
  PROVE  RegionInv'
<1> DEFINE s == [at |-> "analyse", im |-> next, b |-> 0]
<1>1. /\ call = "analysis" /\ th[t].at = "loop1" /\ next <= lim
      /\ next' = next + 1 /\ th' = [th EXCEPT ![t] = s]
      /\ call' = call /\ stage' = stage /\ llim' = llim /\ zero' = zero
  BY DEF TakeAnalysis, Goto
<1>2. /\ howmany \in Nat \ {0} /\ lim \in Nat /\ next \in Nat /\ zero \in Nat
  BY Bounds
<1>3. s \in [at : At, im : Int, b : Int]
  BY <1>2 DEF At
<1>4. Granted(s, call, lim, next', zero')
  <2>1. lim' = lim
    BY <1>1 DEF lim
  <2> QED BY <1>1, <1>2, <2>1 DEF HandedOut, Granted, Batch
<1>5. \A u \in Thread \ {t} : Exclusive(s, th[u])
  <2>1. \A u \in Thread : HandedOut(th[u]) /\ th[u].im \in Int
    BY DEF RegionInv
  <2> QED BY <1>2, <2>1 DEF Exclusive, HandedOut, Granted
<1>6. next' \in Nat /\ next' >= next /\ zero' \in Nat /\ zero' >= zero /\ th[t].at # "out"
  BY <1>1, <1>2
<1> HIDE DEF s
<1> QED BY <1>1, <1>3, <1>4, <1>5, <1>6, MoveInv

(* The same iteration goes on with the next field. *)
LEMMA NextFieldInv ==
  ASSUME RegionInv, NEW t \in Thread, th[t].at \in {"analyse", "zero"},
         th[t].b + 1 < howmany, Goto(t, th[t].at, th[t].im, th[t].b + 1),
         call' = call, stage' = stage, llim' = llim, next' = next, zero' = zero
  PROVE  RegionInv'
<1> DEFINE s == [at |-> th[t].at, im |-> th[t].im, b |-> th[t].b + 1]
<1>1. th' = [th EXCEPT ![t] = s]
  BY DEF Goto
<1>2. HandedOut(th[t]) /\ th[t].im \in Int /\ th[t].b \in Int
  BY DEF RegionInv
<1>3. s \in [at : At, im : Int, b : Int]
  BY <1>2 DEF At
<1>4. Granted(s, call, lim, next', zero')
  <2>1. lim' = lim /\ lim \in Nat /\ howmany \in Nat \ {0}
    BY Bounds DEF lim
  <2> QED BY <1>2, <2>1 DEF HandedOut, Granted, Batch
<1>5. \A u \in Thread \ {t} : Exclusive(s, th[u])
  <2>1. \A u \in Thread \ {t} : Exclusive(th[t], th[u])
    BY DEF RegionInv
  <2> QED BY <2>1 DEF Exclusive
<1>6. next' \in Nat /\ next' >= next /\ zero' \in Nat /\ zero' >= zero
  BY Bounds
<1> HIDE DEF s
<1> QED BY <1>1, <1>3, <1>4, <1>5, <1>6, MoveInv

(* A new row to zero is nobody else's, and is past the orders. *)
LEMMA TakeZeroInv ==
  ASSUME RegionInv, NEW t \in Thread, TakeZero(t)
  PROVE  RegionInv'
<1> DEFINE s == [at |-> "zero", im |-> zero, b |-> 0]
<1>1. /\ call = "synthesis" /\ th[t].at = "loop2" /\ zero < nphi - lim
      /\ zero' = zero + 1 /\ th' = [th EXCEPT ![t] = s]
      /\ call' = call /\ stage' = stage /\ llim' = llim /\ next' = next
  BY DEF TakeZero, RowsLeft, Goto
<1>2. /\ howmany \in Nat \ {0} /\ lim \in Nat /\ next \in Nat /\ zero \in Nat /\ nphi \in Nat
  BY Bounds
<1>3. s \in [at : At, im : Int, b : Int]
  BY <1>2 DEF At
<1>4. Granted(s, call, lim, next', zero')
  <2>1. lim' = lim /\ lim < zero
    <3>1. stage = "region"
      BY <1>1 DEF RegionInv
    <3> QED BY <1>1, <3>1 DEF lim, RegionInv
  <2> QED BY <1>1, <1>2, <2>1 DEF HandedOut, Granted, Batch
<1>5. \A u \in Thread \ {t} : Exclusive(s, th[u])
  <2>1. \A u \in Thread : HandedOut(th[u]) /\ th[u].im \in Int
    BY DEF RegionInv
  <2> QED BY <1>2, <2>1 DEF Exclusive, HandedOut, Granted
<1>6. next' \in Nat /\ next' >= next /\ zero' \in Nat /\ zero' >= zero /\ th[t].at # "out"
  BY <1>1, <1>2
<1> HIDE DEF s
<1> QED BY <1>1, <1>3, <1>4, <1>5, <1>6, MoveInv

(* A new field whose tail is zeroed is nobody else's. *)
LEMMA TakeFieldInv ==
  ASSUME RegionInv, NEW t \in Thread, TakeField(t)
  PROVE  RegionInv'
<1> DEFINE s == [at |-> "zerospec", im |-> lim + 1, b |-> zero]
<1>1. /\ call = "analysis" /\ th[t].at = "loop2" /\ zero < howmany
      /\ zero' = zero + 1 /\ th' = [th EXCEPT ![t] = s]
      /\ call' = call /\ stage' = stage /\ llim' = llim /\ next' = next
  BY DEF TakeField, FieldsLeft, Goto
<1>2. /\ howmany \in Nat \ {0} /\ lim \in Nat /\ next \in Nat /\ zero \in Nat
  BY Bounds
<1>3. s \in [at : At, im : Int, b : Int]
  BY <1>2 DEF At
<1>4. Granted(s, call, lim, next', zero')
  <2>1. lim' = lim
    BY <1>1 DEF lim
  <2> QED BY <1>1, <1>2, <2>1 DEF HandedOut, Granted, Batch
<1>5. \A u \in Thread \ {t} : Exclusive(s, th[u])
  <2>1. \A u \in Thread : HandedOut(th[u]) /\ th[u].b \in Int
    BY DEF RegionInv
  <2> QED BY <1>2, <2>1 DEF Exclusive, HandedOut, Granted
<1>6. next' \in Nat /\ next' >= next /\ zero' \in Nat /\ zero' >= zero /\ th[t].at # "out"
  BY <1>1, <1>2
<1> HIDE DEF s
<1> QED BY <1>1, <1>3, <1>4, <1>5, <1>6, MoveInv

(* Every step of a thread keeps the region invariant. *)
LEMMA StepRegionInv ==
  ASSUME RegionInv, NEW t \in Thread, Step(t)
  PROVE  RegionInv'
<1>1. CASE TakeOrder(t)
  BY <1>1, TakeOrderInv
<1>2. CASE WriteLow(t)
  BY <1>2, WriteLowInv
<1>3. CASE WriteHigh(t)
  <2>1. th[t].at # "out" /\ Goto(t, "loop1", 0, 0) /\ call' = call /\ stage' = stage
        /\ llim' = llim /\ next' = next /\ zero' = zero
    BY <1>3 DEF WriteHigh
  <2> QED BY <2>1, LeaveInv
<1>4. CASE TakeAnalysis(t)
  BY <1>4, TakeAnalysisInv
<1>5. CASE Analyse(t)
  <2>1. th[t].at = "analyse" /\ call' = call /\ stage' = stage
        /\ llim' = llim /\ next' = next /\ zero' = zero
    BY <1>5 DEF Analyse
  <2>2. CASE th[t].b + 1 < howmany
    <3>1. Goto(t, th[t].at, th[t].im, th[t].b + 1)
      BY <1>5, <2>2 DEF Analyse
    <3> QED BY <2>1, <2>2, <3>1, NextFieldInv
  <2>3. CASE ~ (th[t].b + 1 < howmany)
    <3>1. Goto(t, "loop1", 0, 0)
      BY <1>5, <2>3 DEF Analyse
    <3> QED BY <2>1, <3>1, LeaveInv
  <2> QED BY <2>2, <2>3
<1>6. CASE LeaveLoop1(t)
  <2>1. th[t].at # "out" /\ Goto(t, "loop2", 0, 0) /\ call' = call /\ stage' = stage
        /\ llim' = llim /\ next' = next /\ zero' = zero
    BY <1>6 DEF LeaveLoop1
  <2> QED BY <2>1, LeaveInv
<1>7. CASE TakeZero(t)
  BY <1>7, TakeZeroInv
<1>8. CASE ZeroRow(t)
  <2>1. th[t].at = "zero" /\ call' = call /\ stage' = stage
        /\ llim' = llim /\ next' = next /\ zero' = zero
    BY <1>8 DEF ZeroRow
  <2>2. CASE th[t].b + 1 < howmany
    <3>1. Goto(t, th[t].at, th[t].im, th[t].b + 1)
      BY <1>8, <2>2 DEF ZeroRow
    <3> QED BY <2>1, <2>2, <3>1, NextFieldInv
  <2>3. CASE ~ (th[t].b + 1 < howmany)
    <3>1. Goto(t, "loop2", 0, 0)
      BY <1>8, <2>3 DEF ZeroRow
    <3> QED BY <2>1, <3>1, LeaveInv
  <2> QED BY <2>2, <2>3
<1>9. CASE TakeField(t)
  BY <1>9, TakeFieldInv
<1>10. CASE ZeroSpec(t)
  <2>1. th[t].at # "out" /\ Goto(t, "loop2", 0, 0) /\ call' = call /\ stage' = stage
        /\ llim' = llim /\ next' = next /\ zero' = zero
    BY <1>10 DEF ZeroSpec
  <2> QED BY <2>1, LeaveInv
<1>11. CASE LeaveLoop2(t)
  <2>1. th[t].at # "out" /\ Goto(t, "out", 0, 0) /\ call' = call /\ stage' = stage
        /\ llim' = llim /\ next' = next /\ zero' = zero
    BY <1>11 DEF LeaveLoop2
  <2> QED BY <2>1, LeaveInv
<1> QED BY <1>1, <1>2, <1>3, <1>4, <1>5, <1>6, <1>7, <1>8, <1>9, <1>10, <1>11 DEF Step

-----------------------------------------------------------------------------
(* Every step of a threaded call keeps the region invariant. *)
LEMMA NextRegionInv == RegionInv /\ [Next]_vars => RegionInv'
<1> SUFFICES ASSUME RegionInv, [Next]_vars PROVE RegionInv'
  OBVIOUS
<1>1. CASE Fill \/ UNCHANGED vars
  <2>1. /\ th' = th /\ llim' = llim /\ next' = next /\ zero' = zero
        /\ call' = call /\ stage' = stage
    BY <1>1 DEF Fill, vars
  <2> QED BY <2>1 DEF RegionInv, HandedOut, Granted, Exclusive, lim
<1>2. CASE \E e \in Llim : SH_to_spat_omp_a(e)
  <2>1. PICK e \in Llim : SH_to_spat_omp_a(e)
    BY <1>2
  <2>2. EnterRegion /\ llim' = e /\ call' = "synthesis" /\ zero' = imlim(e) + 1
    BY <2>1 DEF SH_to_spat_omp_a, ZeroStart
  <2>3. e \in 0 .. lmax
    BY SizeAssumption
  <2>4. imlim(e) \in Nat /\ lim' = imlim(e)
    BY <2>2, <2>3, LimBound, SizeAssumption DEF lim
  <2> QED BY <2>2, <2>3, <2>4, EnterInv
<1>3. CASE \E e \in Llim : spat_to_SH_omp_a(e)
  <2>1. PICK e \in Llim : spat_to_SH_omp_a(e)
    BY <1>3
  <2>2. /\ call = "none" /\ call' = "analysis" /\ llim' = e
        /\ next' = next /\ zero' = zero /\ th' = th /\ stage' = "fft"
    BY <2>1 DEF spat_to_SH_omp_a
  <2>3. e \in 0 .. lmax
    BY SizeAssumption
  <2>4. \A t \in Thread : th[t].at = "out"
    BY <2>2 DEF RegionInv
  <2>5. next' \in Nat
    BY <2>2 DEF RegionInv
  <2> QED BY <2>2, <2>3, <2>4, <2>5, QuietInv
<1>4. CASE \E t \in Thread : Step(t)
  BY <1>4, StepRegionInv
<1>5. CASE ForwardFft
  <2>1. EnterRegion /\ llim' = llim /\ call' = "analysis" /\ zero' = 0
    BY <1>5 DEF ForwardFft
  <2>2. llim \in 0 .. lmax
    BY DEF RegionInv
  <2> QED BY <2>1, <2>2, EnterInv
<1>6. CASE EndRegion
  <2>1. /\ \A t \in Thread : th[t].at = "out"
        /\ stage' = "fft" /\ llim' = llim /\ next' = next /\ zero' = zero /\ th' = th
    BY <1>6 DEF EndRegion
  <2>2. llim \in 0 .. lmax /\ next' \in Nat
    BY <2>1 DEF RegionInv
  <2> QED BY <2>1, <2>2, QuietInv
<1>7. CASE InverseFft
  <2>1. /\ stage = "fft" /\ stage' = stage /\ call' = "none" /\ llim' = llim /\ next' = next
        /\ zero' = zero /\ th' = th
    BY <1>7 DEF InverseFft
  <2>2. llim \in 0 .. lmax /\ next' \in Nat /\ \A t \in Thread : th[t].at = "out"
    BY <2>1 DEF RegionInv
  <2> QED BY <2>1, <2>2, QuietInv
<1> QED BY <1>1, <1>2, <1>3, <1>4, <1>5, <1>6, <1>7 DEF Next, Master

(* A sequential call runs while no thread is in a region, and hands out      *)
(* nothing.                                                                  *)
LEMMA SequentialRegionInv ==
  ASSUME RegionInv, Sequential PROVE RegionInv'
<1>1. /\ stage = "fly" /\ stage' \in {"fft", "fly"} /\ llim' = llim /\ zero' = zero
      /\ next' \in {next, next + 1} /\ th' = th
  BY DEF Sequential, FlyOrder, FlyZeroRows, FlyAnalyse, FlyZeroSpec
<1>2. \A t \in Thread : th[t].at = "out"
  BY <1>1 DEF RegionInv
<1>3. llim \in 0 .. lmax /\ next \in Nat
  BY DEF RegionInv
<1> QED BY <1>1, <1>2, <1>3, QuietInv

(* Every step keeps it, whichever transforms the caller mixes. *)
LEMMA FlyNextRegionInv == RegionInv /\ [FlyNext]_vars => RegionInv'
<1> SUFFICES ASSUME RegionInv, [FlyNext]_vars PROVE RegionInv'
  OBVIOUS
<1>1. CASE [Next]_vars
  BY <1>1, NextRegionInv
<1>2. CASE Sequential
  BY <1>2, SequentialRegionInv
<1>3. CASE \E e \in Llim : SH_to_spat_fly(e) \/ spat_to_SH_fly(e)
  <2>1. PICK e \in Llim : SH_to_spat_fly(e) \/ spat_to_SH_fly(e)
    BY <1>3
  <2>2. /\ call = "none" /\ stage' = "fly" /\ llim' = e
        /\ next' = 0 /\ zero' = zero /\ th' = th
    BY <2>1 DEF SH_to_spat_fly, spat_to_SH_fly
  <2>3. e \in 0 .. lmax
    BY SizeAssumption
  <2>4. \A t \in Thread : th[t].at = "out"
    BY <2>2 DEF RegionInv
  <2> QED BY <2>2, <2>3, <2>4, QuietInv
<1> QED BY <1>1, <1>2, <1>3 DEF FlyNext

(* The invariant of the parallel region: every iteration that runs was       *)
(* handed out, to one thread.                                                *)
THEOREM RegionInvariant == FlySpec => []RegionInv
<1>1. Init => RegionInv
  BY InitRegionInv
<1>2. RegionInv /\ [FlyNext]_vars => RegionInv'
  BY FlyNextRegionInv
<1> QED BY <1>1, <1>2, PTL DEF FlySpec

(* The nowait clause is safe: no thread of the team ever writes where another*)
(* one reads or writes, for every truncation, batch and number of threads.   *)
THEOREM NeverRace == FlySpec => []NoRace
<1>1. ASSUME RegionInv, NEW t \in Thread, NEW u \in Thread, t # u
      PROVE  Writes(t) \cap (Writes(u) \cup Reads(u)) = {}
  <2> DEFINE s == th[t]
             r == th[u]
  <2>1. /\ s.at \in At /\ s.im \in Int /\ s.b \in Int
        /\ r.at \in At /\ r.im \in Int /\ r.b \in Int
        /\ HandedOut(s) /\ HandedOut(r) /\ Exclusive(s, r) /\ Exclusive(r, s)
    BY <1>1 DEF RegionInv
  <2>2. /\ mmax \in Nat /\ nphi \in Nat /\ nphi > 2 * mmax /\ lim \in 0 .. mmax
        /\ howmany \in Nat
    BY <1>1, Bounds
  <2>3. CASE s.at \in {"low", "high"}
    <3>1. Writes(t) \subseteq {<<"row", s.b, s.im>>, <<"row", s.b, nphi - s.im>>}
      BY <2>3 DEF Writes
    <3>2. call = "synthesis" /\ s.im \in 0 .. lim
      BY <2>1, <2>3 DEF HandedOut, Granted
    <3>3. CASE r.at \in {"low", "high"}
      <4>1. Writes(u) \cup Reads(u) \subseteq
              {<<"row", r.b, r.im>>, <<"row", r.b, nphi - r.im>>, <<"spec", r.b, r.im>>}
        BY <3>3 DEF Writes, Reads
      <4>2. r.im \in 0 .. lim
        BY <2>1, <3>3 DEF HandedOut, Granted
      <4>3. s.im # r.im \/ s.b # r.b
        BY <2>1, <2>3, <3>3 DEF Exclusive
      <4>4. s.im # nphi - r.im /\ r.im # nphi - s.im
        BY <2>2, <3>2, <4>2
      <4> HIDE DEF s, r
      <4> QED BY <2>1, <2>2, <3>1, <4>1, <4>3, <4>4
    <3>4. CASE r.at = "zero"
      <4>1. Writes(u) \cup Reads(u) = {<<"row", b, r.im>> : b \in r.b .. howmany - 1}
        BY <3>4 DEF Writes, Reads
      <4>2. r.im \in lim + 1 .. nphi - lim - 1
        BY <2>1, <3>4 DEF HandedOut, Granted
      <4>3. s.im # r.im /\ nphi - s.im # r.im
        BY <2>2, <3>2, <4>2
      <4> HIDE DEF s, r
      <4> QED BY <3>1, <4>1, <4>3
    <3>5. CASE r.at \in {"analyse", "zerospec"}
      BY <2>1, <3>2, <3>5 DEF HandedOut, Granted
    <3>6. CASE r.at \in {"out", "loop1", "loop2"}
      BY <3>6 DEF Writes, Reads
    <3> QED BY <2>1, <3>3, <3>4, <3>5, <3>6 DEF At
  <2>4. CASE s.at = "analyse"
    <3>1. Writes(t) = {<<"spec", b, s.im>> : b \in s.b .. howmany - 1}
      BY <2>4 DEF Writes
    <3>2. call = "analysis" /\ s.im \in 0 .. lim
      BY <2>1, <2>4 DEF HandedOut, Granted
    <3>3. CASE r.at = "analyse"
      <4>1. Writes(u) \cup Reads(u) =
              {<<"spec", b, r.im>> : b \in r.b .. howmany - 1}
                \cup {<<"row", b, x>> : b \in r.b .. howmany - 1, x \in {r.im, nphi - r.im}}
        BY <3>3 DEF Writes, Reads
      <4>2. s.im # r.im
        BY <2>1, <2>4, <3>3 DEF Exclusive
      <4> HIDE DEF s, r
      <4> QED BY <3>1, <4>1, <4>2
    <3>4. CASE r.at = "zerospec"
      <4>1. Writes(u) \cup Reads(u) = {<<"spec", r.b, m>> : m \in r.im .. mmax}
        BY <3>4 DEF Writes, Reads
      <4>2. r.im = lim + 1
        BY <2>1, <3>4 DEF HandedOut, Granted
      <4> HIDE DEF s, r
      <4> QED BY <2>2, <3>1, <3>2, <4>1, <4>2
    <3>5. CASE r.at \in {"low", "high", "zero"}
      BY <2>1, <3>2, <3>5 DEF HandedOut, Granted
    <3>6. CASE r.at \in {"out", "loop1", "loop2"}
      BY <3>6 DEF Writes, Reads
    <3> QED BY <2>1, <3>3, <3>4, <3>5, <3>6 DEF At
  <2>5. CASE s.at = "zero"
    <3>1. Writes(t) = {<<"row", b, s.im>> : b \in s.b .. howmany - 1}
      BY <2>5 DEF Writes
    <3>2. call = "synthesis" /\ s.im \in lim + 1 .. nphi - lim - 1
      BY <2>1, <2>5 DEF HandedOut, Granted
    <3>3. CASE r.at \in {"low", "high"}
      <4>1. Writes(u) \cup Reads(u) \subseteq
              {<<"row", r.b, r.im>>, <<"row", r.b, nphi - r.im>>, <<"spec", r.b, r.im>>}
        BY <3>3 DEF Writes, Reads
      <4>2. r.im \in 0 .. lim
        BY <2>1, <3>3 DEF HandedOut, Granted
      <4>3. s.im # r.im /\ s.im # nphi - r.im
        BY <2>2, <3>2, <4>2
      <4> HIDE DEF s, r
      <4> QED BY <3>1, <4>1, <4>3
    <3>4. CASE r.at = "zero"
      <4>1. Writes(u) \cup Reads(u) = {<<"row", b, r.im>> : b \in r.b .. howmany - 1}
        BY <3>4 DEF Writes, Reads
      <4>2. s.im # r.im
        BY <2>1, <2>5, <3>4 DEF Exclusive
      <4> HIDE DEF s, r
      <4> QED BY <3>1, <4>1, <4>2
    <3>5. CASE r.at \in {"analyse", "zerospec"}
      BY <2>1, <3>2, <3>5 DEF HandedOut, Granted
    <3>6. CASE r.at \in {"out", "loop1", "loop2"}
      BY <3>6 DEF Writes, Reads
    <3> QED BY <2>1, <3>3, <3>4, <3>5, <3>6 DEF At
  <2>6. CASE s.at = "zerospec"
    <3>1. Writes(t) = {<<"spec", s.b, m>> : m \in s.im .. mmax}
      BY <2>6 DEF Writes
    <3>2. call = "analysis" /\ s.im = lim + 1
      BY <2>1, <2>6 DEF HandedOut, Granted
    <3>3. CASE r.at = "analyse"
      <4>1. Writes(u) \cup Reads(u) =
              {<<"spec", b, r.im>> : b \in r.b .. howmany - 1}
                \cup {<<"row", b, x>> : b \in r.b .. howmany - 1, x \in {r.im, nphi - r.im}}
        BY <3>3 DEF Writes, Reads
      <4>2. r.im \in 0 .. lim
        BY <2>1, <3>3 DEF HandedOut, Granted
      <4>3. \A m \in s.im .. mmax : m # r.im
        BY <2>2, <3>2, <4>2
      <4> HIDE DEF s, r
      <4> QED BY <3>1, <4>1, <4>3
    <3>4. CASE r.at = "zerospec"
      <4>1. Writes(u) \cup Reads(u) = {<<"spec", r.b, m>> : m \in r.im .. mmax}
        BY <3>4 DEF Writes, Reads
      <4>2. s.b # r.b
        BY <2>1, <2>6, <3>4 DEF Exclusive
      <4> HIDE DEF s, r
      <4> QED BY <3>1, <4>1, <4>2
    <3>5. CASE r.at \in {"low", "high", "zero"}
      BY <2>1, <3>2, <3>5 DEF HandedOut, Granted
    <3>6. CASE r.at \in {"out", "loop1", "loop2"}
      BY <3>6 DEF Writes, Reads
    <3> QED BY <2>1, <3>3, <3>4, <3>5, <3>6 DEF At
  <2>7. CASE s.at \in {"out", "loop1", "loop2"}
    BY <2>7 DEF Writes
  <2> QED BY <2>1, <2>3, <2>4, <2>5, <2>6, <2>7 DEF At
<1>2. RegionInv => NoRace
  BY <1>1 DEF NoRace
<1> QED BY <1>2, RegionInvariant, PTL

-----------------------------------------------------------------------------
(* Truncation and pairing make values of values; the mark of memory nobody   *)
(* wrote is one of them.                                                     *)
LEMMA TruncatedValue ==
  ASSUME NEW v \in Value, NEW e
  PROVE  Truncated(v, e) \in Value
<1>1. CASE v \in SUBSET Coef
  BY <1>1 DEF Value, Truncated
<1>2. CASE v = Unknown
  BY <1>2 DEF Value, Truncated, Unknown
<1> QED BY <1>1, <1>2 DEF Value

LEMMA SummedValue ==
  ASSUME NEW v \in Value, NEW e
  PROVE  Summed(v, e) \in Value
<1>1. CASE v \in SUBSET Coef
  BY <1>1 DEF Value, Summed
<1>2. CASE v = Unknown
  BY <1>2 DEF Value, Summed, Unknown
<1> QED BY <1>1, <1>2 DEF Value

LEMMA UnknownValue == Unknown \in Value /\ {} \in Value
BY DEF Value

LEMMA PairedValue ==
  ASSUME NEW rows \in [Row -> Value], NEW im \in Order
  PROVE  Paired(rows, im) \in Value
<1>1. im \in Row
  BY SizeAssumption DEF Order, Row
<1> QED BY <1>1, UnknownValue DEF Paired

(* The caller's arrays hold each coefficient of each order. *)
LEMMA FullType == Full \in [Batch -> [Order -> Value]]
<1>1. \A b \in Batch, im \in Order : {<<b, im, l>> : l \in im * mres .. lmax} \in Value
  <2> TAKE b \in Batch, im \in Order
  <2>1. im * mres \in Nat
    BY SizeAssumption DEF Order
  <2>2. im * mres .. lmax \subseteq 0 .. lmax
    BY <2>1, SizeAssumption
  <2> QED BY <2>2 DEF Value, Coef
<1> QED BY <1>1 DEF Full

(* Arrays of either domain. *)
LEMMA LostArray ==
  ASSUME NEW d \in {"grid", "fourier"}
  PROVE  [domain |-> d, row |-> Lost] \in Array
BY UnknownValue DEF Array, Lost

LEMMA FourierArray ==
  ASSUME NEW a \in Array, NEW d \in {"grid", "fourier"}
  PROVE  Fourier(a, d) \in Array
<1>1. Lost \in [Batch -> [Row -> Value]] /\ a.row \in [Batch -> [Row -> Value]]
  BY UnknownValue DEF Array, Lost
<1> QED BY <1>1 DEF Array, Fourier

LEMMA BrFArray ==
  ASSUME TypeOK
  PROVE  BrF \in Array
BY DEF TypeOK, BrF

(* What is assigned to BrF is what BrF is next, and keeps the arrays' type. *)
LEMMA SetBrFIs ==
  ASSUME TypeOK, NEW a, SetBrF(a), call' = call, fft_mode' = fft_mode
  PROVE  BrF' = a /\ (a \in Array => V' \in Array /\ W' \in Array)
BY DEF SetBrF, BrF, OutOfPlace, TypeOK

LEMMA SameBrF ==
  ASSUME V' = V, W' = W, call' = call, fft_mode' = fft_mode
  PROVE  BrF' = BrF
BY DEF BrF, OutOfPlace

(* One row is written, the others stay. *)
LEMMA WriteRow ==
  ASSUME NEW a \in Array, NEW b \in Batch, NEW r \in Row, NEW v \in Value
  PROVE  LET n == [a EXCEPT !.row[b][r] = v]
         IN  /\ n \in Array /\ n.domain = a.domain
             /\ \A c \in Batch, q \in Row :
                  n.row[c][q] = IF c = b /\ q = r THEN v ELSE a.row[c][q]
<1> DEFINE n == [a EXCEPT !.row[b][r] = v]
<1>1. a.row \in [Batch -> [Row -> Value]] /\ a.domain \in {"grid", "fourier"}
  BY DEF Array
<1>2. n.domain = a.domain /\ n.row = [a.row EXCEPT ![b][r] = v]
  BY DEF Array
<1>3. n.row \in [Batch -> [Row -> Value]]
  BY <1>1, <1>2
<1>4. n \in Array
  BY <1>1, <1>2, <1>3 DEF Array
<1>5. \A c \in Batch, q \in Row :
        n.row[c][q] = IF c = b /\ q = r THEN v ELSE a.row[c][q]
  BY <1>1, <1>2
<1> QED BY <1>2, <1>4, <1>5

(* A step keeps the types of the caller's data and of the call. *)
LEMMA DataType ==
  ASSUME TypeOK, RegionInv, RegionInv', FlyNext
  PROVE  /\ spec' \in [Batch -> [Order -> Value]]
         /\ V' \in Array /\ W' \in Array
         /\ fft_mode' \in FftMode
         /\ call' \in {"none", "synthesis", "analysis"}
<1> USE DEF TypeOK
<1>1. BrF \in Array /\ BrF.row \in [Batch -> [Row -> Value]] /\ V \in Array /\ W \in Array
  BY BrFArray DEF Array
<1>2. fft_mode' = fft_mode
  BY DEF FlyNext, Next, Fill, SH_to_spat_omp_a, spat_to_SH_omp_a, Master, ForwardFft,
         EndRegion, InverseFft, Step, TakeOrder, WriteLow, WriteHigh, TakeAnalysis, Analyse,
         LeaveLoop1, TakeZero, ZeroRow, TakeField, ZeroSpec, LeaveLoop2, SH_to_spat_fly,
         spat_to_SH_fly, Sequential, FlyOrder, FlyZeroRows, FlyAnalyse, FlyZeroSpec
<1>3. /\ mmax \in Nat /\ nphi \in Nat /\ nphi > 2 * mmax /\ lim \in 0 .. mmax
  BY Bounds
<1>4. Full \in [Batch -> [Order -> Value]]
  BY FullType
<1>5. \A c : OutOfPlace(c)' = OutOfPlace(c)
  BY <1>2 DEF OutOfPlace
<1>6. CASE Fill
  BY <1>2, <1>4, <1>6 DEF Fill
<1>7. CASE \E e \in Llim : SH_to_spat_omp_a(e) \/ SH_to_spat_fly(e)
  <2>1. /\ spec' = spec /\ call' = "synthesis"
        /\ \/ W' = [domain |-> "fourier", row |-> Lost] /\ V' = V
           \/ V' = [V EXCEPT !.domain = "fourier"] /\ W' = W
    BY <1>7 DEF SH_to_spat_omp_a, SH_to_spat_fly
  <2>2. [V EXCEPT !.domain = "fourier"] \in Array
    BY <1>1 DEF Array
  <2> QED BY <1>1, <1>2, <2>1, <2>2, LostArray
<1>8. CASE \E e \in Llim : spat_to_SH_omp_a(e)
  BY <1>2, <1>8 DEF spat_to_SH_omp_a
<1>9. CASE ForwardFft \/ \E e \in Llim : spat_to_SH_fly(e)
  <2> DEFINE a == IF Planned THEN Fourier(V, "fourier")
                             ELSE [domain |-> "fourier", row |-> Lost]
  <2>1. a \in Array
    BY <1>1, FourierArray, LostArray
  <2>2. /\ spec' = spec /\ call' = "analysis"
        /\ \/ W' = a /\ V' = V
           \/ V' = a /\ W' = W
    BY <1>9 DEF ForwardFft, spat_to_SH_fly, SetBrF
  <2> HIDE DEF a
  <2> QED BY <1>1, <1>2, <2>1, <2>2
<1>10. CASE EndRegion
  BY <1>2, <1>10 DEF EndRegion
<1>11. CASE InverseFft
  <2>1. /\ V' = Fourier(BrF, "grid") /\ call' = "none" /\ spec' = spec /\ W' = W
    BY <1>11 DEF InverseFft
  <2> QED BY <1>1, <1>2, <2>1, FourierArray
<1>12. CASE \E t \in Thread : WriteLow(t) \/ WriteHigh(t) \/ ZeroRow(t)
  <2>1. PICK t \in Thread : WriteLow(t) \/ WriteHigh(t) \/ ZeroRow(t)
    BY <1>12
  <2> DEFINE s == th[t]
  <2>2. HandedOut(s) /\ s.im \in Int /\ s.at \in {"low", "high", "zero"}
    BY <2>1 DEF RegionInv, WriteLow, WriteHigh, ZeroRow
  <2>3. /\ s.b \in Batch
        /\ s.at \in {"low", "high"} => s.im \in Order
        /\ s.at = "high" => nphi - s.im \in Row
        /\ s.im \in Row
    BY <1>3, <2>2 DEF HandedOut, Granted, Order, Row
  <2>4. spec' = spec /\ call' = call
    BY <2>1 DEF WriteLow, WriteHigh, ZeroRow
  <2>5. \E r \in Row, v \in Value : SetBrF([BrF EXCEPT !.row[s.b][r] = v])
    <3>1. CASE WriteLow(t)
      <4>1. Summed(spec[s.b][s.im], llim) \in Value
        BY <2>3, <3>1, SummedValue DEF WriteLow
      <4> QED BY <2>3, <3>1, <4>1 DEF WriteLow
    <3>2. CASE WriteHigh(t)
      <4>1. Summed(spec[s.b][s.im], llim) \in Value
        BY <2>3, <3>2, SummedValue DEF WriteHigh
      <4> QED BY <2>3, <3>2, <4>1 DEF WriteHigh
    <3>3. CASE ZeroRow(t)
      BY <2>3, <3>3, UnknownValue DEF ZeroRow
    <3> QED BY <2>1, <3>1, <3>2, <3>3
  <2>6. PICK r \in Row, v \in Value : SetBrF([BrF EXCEPT !.row[s.b][r] = v])
    BY <2>5
  <2>7. [BrF EXCEPT !.row[s.b][r] = v] \in Array
    BY <1>1, <2>3, WriteRow
  <2> HIDE DEF s
  <2> QED BY <1>2, <2>4, <2>6, <2>7, SetBrFIs
<1>13. CASE \E t \in Thread : Analyse(t)
  <2>1. PICK t \in Thread : Analyse(t)
    BY <1>13
  <2> DEFINE s == th[t]
  <2>2. HandedOut(s) /\ s.im \in Int /\ s.at = "analyse"
    BY <2>1 DEF RegionInv, Analyse
  <2>3. s.b \in Batch /\ s.im \in Order
    BY <1>3, <2>2 DEF HandedOut, Granted, Order
  <2>4. Truncated(Paired(BrF.row[s.b], s.im), llim) \in Value
    BY <1>1, <2>3, PairedValue, TruncatedValue
  <2> QED BY <1>1, <1>2, <2>1, <2>3, <2>4 DEF Analyse
<1>14. CASE \E t \in Thread : ZeroSpec(t)
  BY <1>1, <1>2, <1>14, UnknownValue DEF ZeroSpec
<1>15. CASE \E t \in Thread : TakeOrder(t) \/ TakeAnalysis(t) \/ LeaveLoop1(t) \/ TakeZero(t)
                                \/ TakeField(t) \/ LeaveLoop2(t)
  BY <1>2, <1>15 DEF TakeOrder, TakeAnalysis, LeaveLoop1, TakeZero, TakeField, LeaveLoop2
<1>16. CASE FlyOrder \/ FlyZeroRows
  <2>1. PICK f \in [Batch -> [Row -> Value]] :
          SetBrF([BrF EXCEPT !.row = f])
    <3>1. CASE FlyOrder
      <4>1. next \in Order
        BY <1>3, <3>1, Bounds DEF FlyOrder, Order
      <4>2. \A b \in Batch : Summed(spec[b][next], llim) \in Value
        BY <4>1, SummedValue
      <4> DEFINE f == [b \in Batch |-> [r \in Row |->
                         IF r = next \/ r = nphi - next
                         THEN Summed(spec[b][next], llim) ELSE BrF.row[b][r]]]
      <4>3. f \in [Batch -> [Row -> Value]]
        BY <1>1, <4>2
      <4>4. SetBrF([BrF EXCEPT !.row = f])
        BY <3>1 DEF FlyOrder
      <4> QED BY <4>3, <4>4
    <3>2. CASE FlyZeroRows
      <4> DEFINE f == [b \in Batch |-> [r \in Row |->
                         IF r > lim /\ r < nphi - lim THEN {} ELSE BrF.row[b][r]]]
      <4>1. f \in [Batch -> [Row -> Value]]
        BY <1>1, UnknownValue
      <4>2. SetBrF([BrF EXCEPT !.row = f])
        BY <3>2 DEF FlyZeroRows
      <4> QED BY <4>1, <4>2
    <3> QED BY <1>16, <3>1, <3>2
  <2>2. [BrF EXCEPT !.row = f] \in Array
    BY <1>1 DEF Array
  <2>3. call' = call /\ spec' = spec
    BY <1>16 DEF FlyOrder, FlyZeroRows
  <2> QED BY <1>2, <2>1, <2>2, <2>3, SetBrFIs
<1>17. CASE FlyAnalyse
  <2>1. next \in Order
    BY <1>3, <1>17, Bounds DEF FlyAnalyse, Order
  <2>2. \A b \in Batch : Truncated(Paired(BrF.row[b], next), llim) \in Value
    BY <1>1, <2>1, PairedValue, TruncatedValue
  <2> QED BY <1>2, <1>17, <2>1, <2>2 DEF FlyAnalyse
<1>18. CASE FlyZeroSpec
  BY <1>2, <1>18, UnknownValue DEF FlyZeroSpec
<1> QED BY <1>6, <1>7, <1>8, <1>9, <1>10, <1>11, <1>12, <1>13, <1>14, <1>15, <1>16, <1>17,
           <1>18 DEF FlyNext, Next, Master, Step, Sequential

(* A thread that is sent somewhere is within the rows and the fields. *)
LEMMA GotoType ==
  ASSUME TypeOK, NEW t \in Thread, NEW where \in At, NEW im \in Row, NEW b \in Batch,
         Goto(t, where, im, b)
  PROVE  th' \in [Thread -> [at : At, im : Row, b : Batch]]
BY DEF TypeOK, Goto

LEMMA ThreadType ==
  ASSUME TypeOK, RegionInv, RegionInv', FlyNext
  PROVE  th' \in [Thread -> [at : At, im : Row, b : Batch]]
<1>1. 0 \in Row /\ 0 \in Batch
  BY SizeAssumption DEF Row, Batch
<1>2. /\ mmax \in Nat /\ nphi \in Nat /\ nphi > 2 * mmax /\ lim \in 0 .. mmax
      /\ howmany \in Nat \ {0} /\ next \in Nat /\ zero \in Nat
  BY Bounds
<1>3. CASE \E t \in Thread : Step(t)
  <2>1. PICK t \in Thread : Step(t)
    BY <1>3
  <2>2. th \in [Thread -> [at : At, im : Row, b : Batch]]
    BY DEF TypeOK
  <2>3. th[t] \in [at : At, im : Row, b : Batch]
    BY <2>2
  <2>4. CASE TakeOrder(t)
    <3>1. Goto(t, "low", next \div howmany, next % howmany)
      BY <2>4 DEF TakeOrder
    <3>2. th'[t] = [at |-> "low", im |-> next \div howmany, b |-> next % howmany]
      BY <2>2, <3>1 DEF Goto
    <3>3. HandedOut(th[t])' /\ lim' = lim
      BY <2>4 DEF RegionInv, TakeOrder, lim
    <3>4. next \div howmany \in 0 .. lim /\ next % howmany \in Batch
      BY <3>2, <3>3 DEF HandedOut, Granted
    <3>5. next \div howmany \in Row
      BY <1>2, <3>4 DEF Row
    <3> QED BY <3>1, <3>4, <3>5, GotoType DEF At
  <2>5. CASE WriteLow(t)
    BY <1>1, <2>3, <2>5, GotoType DEF WriteLow, At
  <2>6. CASE WriteHigh(t)
    BY <1>1, <2>6, GotoType DEF WriteHigh, At
  <2>7. CASE TakeAnalysis(t)
    <3>1. next \in Row
      BY <1>2, <2>7 DEF TakeAnalysis, Row
    <3> QED BY <1>1, <2>7, <3>1, GotoType DEF TakeAnalysis, At
  <2>8. CASE Analyse(t)
    <3>1. CASE th[t].b + 1 < howmany
      <4>1. th[t].b + 1 \in Batch
        BY <1>2, <2>3, <3>1 DEF Batch
      <4> QED BY <2>3, <2>8, <3>1, <4>1, GotoType DEF Analyse, At
    <3>2. CASE ~ (th[t].b + 1 < howmany)
      BY <1>1, <2>8, <3>2, GotoType DEF Analyse, At
    <3> QED BY <3>1, <3>2
  <2>9. CASE LeaveLoop1(t)
    BY <1>1, <2>9, GotoType DEF LeaveLoop1, At
  <2>10. CASE TakeZero(t)
    <3>1. zero \in Row
      <4>1. call = "synthesis" /\ stage = "region"
        BY <2>10 DEF TakeZero, RegionInv
      <4> QED BY <1>2, <2>10, <4>1 DEF TakeZero, RowsLeft, Row, RegionInv
    <3> QED BY <1>1, <2>10, <3>1, GotoType DEF TakeZero, At
  <2>11. CASE ZeroRow(t)
    <3>1. CASE th[t].b + 1 < howmany
      <4>1. th[t].b + 1 \in Batch
        BY <1>2, <2>3, <3>1 DEF Batch
      <4> QED BY <2>3, <2>11, <3>1, <4>1, GotoType DEF ZeroRow, At
    <3>2. CASE ~ (th[t].b + 1 < howmany)
      BY <1>1, <2>11, <3>2, GotoType DEF ZeroRow, At
    <3> QED BY <3>1, <3>2
  <2>12. CASE TakeField(t)
    <3>1. lim + 1 \in Row /\ zero \in Batch
      BY <1>2, <2>12 DEF TakeField, FieldsLeft, Row, Batch
    <3> QED BY <2>12, <3>1, GotoType DEF TakeField, At
  <2>13. CASE ZeroSpec(t)
    BY <1>1, <2>13, GotoType DEF ZeroSpec, At
  <2>14. CASE LeaveLoop2(t)
    BY <1>1, <2>14, GotoType DEF LeaveLoop2, At
  <2> QED BY <2>1, <2>4, <2>5, <2>6, <2>7, <2>8, <2>9, <2>10, <2>11, <2>12, <2>13, <2>14
          DEF Step
<1>4. CASE th' = th
  BY <1>4 DEF TypeOK
<1>5. CASE EnterRegion
  BY <1>1, <1>5 DEF EnterRegion, At
<1>6. (\E t \in Thread : Step(t)) \/ th' = th \/ EnterRegion
  BY DEF FlyNext, Next, Fill, SH_to_spat_omp_a, spat_to_SH_omp_a, Master, ForwardFft,
         EndRegion, InverseFft, SH_to_spat_fly,
         spat_to_SH_fly, Sequential, FlyOrder, FlyZeroRows, FlyAnalyse, FlyZeroSpec
<1> QED BY <1>3, <1>4, <1>5, <1>6

(* Every variable keeps its type, whatever the caller mixes. *)
LEMMA NextTypeOK == TypeOK /\ RegionInv /\ RegionInv' /\ [FlyNext]_vars => TypeOK'
<1> SUFFICES ASSUME TypeOK, RegionInv, RegionInv', [FlyNext]_vars PROVE TypeOK'
  OBVIOUS
<1>1. CASE FlyNext
  BY <1>1, DataType, ThreadType DEF TypeOK, RegionInv
<1>2. CASE UNCHANGED vars
  BY <1>2 DEF TypeOK, vars
<1> QED BY <1>1, <1>2

LEMMA InitTypeOK == Init => TypeOK
<1> SUFFICES ASSUME Init PROVE TypeOK
  OBVIOUS
<1>1. Full \in [Batch -> [Order -> Value]]
  BY FullType
<1>2. 0 \in Row /\ 0 \in Batch /\ lmax \in Nat
  BY SizeAssumption DEF Row, Batch
<1>3. V \in Array /\ W \in Array
  BY LostArray DEF Init
<1> QED BY <1>1, <1>2, <1>3 DEF Init, TypeOK, Idle, At

(* The types of the run, for every number of threads and fields. *)
THEOREM TypeCorrect == FlySpec => []TypeOK
<1>1. RegionInv /\ TypeOK /\ [FlyNext]_vars => TypeOK'
  BY FlyNextRegionInv, NextTypeOK
<1> QED BY <1>1, InitTypeOK, RegionInvariant, PTL DEF FlySpec

-----------------------------------------------------------------------------
(* A number is divided in one way only. *)
LEMMA DivisionUnique ==
  ASSUME NEW n \in Nat, NEW h \in Nat \ {0}, NEW q \in Nat, NEW r \in 0 .. h - 1, q * h + r = n
  PROVE  q = n \div h /\ r = n % h
<1> DEFINE p == n \div h
           m == n % h
<1>1. p \in Nat /\ m \in 0 .. h - 1 /\ p * h + m = n
  BY Division
<1> HIDE DEF p, m
<1>2. ASSUME NEW x \in Nat, NEW y \in Nat, NEW u \in 0 .. h - 1, NEW v \in 0 .. h - 1,
             x * h + u = y * h + v, x < y
      PROVE  FALSE
  <2> DEFINE k == y - x - 1
  <2>1. k \in Nat /\ y = x + k + 1
    BY <1>2
  <2> HIDE DEF k
  <2>2. y * h = x * h + k * h + h /\ k * h >= 0
    BY <2>1
  <2>3. x * h \in Int /\ y * h \in Int /\ k * h \in Int
    BY <2>1
  <2> QED BY <1>2, <2>2, <2>3
<1>3. ~ (q < p) /\ ~ (p < q)
  BY <1>1, <1>2
<1>4. q = p
  BY <1>1, <1>3
<1>5. r = m
  <2>1. q * h \in Int
    OBVIOUS
  <2> QED BY <1>1, <1>4, <2>1
<1> QED BY <1>4, <1>5 DEF p, m

(* What the rows of the result are. *)
LEMMA Rows ==
  ASSUME ContentInv, NEW b \in Batch, NEW r \in Row
  PROVE  Synthesised(spec, llim)[b][r] =
           IF r <= lim THEN Summed(spec[b][r], llim)
           ELSE IF r >= nphi - lim THEN Summed(spec[b][nphi - r], llim)
           ELSE {}
BY DEF Synthesised, lim

LEMMA Orders ==
  ASSUME NEW b \in Batch, NEW im \in Order
  PROVE  Analysed(BrF.row, llim)[b][im] =
           IF im <= lim THEN Truncated(Paired(BrF.row[b], im), llim) ELSE {}
BY DEF Analysed, lim

(* One thread moves: what it leaves pending is taken or to be written, what  *)
(* it writes is right.                                                       *)
LEMMA MoveSynthesis ==
  ASSUME ContentInv, NEW t \in Thread, call = "synthesis", stage = "region",
         NEW s, th' = [th EXCEPT ![t] = s],
         call' = call, stage' = stage, llim' = llim, BrF'.domain = "fourier",
         next' >= next, zero' >= zero, next' \in Nat, zero' \in Nat,
         \A b \in Batch, r \in Row :
           RowUntaken(b, r) => RowUntaken(b, r)' \/ (<<"row", b, r>> \in Writes(t))',
         \A b \in Batch, r \in Row :
           <<"row", b, r>> \in Writes(t) =>
             (<<"row", b, r>> \in Writes(t))' \/ RowDone(b, r)',
         \A b \in Batch, r \in Row : RowDone(b, r) => RowDone(b, r)',
         s.at \in {"loop2", "zero", "out"} => next >= (lim + 1) * howmany,
         s.at = "out" => ~ RowsLeft
  PROVE  SynthesisInv' /\ AnalysisInv'
<1>1. /\ \A b \in Batch, r \in Row : RowPending(b, r) \/ RowDone(b, r)
      /\ \A u \in Thread :
           /\ th[u].at \in {"loop2", "zero", "out"} => next >= (lim + 1) * howmany
           /\ th[u].at = "out" => ~ RowsLeft
  BY DEF ContentInv, SynthesisInv
<1>2. /\ lim' = lim /\ lim \in Nat /\ howmany \in Nat /\ nphi \in Nat /\ next \in Nat
      /\ zero \in Nat
  BY Bounds DEF lim, ContentInv
<1>3. th \in [Thread -> [at : At, im : Row, b : Batch]]
  BY DEF ContentInv, TypeOK
<1>4. \A u \in Thread : th'[u] = IF u = t THEN s ELSE th[u]
  BY <1>3
<1>5. \A u \in Thread \ {t} : Writes(u)' = Writes(u)
  BY <1>4 DEF Writes
<1>6. (\A b \in Batch, r \in Row : RowPending(b, r) \/ RowDone(b, r))'
  <2> SUFFICES ASSUME NEW b \in Batch, NEW r \in Row
               PROVE  RowPending(b, r)' \/ RowDone(b, r)'
    OBVIOUS
  <2>1. CASE RowDone(b, r)
    BY <2>1
  <2>2. CASE RowUntaken(b, r)
    BY <2>2 DEF RowPending
  <2>3. CASE \E u \in Thread : <<"row", b, r>> \in Writes(u)
    <3>1. PICK u \in Thread : <<"row", b, r>> \in Writes(u)
      BY <2>3
    <3>2. CASE u = t
      BY <3>1, <3>2 DEF RowPending
    <3>3. CASE u # t
      BY <1>5, <3>1, <3>3 DEF RowPending
    <3> QED BY <3>2, <3>3
  <2> QED BY <1>1, <2>1, <2>2, <2>3 DEF RowPending
<1>7. \A u \in Thread : th'[u].at \in {"loop2", "zero", "out"} => next' >= (lim' + 1) * howmany
  <2> DEFINE n == (lim + 1) * howmany
  <2>1. n \in Nat /\ (lim' + 1) * howmany = n
    BY <1>2
  <2>2. \A u \in Thread : th'[u].at \in {"loop2", "zero", "out"} => next >= n
    BY <1>1, <1>4
  <2> HIDE DEF n
  <2> QED BY <1>2, <2>1, <2>2
<1>8. \A u \in Thread : th'[u].at = "out" => ~ RowsLeft'
  <2>1. RowsLeft' => RowsLeft
    BY <1>2 DEF RowsLeft
  <2> QED BY <1>1, <1>4, <2>1
<1> QED BY <1>6, <1>7, <1>8 DEF SynthesisInv, AnalysisInv

(* A right value is written to one row. *)
LEMMA WriteDone ==
  ASSUME ContentInv, call = "synthesis", call' = call, fft_mode' = fft_mode,
         spec' = spec, llim' = llim, stage \in {"region", "fly"},
         NEW c \in Batch, NEW q \in Row, NEW v \in Value,
         v = Synthesised(spec, llim)[c][q],
         NEW n, n = [BrF EXCEPT !.row[c][q] = v], SetBrF(n)
  PROVE  /\ BrF'.domain = "fourier" /\ RowDone(c, q)'
         /\ \A b \in Batch, r \in Row : RowDone(b, r) => RowDone(b, r)'
<1>1. TypeOK /\ BrF.domain = "fourier" /\ BrF \in Array
  BY BrFArray DEF ContentInv, SynthesisInv
<1>2. /\ n.domain = BrF.domain
      /\ \A b \in Batch, r \in Row :
           n.row[b][r] = IF b = c /\ r = q THEN v ELSE BrF.row[b][r]
  BY <1>1, WriteRow
<1>3. BrF' = n
  BY <1>1, SetBrFIs
<1> QED BY <1>1, <1>2, <1>3 DEF RowDone

(* Nothing is written. *)
LEMMA SynthesisSame ==
  ASSUME ContentInv, call = "synthesis", stage # "fft", V' = V, W' = W, spec' = spec,
         call' = call, fft_mode' = fft_mode, llim' = llim
  PROVE  /\ BrF'.domain = "fourier"
         /\ \A b \in Batch, r \in Row : RowDone(b, r) => RowDone(b, r)'
<1>1. BrF' = BrF /\ BrF.domain = "fourier"
  BY SameBrF DEF ContentInv, SynthesisInv
<1> QED BY <1>1 DEF RowDone

LEMMA TakeOrderContent ==
  ASSUME ContentInv, NEW t \in Thread, TakeOrder(t)
  PROVE  SynthesisInv' /\ AnalysisInv'
<1> DEFINE s == [at |-> "low", im |-> next \div howmany, b |-> next % howmany]
<1>1. /\ call = "synthesis" /\ th[t].at = "loop1" /\ next' = next + 1
      /\ th' = [th EXCEPT ![t] = s] /\ zero' = zero
      /\ V' = V /\ W' = W /\ spec' = spec /\ fft_mode' = fft_mode
      /\ call' = call /\ stage' = stage /\ llim' = llim
  BY DEF TakeOrder, Goto
<1>2. /\ howmany \in Nat \ {0} /\ lim \in 0 .. mmax /\ next \in Nat /\ zero \in Nat /\ nphi \in Nat
      /\ mmax \in Nat /\ nphi > 2 * mmax /\ lim' = lim
  BY <1>1, Bounds DEF ContentInv, lim
<1>3. stage = "region" /\ th'[t] = s
  BY <1>1 DEF ContentInv, RegionInv
<1>4. ASSUME NEW b \in Batch, NEW q \in Nat, q * howmany + b >= next
      PROVE  q * howmany + b >= next' \/ (q = next \div howmany /\ b = next % howmany)
  <2>1. b \in 0 .. howmany - 1 /\ q * howmany \in Int /\ b \in Int
    BY <1>2 DEF Batch
  <2>2. CASE q * howmany + b = next
    BY <1>2, <2>1, <2>2, DivisionUnique
  <2>3. CASE q * howmany + b # next
    BY <1>1, <1>2, <1>4, <2>1, <2>3
  <2> QED BY <2>2, <2>3
<1>5. ASSUME NEW b \in Batch, NEW r \in Row, RowUntaken(b, r)
      PROVE  RowUntaken(b, r)' \/ (<<"row", b, r>> \in Writes(t))'
  <2> DEFINE q == IF r <= lim THEN r ELSE nphi - r
  <2>1. CASE r > lim /\ r < nphi - lim
    BY <1>1, <1>2, <1>5, <2>1 DEF RowUntaken, Row
  <2>2. CASE r <= lim
    <3>1. r \in Nat /\ r * howmany + b >= next
      BY <1>2, <1>5, <2>2 DEF RowUntaken, Row
    <3>2. r * howmany + b >= next' \/ (r = s.im /\ b = s.b)
      BY <1>4, <3>1
    <3> QED BY <1>2, <1>3, <2>2, <3>2 DEF RowUntaken, Writes
  <2>3. CASE r >= nphi - lim
    <3>1. nphi - r \in Nat /\ nphi - r # 0 /\ r = nphi - (nphi - r) /\ ~ (r <= lim)
      BY <1>2, <2>3 DEF Row
    <3>2. (nphi - r) * howmany + b >= next
      BY <1>2, <1>5, <2>3, <3>1 DEF RowUntaken, Row
    <3>3. (nphi - r) * howmany + b >= next' \/ (nphi - r = s.im /\ b = s.b)
      BY <1>4, <3>1, <3>2
    <3> QED BY <1>2, <1>3, <2>3, <3>1, <3>3 DEF RowUntaken, Writes
  <2> QED BY <1>2, <2>1, <2>2, <2>3 DEF Row
<1>6. Writes(t) = {}
  BY <1>1 DEF Writes
<1>7. /\ BrF'.domain = "fourier"
      /\ \A b \in Batch, r \in Row : RowDone(b, r) => RowDone(b, r)'
  BY <1>1, <1>3, SynthesisSame
<1>8. next' >= next /\ zero' >= zero /\ next' \in Nat /\ zero' \in Nat
  BY <1>1, <1>2
<1>9. s.at \notin {"loop2", "zero", "out"}
  OBVIOUS
<1> HIDE DEF s
<1> QED BY <1>1, <1>3, <1>5, <1>6, <1>7, <1>8, <1>9, MoveSynthesis

LEMMA WriteLowContent ==
  ASSUME ContentInv, NEW t \in Thread, WriteLow(t)
  PROVE  SynthesisInv' /\ AnalysisInv'
<1>0. PICK im \in Row, c \in Batch : th[t].im = im /\ th[t].b = c
  BY DEF ContentInv, TypeOK
<1> DEFINE v == Summed(spec[c][im], llim)
           n == [BrF EXCEPT !.row[c][im] = v]
           s == IF im = 0 THEN [at |-> "loop1", im |-> 0, b |-> 0]
                          ELSE [at |-> "high", im |-> im, b |-> c]
<1>1. /\ th[t].at = "low" /\ next' = next /\ zero' = zero
      /\ spec' = spec /\ fft_mode' = fft_mode /\ th' = [th EXCEPT ![t] = s]
      /\ call' = call /\ stage' = stage /\ llim' = llim
      /\ SetBrF(n)
  BY <1>0 DEF WriteLow, Goto
<1>2. /\ lim \in 0 .. mmax /\ next \in Nat /\ zero \in Nat /\ nphi \in Nat
      /\ mmax \in Nat /\ nphi > 2 * mmax /\ lim' = lim
  BY <1>1, Bounds DEF ContentInv, lim
<1>3. /\ call = "synthesis" /\ im \in 0 .. lim /\ c \in Batch /\ stage = "region"
  BY <1>0, <1>1 DEF ContentInv, RegionInv, HandedOut, Granted
<1>4. im \in Row /\ im \in Order
  BY <1>2, <1>3 DEF Row, Order
<1>5. /\ v \in Value
      /\ v = Synthesised(spec, llim)[c][im]
  BY <1>3, <1>4, Rows, SummedValue DEF ContentInv, TypeOK
<1> HIDE DEF s, v
<1>6. /\ BrF'.domain = "fourier" /\ RowDone(c, im)'
      /\ \A b \in Batch, r \in Row : RowDone(b, r) => RowDone(b, r)'
  BY <1>1, <1>3, <1>4, <1>5, WriteDone
<1>7. th'[t] = s
  BY <1>1 DEF ContentInv, RegionInv
<1>8. ASSUME NEW b \in Batch, NEW r \in Row, <<"row", b, r>> \in Writes(t)
      PROVE  (<<"row", b, r>> \in Writes(t))' \/ RowDone(b, r)'
  <2>1. CASE b = c /\ r = im
    BY <1>6, <2>1
  <2>2. CASE ~ (b = c /\ r = im)
    <3>1. im # 0 /\ b = c /\ r = nphi - im
      BY <1>0, <1>1, <1>8, <2>2 DEF Writes
    <3> QED BY <1>7, <3>1 DEF s, Writes
  <2> QED BY <2>1, <2>2
<1>9. \A b \in Batch, r \in Row : RowUntaken(b, r) => RowUntaken(b, r)'
  BY <1>1, <1>2 DEF RowUntaken
<1>10. next' >= next /\ zero' >= zero /\ next' \in Nat /\ zero' \in Nat
  BY <1>1, <1>2
<1>11. s.at \notin {"loop2", "zero", "out"}
  BY DEF s
<1> QED BY <1>1, <1>3, <1>6, <1>8, <1>9, <1>10, <1>11, MoveSynthesis

LEMMA WriteHighContent ==
  ASSUME ContentInv, NEW t \in Thread, WriteHigh(t)
  PROVE  SynthesisInv' /\ AnalysisInv'
<1>0. PICK im \in Row, c \in Batch : th[t].im = im /\ th[t].b = c
  BY DEF ContentInv, TypeOK
<1> DEFINE v == Summed(spec[c][im], llim)
           n == [BrF EXCEPT !.row[c][nphi - im] = v]
           s == [at |-> "loop1", im |-> 0, b |-> 0]
<1>1. /\ th[t].at = "high" /\ next' = next /\ zero' = zero
      /\ spec' = spec /\ fft_mode' = fft_mode /\ th' = [th EXCEPT ![t] = s]
      /\ call' = call /\ stage' = stage /\ llim' = llim
      /\ SetBrF(n)
  BY <1>0 DEF WriteHigh, Goto
<1>2. /\ lim \in 0 .. mmax /\ next \in Nat /\ zero \in Nat /\ nphi \in Nat
      /\ mmax \in Nat /\ nphi > 2 * mmax /\ lim' = lim
  BY <1>1, Bounds DEF ContentInv, lim
<1>3. /\ call = "synthesis" /\ im \in 1 .. lim /\ c \in Batch /\ stage = "region"
  BY <1>0, <1>1, <1>2 DEF ContentInv, RegionInv, HandedOut, Granted
<1>4. /\ nphi - im \in Row /\ im \in Order /\ nphi - (nphi - im) = im
      /\ ~ (nphi - im <= lim) /\ nphi - im >= nphi - lim
  BY <1>2, <1>3 DEF Row, Order
<1>5. /\ v \in Value
      /\ v = Synthesised(spec, llim)[c][nphi - im]
  <2>1. spec[c][im] \in Value
    BY <1>4 DEF ContentInv, TypeOK
  <2>2. v = Synthesised(spec, llim)[c][nphi - im]
    BY <1>4, Rows
  <2> QED BY <2>1, <2>2, SummedValue
<1> HIDE DEF s, v
<1>6. /\ BrF'.domain = "fourier" /\ RowDone(c, nphi - im)'
      /\ \A b \in Batch, r \in Row : RowDone(b, r) => RowDone(b, r)'
  BY <1>1, <1>3, <1>4, <1>5, WriteDone
<1>7. \A b \in Batch, r \in Row : <<"row", b, r>> \in Writes(t) => RowDone(b, r)'
  BY <1>0, <1>1, <1>6 DEF Writes
<1>8. \A b \in Batch, r \in Row : RowUntaken(b, r) => RowUntaken(b, r)'
  BY <1>1, <1>2 DEF RowUntaken
<1>9. next' >= next /\ zero' >= zero /\ next' \in Nat /\ zero' \in Nat
  BY <1>1, <1>2
<1>10. s.at \notin {"loop2", "zero", "out"}
  BY DEF s
<1> QED BY <1>1, <1>3, <1>6, <1>7, <1>8, <1>9, <1>10, MoveSynthesis

LEMMA TakeZeroContent ==
  ASSUME ContentInv, NEW t \in Thread, TakeZero(t)
  PROVE  SynthesisInv' /\ AnalysisInv'
<1> DEFINE s == [at |-> "zero", im |-> zero, b |-> 0]
<1>1. /\ call = "synthesis" /\ th[t].at = "loop2" /\ zero' = zero + 1 /\ next' = next
      /\ th' = [th EXCEPT ![t] = s]
      /\ V' = V /\ W' = W /\ spec' = spec /\ fft_mode' = fft_mode
      /\ call' = call /\ stage' = stage /\ llim' = llim
  BY DEF TakeZero, Goto
<1>2. /\ howmany \in Nat \ {0} /\ lim \in 0 .. mmax /\ next \in Nat /\ zero \in Nat /\ nphi \in Nat
      /\ mmax \in Nat /\ lim' = lim
  BY <1>1, Bounds DEF ContentInv, lim
<1>3. stage = "region" /\ th'[t] = s
  BY <1>1 DEF ContentInv, RegionInv
<1>4. (Writes(t))' = {<<"row", b, zero>> : b \in 0 .. howmany - 1} /\ Writes(t) = {}
  BY <1>1, <1>3 DEF Writes
<1>5. ASSUME NEW b \in Batch, NEW r \in Row, RowUntaken(b, r)
      PROVE  RowUntaken(b, r)' \/ (<<"row", b, r>> \in Writes(t))'
  <2>1. CASE r > lim /\ r < nphi - lim
    BY <1>1, <1>2, <1>4, <1>5, <2>1 DEF RowUntaken, Row, Batch
  <2>2. CASE ~ (r > lim /\ r < nphi - lim)
    BY <1>1, <1>2, <1>5, <2>2 DEF RowUntaken
  <2> QED BY <2>1, <2>2
<1>6. /\ BrF'.domain = "fourier"
      /\ \A b \in Batch, r \in Row : RowDone(b, r) => RowDone(b, r)'
  BY <1>1, <1>3, SynthesisSame
<1>7. next' >= next /\ zero' >= zero /\ next' \in Nat /\ zero' \in Nat
  BY <1>1, <1>2
<1>8. next >= (lim + 1) * howmany
  BY <1>1, <1>3 DEF ContentInv, SynthesisInv
<1>9. s.at # "out"
  OBVIOUS
<1> HIDE DEF s
<1> QED BY <1>1, <1>3, <1>4, <1>5, <1>6, <1>7, <1>8, <1>9, MoveSynthesis

LEMMA ZeroRowContent ==
  ASSUME ContentInv, NEW t \in Thread, ZeroRow(t)
  PROVE  SynthesisInv' /\ AnalysisInv'
<1>0. PICK im \in Row, c \in Batch : th[t].im = im /\ th[t].b = c
  BY DEF ContentInv, TypeOK
<1> DEFINE v == {}
           n == [BrF EXCEPT !.row[c][im] = v]
           s == IF c + 1 < howmany THEN [at |-> "zero", im |-> im, b |-> c + 1]
                                   ELSE [at |-> "loop2", im |-> 0, b |-> 0]
<1>1. /\ th[t].at = "zero" /\ next' = next /\ zero' = zero
      /\ spec' = spec /\ fft_mode' = fft_mode /\ th' = [th EXCEPT ![t] = s]
      /\ call' = call /\ stage' = stage /\ llim' = llim
      /\ SetBrF(n)
  BY <1>0 DEF ZeroRow, Goto
<1>2. /\ howmany \in Nat \ {0} /\ lim \in 0 .. mmax /\ next \in Nat /\ zero \in Nat /\ nphi \in Nat
      /\ mmax \in Nat /\ nphi > 2 * mmax /\ lim' = lim
  BY <1>1, Bounds DEF ContentInv, lim
<1>3. /\ call = "synthesis" /\ im \in lim + 1 .. nphi - lim - 1 /\ c \in Batch
      /\ stage = "region"
  BY <1>0, <1>1 DEF ContentInv, RegionInv, HandedOut, Granted
<1>4. im \in Row /\ ~ (im <= lim) /\ ~ (im >= nphi - lim)
  BY <1>2, <1>3 DEF Row
<1>5. v \in Value /\ v = Synthesised(spec, llim)[c][im]
  BY <1>3, <1>4, Rows, UnknownValue
<1> HIDE DEF s, v
<1>6. /\ BrF'.domain = "fourier" /\ RowDone(c, im)'
      /\ \A b \in Batch, r \in Row : RowDone(b, r) => RowDone(b, r)'
  BY <1>1, <1>3, <1>4, <1>5, WriteDone
<1>7. th'[t] = s
  BY <1>1 DEF ContentInv, RegionInv
<1>8. ASSUME NEW b \in Batch, NEW r \in Row, <<"row", b, r>> \in Writes(t)
      PROVE  (<<"row", b, r>> \in Writes(t))' \/ RowDone(b, r)'
  <2>1. r = im /\ b \in c .. howmany - 1
    BY <1>0, <1>1, <1>8 DEF Writes
  <2>2. CASE b = c
    BY <1>6, <2>1, <2>2
  <2>3. CASE b # c
    <3>1. c \in Int /\ b \in c + 1 .. howmany - 1 /\ c + 1 < howmany
      BY <1>2, <1>3, <2>1, <2>3 DEF Batch
    <3>2. (Writes(t))' = {<<"row", x, im>> : x \in c + 1 .. howmany - 1}
      BY <1>7, <3>1 DEF s, Writes
    <3> QED BY <2>1, <3>1, <3>2
  <2> QED BY <2>2, <2>3
<1>9. \A b \in Batch, r \in Row : RowUntaken(b, r) => RowUntaken(b, r)'
  BY <1>1, <1>2 DEF RowUntaken
<1>10. next' >= next /\ zero' >= zero /\ next' \in Nat /\ zero' \in Nat
  BY <1>1, <1>2
<1>11. next >= (lim + 1) * howmany
  BY <1>1, <1>3 DEF ContentInv, SynthesisInv
<1>12. s.at # "out"
  BY DEF s
<1> QED BY <1>1, <1>3, <1>6, <1>8, <1>9, <1>10, <1>11, <1>12, MoveSynthesis

LEMMA LeaveSynthesis ==
  ASSUME ContentInv, NEW t \in Thread, LeaveLoop1(t) \/ LeaveLoop2(t), call = "synthesis"
  PROVE  SynthesisInv' /\ AnalysisInv'
<1> DEFINE where == IF LeaveLoop1(t) THEN "loop2" ELSE "out"
           s == [at |-> where, im |-> 0, b |-> 0]
<1>1. /\ th[t].at \in {"loop1", "loop2"} /\ zero' = zero /\ next' = next
      /\ th' = [th EXCEPT ![t] = s]
      /\ V' = V /\ W' = W /\ spec' = spec /\ fft_mode' = fft_mode
      /\ call' = call /\ stage' = stage /\ llim' = llim
  BY DEF LeaveLoop1, LeaveLoop2, Goto
<1>2. /\ lim \in 0 .. mmax /\ next \in Nat /\ zero \in Nat /\ nphi \in Nat /\ lim' = lim
      /\ howmany \in Nat
  BY <1>1, Bounds DEF ContentInv, lim
<1>3. stage = "region" /\ th'[t] = s
  BY <1>1 DEF ContentInv, RegionInv
<1>4. Writes(t) = {}
  BY <1>1 DEF Writes
<1>5. \A b \in Batch, r \in Row : RowUntaken(b, r) => RowUntaken(b, r)'
  BY <1>1, <1>2 DEF RowUntaken
<1>6. /\ BrF'.domain = "fourier"
      /\ \A b \in Batch, r \in Row : RowDone(b, r) => RowDone(b, r)'
  BY <1>1, <1>3, SynthesisSame
<1>7. next' >= next /\ zero' >= zero /\ next' \in Nat /\ zero' \in Nat
  BY <1>1, <1>2
<1>8. next >= (lim + 1) * howmany
  <2>1. CASE LeaveLoop1(t)
    <3>1. next = (lim + 1) * howmany
      BY <2>1 DEF LeaveLoop1
    <3> QED BY <1>2, <3>1
  <2>2. CASE LeaveLoop2(t)
    BY <1>3, <2>2 DEF ContentInv, SynthesisInv, LeaveLoop2
  <2> QED BY <2>1, <2>2
<1>9. s.at = "out" => ~ RowsLeft
  BY DEF LeaveLoop2
<1> HIDE DEF s
<1> QED BY <1>1, <1>3, <1>4, <1>5, <1>6, <1>7, <1>8, <1>9, MoveSynthesis

(* The same for an analysis, which writes the spectral array only. *)
LEMMA MoveAnalysis ==
  ASSUME ContentInv, NEW t \in Thread, call = "analysis", stage = "region",
         NEW s, th' = [th EXCEPT ![t] = s], V' = V, W' = W, fft_mode' = fft_mode,
         call' = call, stage' = stage, llim' = llim,
         next' >= next, zero' >= zero, next' \in Nat, zero' \in Nat,
         \A b \in Batch, im \in Order :
           OrderUntaken(b, im) => OrderUntaken(b, im)' \/ (<<"spec", b, im>> \in Writes(t))',
         \A b \in Batch, im \in Order :
           <<"spec", b, im>> \in Writes(t) =>
             (<<"spec", b, im>> \in Writes(t))' \/ OrderDone(b, im)',
         \A b \in Batch, im \in Order : OrderDone(b, im) => OrderDone(b, im)',
         s.at \in {"loop2", "zerospec", "out"} => next > lim,
         s.at = "out" => ~ FieldsLeft
  PROVE  SynthesisInv' /\ AnalysisInv'
<1>1. /\ \A b \in Batch, im \in Order : OrderPending(b, im) \/ OrderDone(b, im)
      /\ \A u \in Thread :
           /\ th[u].at \in {"loop2", "zerospec", "out"} => next > lim
           /\ th[u].at = "out" => ~ FieldsLeft
      /\ BrF.domain = "fourier"
  BY DEF ContentInv, AnalysisInv
<1>2. /\ lim' = lim /\ lim \in Nat /\ howmany \in Nat /\ next \in Nat /\ zero \in Nat
  BY Bounds DEF lim, ContentInv
<1>3. th \in [Thread -> [at : At, im : Row, b : Batch]]
  BY DEF ContentInv, TypeOK
<1>4. \A u \in Thread : th'[u] = IF u = t THEN s ELSE th[u]
  BY <1>3
<1>5. \A u \in Thread \ {t} : Writes(u)' = Writes(u)
  BY <1>4 DEF Writes
<1>6. (\A b \in Batch, im \in Order : OrderPending(b, im) \/ OrderDone(b, im))'
  <2> SUFFICES ASSUME NEW b \in Batch, NEW im \in Order
               PROVE  OrderPending(b, im)' \/ OrderDone(b, im)'
    OBVIOUS
  <2>1. CASE OrderDone(b, im)
    BY <2>1
  <2>2. CASE OrderUntaken(b, im)
    BY <2>2 DEF OrderPending
  <2>3. CASE \E u \in Thread : <<"spec", b, im>> \in Writes(u)
    <3>1. PICK u \in Thread : <<"spec", b, im>> \in Writes(u)
      BY <2>3
    <3>2. CASE u = t
      BY <3>1, <3>2 DEF OrderPending
    <3>3. CASE u # t
      BY <1>5, <3>1, <3>3 DEF OrderPending
    <3> QED BY <3>2, <3>3
  <2> QED BY <1>1, <2>1, <2>2, <2>3 DEF OrderPending
<1>7. \A u \in Thread : th'[u].at \in {"loop2", "zerospec", "out"} => next' > lim'
  BY <1>1, <1>2, <1>4
<1>8. \A u \in Thread : th'[u].at = "out" => ~ FieldsLeft'
  <2>1. FieldsLeft' => FieldsLeft
    BY <1>2 DEF FieldsLeft
  <2> QED BY <1>1, <1>4, <2>1
<1>9. BrF'.domain = "fourier"
  BY <1>1, SameBrF
<1> QED BY <1>6, <1>7, <1>8, <1>9 DEF SynthesisInv, AnalysisInv

(* Nothing is written. *)
LEMMA AnalysisSame ==
  ASSUME V' = V, W' = W, spec' = spec, call' = call, fft_mode' = fft_mode, llim' = llim
  PROVE  \A b \in Batch, im \in Order : OrderDone(b, im) => OrderDone(b, im)'
BY SameBrF DEF OrderDone

LEMMA TakeAnalysisContent ==
  ASSUME ContentInv, NEW t \in Thread, TakeAnalysis(t)
  PROVE  SynthesisInv' /\ AnalysisInv'
<1> DEFINE s == [at |-> "analyse", im |-> next, b |-> 0]
<1>1. /\ call = "analysis" /\ th[t].at = "loop1" /\ next' = next + 1 /\ zero' = zero
      /\ th' = [th EXCEPT ![t] = s]
      /\ V' = V /\ W' = W /\ spec' = spec /\ fft_mode' = fft_mode
      /\ call' = call /\ stage' = stage /\ llim' = llim
  BY DEF TakeAnalysis, Goto
<1>2. /\ lim \in 0 .. mmax /\ next \in Nat /\ zero \in Nat /\ lim' = lim /\ mmax \in Nat
      /\ howmany \in Nat
  BY <1>1, Bounds DEF ContentInv, lim
<1>3. stage = "region" /\ th'[t] = s
  BY <1>1 DEF ContentInv, RegionInv
<1>4. (Writes(t))' = {<<"spec", b, next>> : b \in 0 .. howmany - 1} /\ Writes(t) = {}
  BY <1>1, <1>3 DEF Writes
<1>5. \A b \in Batch, im \in Order :
        OrderUntaken(b, im) => OrderUntaken(b, im)' \/ (<<"spec", b, im>> \in Writes(t))'
  BY <1>1, <1>2, <1>4 DEF OrderUntaken, Order, Batch
<1>6. \A b \in Batch, im \in Order : OrderDone(b, im) => OrderDone(b, im)'
  BY <1>1, AnalysisSame
<1>7. next' >= next /\ zero' >= zero /\ next' \in Nat /\ zero' \in Nat
  BY <1>1, <1>2
<1>8. s.at \notin {"loop2", "zerospec", "out"}
  OBVIOUS
<1> HIDE DEF s
<1> QED BY <1>1, <1>3, <1>4, <1>5, <1>6, <1>7, <1>8, MoveAnalysis

LEMMA AnalyseContent ==
  ASSUME ContentInv, NEW t \in Thread, Analyse(t)
  PROVE  SynthesisInv' /\ AnalysisInv'
<1>0. PICK i \in Row, c \in Batch : th[t].im = i /\ th[t].b = c
  BY DEF ContentInv, TypeOK
<1> DEFINE s == IF c + 1 < howmany THEN [at |-> "analyse", im |-> i, b |-> c + 1]
                                   ELSE [at |-> "loop1", im |-> 0, b |-> 0]
<1>1. /\ th[t].at = "analyse" /\ next' = next /\ zero' = zero
      /\ V' = V /\ W' = W /\ fft_mode' = fft_mode
      /\ call' = call /\ stage' = stage /\ llim' = llim
      /\ spec' = [spec EXCEPT ![c][i] = Truncated(Paired(BrF.row[c], i), llim)]
  BY <1>0 DEF Analyse
<1>2. th' = [th EXCEPT ![t] = s]
  BY <1>0 DEF Analyse, Goto
<1>3. /\ lim \in 0 .. mmax /\ next \in Nat /\ zero \in Nat /\ lim' = lim /\ mmax \in Nat
      /\ howmany \in Nat \ {0}
  BY <1>1, Bounds DEF ContentInv, lim
<1>4. /\ call = "analysis" /\ i \in 0 .. lim /\ stage = "region" /\ i \in Order
  BY <1>0, <1>1, <1>3 DEF ContentInv, RegionInv, HandedOut, Granted, Order
<1>5. BrF' = BrF /\ th'[t] = s
  BY <1>1, <1>2, SameBrF DEF ContentInv, RegionInv
<1>6. \A b \in Batch, im \in Order :
        spec'[b][im] = IF b = c /\ im = i THEN Analysed(BrF.row, llim)[c][i] ELSE spec[b][im]
  <2>1. Analysed(BrF.row, llim)[c][i] = Truncated(Paired(BrF.row[c], i), llim)
    BY <1>4, Orders
  <2>2. spec \in [Batch -> [Order -> Value]]
    BY DEF ContentInv, TypeOK
  <2> QED BY <1>1, <1>4, <2>1, <2>2
<1>7. /\ OrderDone(c, i)'
      /\ \A b \in Batch, im \in Order : OrderDone(b, im) => OrderDone(b, im)'
  BY <1>1, <1>4, <1>5, <1>6 DEF OrderDone
<1> HIDE DEF s
<1>8. ASSUME NEW b \in Batch, NEW im \in Order, <<"spec", b, im>> \in Writes(t)
      PROVE  (<<"spec", b, im>> \in Writes(t))' \/ OrderDone(b, im)'
  <2>1. im = i /\ b \in c .. howmany - 1
    BY <1>0, <1>1, <1>8 DEF Writes
  <2>2. CASE b = c
    BY <1>7, <2>1, <2>2
  <2>3. CASE b # c
    <3>1. c \in Int /\ b \in c + 1 .. howmany - 1 /\ c + 1 < howmany
      BY <1>3, <2>1, <2>3 DEF Batch
    <3>2. (Writes(t))' = {<<"spec", x, i>> : x \in c + 1 .. howmany - 1}
      BY <1>5, <3>1 DEF s, Writes
    <3> QED BY <2>1, <3>1, <3>2
  <2> QED BY <2>2, <2>3
<1>9. \A b \in Batch, im \in Order : OrderUntaken(b, im) => OrderUntaken(b, im)'
  BY <1>1, <1>3 DEF OrderUntaken
<1>10. next' >= next /\ zero' >= zero /\ next' \in Nat /\ zero' \in Nat
  BY <1>1, <1>3
<1>11. s.at \notin {"loop2", "zerospec", "out"}
  BY DEF s
<1> QED BY <1>1, <1>2, <1>4, <1>7, <1>8, <1>9, <1>10, <1>11, MoveAnalysis

LEMMA TakeFieldContent ==
  ASSUME ContentInv, NEW t \in Thread, TakeField(t)
  PROVE  SynthesisInv' /\ AnalysisInv'
<1> DEFINE s == [at |-> "zerospec", im |-> lim + 1, b |-> zero]
<1>1. /\ call = "analysis" /\ th[t].at = "loop2" /\ next' = next /\ zero' = zero + 1
      /\ th' = [th EXCEPT ![t] = s]
      /\ V' = V /\ W' = W /\ spec' = spec /\ fft_mode' = fft_mode
      /\ call' = call /\ stage' = stage /\ llim' = llim
  BY DEF TakeField, Goto
<1>2. /\ lim \in 0 .. mmax /\ next \in Nat /\ zero \in Nat /\ lim' = lim /\ mmax \in Nat
      /\ howmany \in Nat
  BY <1>1, Bounds DEF ContentInv, lim
<1>3. stage = "region" /\ th'[t] = s
  BY <1>1 DEF ContentInv, RegionInv
<1>4. (Writes(t))' = {<<"spec", zero, im>> : im \in lim + 1 .. mmax} /\ Writes(t) = {}
  BY <1>1, <1>3 DEF Writes
<1>5. \A b \in Batch, im \in Order :
        OrderUntaken(b, im) => OrderUntaken(b, im)' \/ (<<"spec", b, im>> \in Writes(t))'
  BY <1>1, <1>2, <1>4 DEF OrderUntaken, Order, Batch
<1>6. \A b \in Batch, im \in Order : OrderDone(b, im) => OrderDone(b, im)'
  BY <1>1, AnalysisSame
<1>7. next' >= next /\ zero' >= zero /\ next' \in Nat /\ zero' \in Nat
  BY <1>1, <1>2
<1>8. next > lim
  BY <1>1, <1>3 DEF ContentInv, AnalysisInv
<1>9. s.at # "out"
  OBVIOUS
<1> HIDE DEF s
<1> QED BY <1>1, <1>3, <1>4, <1>5, <1>6, <1>7, <1>8, <1>9, MoveAnalysis

LEMMA ZeroSpecContent ==
  ASSUME ContentInv, NEW t \in Thread, ZeroSpec(t)
  PROVE  SynthesisInv' /\ AnalysisInv'
<1>0. PICK i \in Row, c \in Batch : th[t].im = i /\ th[t].b = c
  BY DEF ContentInv, TypeOK
<1> DEFINE s == [at |-> "loop2", im |-> 0, b |-> 0]
<1>1. /\ th[t].at = "zerospec" /\ next' = next /\ zero' = zero
      /\ V' = V /\ W' = W /\ fft_mode' = fft_mode
      /\ call' = call /\ stage' = stage /\ llim' = llim
      /\ spec' = [spec EXCEPT ![c] = [im \in Order |-> IF im >= i THEN {} ELSE spec[c][im]]]
      /\ th' = [th EXCEPT ![t] = s]
  BY <1>0 DEF ZeroSpec, Goto
<1>2. /\ lim \in 0 .. mmax /\ next \in Nat /\ zero \in Nat /\ lim' = lim /\ mmax \in Nat
  BY <1>1, Bounds DEF ContentInv, lim
<1>3. /\ call = "analysis" /\ i = lim + 1 /\ stage = "region"
  BY <1>0, <1>1 DEF ContentInv, RegionInv, HandedOut, Granted
<1>4. BrF' = BrF /\ th'[t] = s
  BY <1>1, SameBrF DEF ContentInv, RegionInv
<1>5. \A b \in Batch, im \in Order :
        spec'[b][im] = IF b = c /\ im > lim THEN Analysed(BrF.row, llim)[b][im] ELSE spec[b][im]
  <2>1. \A b \in Batch, im \in Order : im > lim => Analysed(BrF.row, llim)[b][im] = {}
    BY <1>2, Orders DEF Order
  <2>2. spec \in [Batch -> [Order -> Value]]
    BY DEF ContentInv, TypeOK
  <2>3. \A im \in Order : (im >= i) = (im > lim)
    BY <1>2, <1>3 DEF Order
  <2>4. \A b \in Batch, im \in Order :
          spec'[b][im] = IF b = c /\ im >= i THEN {} ELSE spec[b][im]
    BY <1>1, <2>2
  <2> QED BY <2>1, <2>3, <2>4
<1>6. \A b \in Batch, im \in Order : <<"spec", b, im>> \in Writes(t) => OrderDone(b, im)'
  <2>1. \A b \in Batch, im \in Order : <<"spec", b, im>> \in Writes(t) => b = c /\ im > lim
    BY <1>0, <1>1, <1>2, <1>3 DEF Writes
  <2> QED BY <1>1, <1>4, <1>5, <2>1 DEF OrderDone
<1>7. \A b \in Batch, im \in Order : OrderDone(b, im) => OrderDone(b, im)'
  BY <1>1, <1>4, <1>5 DEF OrderDone
<1>8. \A b \in Batch, im \in Order : OrderUntaken(b, im) => OrderUntaken(b, im)'
  BY <1>1, <1>2 DEF OrderUntaken
<1>9. next' >= next /\ zero' >= zero /\ next' \in Nat /\ zero' \in Nat
  BY <1>1, <1>2
<1>10. next > lim
  BY <1>1, <1>3 DEF ContentInv, AnalysisInv
<1>11. s.at # "out"
  OBVIOUS
<1> HIDE DEF s
<1> QED BY <1>1, <1>3, <1>6, <1>7, <1>8, <1>9, <1>10, <1>11, MoveAnalysis

LEMMA LeaveAnalysis ==
  ASSUME ContentInv, NEW t \in Thread, LeaveLoop1(t) \/ LeaveLoop2(t), call = "analysis"
  PROVE  SynthesisInv' /\ AnalysisInv'
<1> DEFINE where == IF LeaveLoop1(t) THEN "loop2" ELSE "out"
           s == [at |-> where, im |-> 0, b |-> 0]
<1>1. /\ th[t].at \in {"loop1", "loop2"} /\ zero' = zero /\ next' = next
      /\ th' = [th EXCEPT ![t] = s]
      /\ V' = V /\ W' = W /\ spec' = spec /\ fft_mode' = fft_mode
      /\ call' = call /\ stage' = stage /\ llim' = llim
  BY DEF LeaveLoop1, LeaveLoop2, Goto
<1>2. lim \in Nat /\ next \in Nat /\ zero \in Nat /\ lim' = lim
  BY <1>1, Bounds DEF ContentInv, lim
<1>3. stage = "region"
  BY <1>1 DEF ContentInv, RegionInv
<1>4. Writes(t) = {}
  BY <1>1 DEF Writes
<1>5. \A b \in Batch, im \in Order : OrderUntaken(b, im) => OrderUntaken(b, im)'
  BY <1>1, <1>2 DEF OrderUntaken
<1>6. \A b \in Batch, im \in Order : OrderDone(b, im) => OrderDone(b, im)'
  BY <1>1, AnalysisSame
<1>7. next' >= next /\ zero' >= zero /\ next' \in Nat /\ zero' \in Nat
  BY <1>1, <1>2
<1>8. next > lim
  BY <1>3 DEF ContentInv, AnalysisInv, LeaveLoop1, LeaveLoop2
<1>9. s.at = "out" => ~ FieldsLeft
  BY DEF LeaveLoop2
<1> HIDE DEF s
<1> QED BY <1>1, <1>3, <1>4, <1>5, <1>6, <1>7, <1>8, <1>9, MoveAnalysis

(* Every step of a thread keeps what is pending and what is done apart. *)
LEMMA StepContent ==
  ASSUME ContentInv, NEW t \in Thread, Step(t)
  PROVE  SynthesisInv' /\ AnalysisInv'
<1>1. CASE LeaveLoop1(t) \/ LeaveLoop2(t)
  <2>1. th[t].at # "out"
    BY <1>1 DEF LeaveLoop1, LeaveLoop2
  <2>2. call = "synthesis" \/ call = "analysis"
    BY <2>1 DEF ContentInv, TypeOK, RegionInv
  <2> QED BY <1>1, <2>2, LeaveSynthesis, LeaveAnalysis
<1> QED BY <1>1, TakeOrderContent, WriteLowContent, WriteHighContent, TakeAnalysisContent,
           AnalyseContent, TakeZeroContent, ZeroRowContent, TakeFieldContent, ZeroSpecContent
        DEF Step

(* At the start of a synthesis nothing is taken. *)
LEMMA BeginSynthesis ==
  ASSUME ContentInv, NEW e \in Llim, SH_to_spat_omp_a(e)
  PROVE  SynthesisInv' /\ AnalysisInv'
<1>1. /\ call' = "synthesis" /\ llim' = e /\ stage' = "region" /\ next' = 0
      /\ zero' = imlim(e) + 1 /\ fft_mode' = fft_mode
      /\ th' = [t \in Thread |-> [at |-> "loop1", im |-> 0, b |-> 0]]
      /\ IF OutOfPlace("synthesis")
         THEN W' = [domain |-> "fourier", row |-> Lost] /\ V' = V
         ELSE V' = [V EXCEPT !.domain = "fourier"] /\ W' = W
  BY DEF SH_to_spat_omp_a, EnterRegion, ZeroStart
<1>2. BrF'.domain = "fourier"
  BY <1>1 DEF BrF, OutOfPlace, ContentInv, TypeOK, Array
<1>3. lim' = imlim(e) /\ imlim(e) \in 0 .. mmax /\ howmany \in Nat /\ nphi \in Nat /\ mmax \in Nat
  BY <1>1, LimBound, SizeAssumption DEF lim
<1>4. ASSUME NEW b \in Batch, NEW r \in Row
      PROVE  RowUntaken(b, r)'
  <2>1. r * howmany \in Nat /\ (nphi - r) * howmany \in Nat /\ b \in Nat /\ r \in Nat
    BY <1>3 DEF Batch, Row
  <2>2. r * howmany + b >= 0 /\ (nphi - r) * howmany + b >= 0
    BY <2>1
  <2>3. r <= lim' \/ r >= nphi - lim' \/ (r > lim' /\ r < nphi - lim' /\ r >= zero')
    BY <1>1, <1>3, <2>1
  <2> QED BY <1>1, <2>2, <2>3 DEF RowUntaken
<1>5. \A t \in Thread : th'[t].at = "loop1"
  BY <1>1
<1> QED BY <1>1, <1>2, <1>4, <1>5 DEF SynthesisInv, AnalysisInv, RowPending

(* Nor at the start of an analysis. *)
LEMMA BeginAnalysis ==
  ASSUME ContentInv, ForwardFft
  PROVE  SynthesisInv' /\ AnalysisInv'
<1> DEFINE a == IF Planned THEN Fourier(V, "fourier")
                           ELSE [domain |-> "fourier", row |-> Lost]
<1>1. /\ call' = call /\ call = "analysis" /\ llim' = llim /\ stage' = "region" /\ next' = 0
      /\ zero' = 0 /\ fft_mode' = fft_mode /\ SetBrF(a)
      /\ th' = [t \in Thread |-> [at |-> "loop1", im |-> 0, b |-> 0]]
  BY DEF ForwardFft, EnterRegion
<1>2. a.domain = "fourier"
  BY DEF Fourier
<1> HIDE DEF a
<1>3. BrF'.domain = "fourier"
  BY <1>1, <1>2, SetBrFIs DEF ContentInv
<1>4. lim' = lim /\ lim \in 0 .. mmax /\ howmany \in Nat /\ mmax \in Nat
  BY <1>1, Bounds DEF lim, ContentInv
<1>5. \A b \in Batch, im \in Order : OrderUntaken(b, im)'
  BY <1>1, <1>4 DEF OrderUntaken, Batch, Order
<1>6. \A t \in Thread : th'[t].at = "loop1"
  BY <1>1
<1> QED BY <1>1, <1>3, <1>5, <1>6 DEF SynthesisInv, AnalysisInv, OrderPending

(* At the end of the region, where all threads are out, all is done. *)
LEMMA AllRowsDone ==
  ASSUME ContentInv, call = "synthesis", stage = "region", \A t \in Thread : th[t].at = "out",
         NEW b \in Batch, NEW r \in Row
  PROVE  RowDone(b, r)
<1>1. PICK t \in Thread : TRUE
  BY ThreadAssumption
<1>2. RowPending(b, r) \/ RowDone(b, r)
  BY DEF ContentInv, SynthesisInv
<1>3. next >= (lim + 1) * howmany /\ ~ RowsLeft
  BY <1>1 DEF ContentInv, SynthesisInv
<1>4. \A u \in Thread : Writes(u) = {}
  BY DEF Writes
<1>5. /\ howmany \in Nat \ {0} /\ lim \in Nat /\ next \in Nat /\ zero \in Nat /\ nphi \in Nat
  BY Bounds DEF ContentInv
<1>6. ASSUME NEW q \in Nat, q <= lim
      PROVE  ~ (q * howmany + b >= next)
  <2> DEFINE k == lim - q
  <2>1. k \in Nat /\ lim + 1 = q + k + 1
    BY <1>5, <1>6
  <2> HIDE DEF k
  <2>2. (lim + 1) * howmany = q * howmany + k * howmany + howmany /\ k * howmany >= 0
    BY <1>5, <2>1
  <2>3. q * howmany \in Int /\ k * howmany \in Int /\ b \in 0 .. howmany - 1
    BY <1>5, <2>1 DEF Batch
  <2> QED BY <1>3, <1>5, <2>2, <2>3
<1>7. ~ RowUntaken(b, r)
  <2>1. r \in Nat /\ nphi - r \in Nat
    BY <1>5 DEF Row
  <2>2. ~ (r > lim /\ r < nphi - lim /\ r >= zero)
    BY <1>3, <1>5, <2>1 DEF RowsLeft
  <2>3. r >= nphi - lim => nphi - r <= lim
    BY <1>5, <2>1
  <2> QED BY <1>6, <2>1, <2>2, <2>3 DEF RowUntaken
<1> QED BY <1>2, <1>4, <1>7 DEF RowPending

LEMMA AllOrdersDone ==
  ASSUME ContentInv, call = "analysis", stage = "region", \A t \in Thread : th[t].at = "out",
         NEW b \in Batch, NEW im \in Order
  PROVE  OrderDone(b, im)
<1>1. PICK t \in Thread : TRUE
  BY ThreadAssumption
<1>2. OrderPending(b, im) \/ OrderDone(b, im)
  BY DEF ContentInv, AnalysisInv
<1>3. next > lim /\ ~ FieldsLeft
  BY <1>1 DEF ContentInv, AnalysisInv
<1>4. \A u \in Thread : Writes(u) = {}
  BY DEF Writes
<1>5. lim \in 0 .. mmax /\ next \in Nat /\ zero \in Nat /\ howmany \in Nat /\ mmax \in Nat
  BY Bounds DEF ContentInv
<1>6. ~ OrderUntaken(b, im)
  BY <1>3, <1>5 DEF OrderUntaken, FieldsLeft, Batch, Order
<1> QED BY <1>2, <1>4, <1>6 DEF OrderPending

(* A sequential synthesis begins, does an order, zeroes the rest. *)
LEMMA FlySynthesisContent ==
  ASSUME ContentInv, FlyOrder \/ FlyZeroRows \/ \E e \in Llim : SH_to_spat_fly(e)
  PROVE  SynthesisInv' /\ AnalysisInv'
<1>1. /\ lim \in 0 .. mmax /\ next \in Nat /\ mmax \in Nat /\ nphi \in Nat /\ nphi > 2 * mmax
  BY Bounds DEF ContentInv
<1>2. TypeOK /\ BrF \in Array /\ BrF.row \in [Batch -> [Row -> Value]]
  BY BrFArray DEF ContentInv, Array
<1>3. CASE \E e \in Llim : SH_to_spat_fly(e)
  <2>1. /\ call' = "synthesis" /\ stage' = "fly" /\ next' = 0 /\ fft_mode' = fft_mode
        /\ IF OutOfPlace("synthesis")
           THEN W' = [domain |-> "fourier", row |-> Lost] /\ V' = V
           ELSE V' = [V EXCEPT !.domain = "fourier"] /\ W' = W
    BY <1>3 DEF SH_to_spat_fly
  <2>2. BrF'.domain = "fourier"
    BY <2>1 DEF BrF, OutOfPlace, ContentInv, TypeOK, Array
  <2>3. \A r \in Row : ~ (r < next') /\ ~ (nphi - r < next')
    BY <1>1, <2>1 DEF Row
  <2> QED BY <2>1, <2>2, <2>3 DEF SynthesisInv, AnalysisInv
<1>4. CASE FlyOrder
  <2> DEFINE f == [b \in Batch |-> [r \in Row |->
                     IF r = next \/ r = nphi - next
                     THEN Summed(spec[b][next], llim) ELSE BrF.row[b][r]]]
  <2>1. /\ call = "synthesis" /\ stage = "fly" /\ next <= lim /\ next' = next + 1
        /\ spec' = spec /\ fft_mode' = fft_mode /\ call' = call /\ llim' = llim
        /\ stage' = stage /\ SetBrF([BrF EXCEPT !.row = f])
    BY <1>4 DEF FlyOrder
  <2>2. BrF' = [BrF EXCEPT !.row = f] /\ lim' = lim
    BY <1>2, <2>1, SetBrFIs DEF lim
  <2>3. BrF.domain = "fourier"
    BY <2>1 DEF ContentInv, SynthesisInv
  <2> HIDE DEF f
  <2>4. BrF'.domain = "fourier" /\ BrF'.row = f
    BY <1>2, <2>2, <2>3 DEF Array
  <2>5. ASSUME NEW b \in Batch, NEW r \in Row,
               (r <= lim /\ r < next') \/ (r >= nphi - lim /\ nphi - r < next')
        PROVE  f[b][r] = Synthesised(spec, llim)[b][r]
    <3>1. f[b][r] = IF r = next \/ r = nphi - next
                    THEN Summed(spec[b][next], llim) ELSE BrF.row[b][r]
      BY DEF f
    <3>2. CASE r = next
      BY <2>1, <3>1, <3>2, Rows
    <3>3. CASE r = nphi - next
      <4>1. ~ (r <= lim) /\ r >= nphi - lim /\ nphi - r = next
        BY <1>1, <2>1, <3>3 DEF Row
      <4> QED BY <3>1, <3>3, <4>1, Rows
    <3>4. CASE r # next /\ r # nphi - next
      <4>1. (r <= lim /\ r < next) \/ (r >= nphi - lim /\ nphi - r < next)
        BY <1>1, <2>1, <2>5, <3>4 DEF Row
      <4>2. RowDone(b, r)
        BY <2>1, <4>1 DEF ContentInv, SynthesisInv
      <4> QED BY <3>1, <3>4, <4>2 DEF RowDone
    <3> QED BY <3>2, <3>3, <3>4
  <2> QED BY <2>1, <2>2, <2>4, <2>5 DEF SynthesisInv, AnalysisInv, RowDone
<1>5. CASE FlyZeroRows
  <2> DEFINE f == [b \in Batch |-> [r \in Row |->
                     IF r > lim /\ r < nphi - lim THEN {} ELSE BrF.row[b][r]]]
  <2>1. /\ call = "synthesis" /\ stage = "fly" /\ next > lim
        /\ spec' = spec /\ fft_mode' = fft_mode /\ call' = call /\ llim' = llim
        /\ stage' = "fft" /\ SetBrF([BrF EXCEPT !.row = f])
    BY <1>5 DEF FlyZeroRows
  <2>2. BrF' = [BrF EXCEPT !.row = f]
    BY <1>2, <2>1, SetBrFIs
  <2>3. BrF.domain = "fourier"
    BY <2>1 DEF ContentInv, SynthesisInv
  <2> HIDE DEF f
  <2>4. BrF'.domain = "fourier" /\ BrF'.row = f
    BY <1>2, <2>2, <2>3 DEF Array
  <2>5. ASSUME NEW b \in Batch, NEW r \in Row
        PROVE  f[b][r] = Synthesised(spec, llim)[b][r]
    <3>1. f[b][r] = IF r > lim /\ r < nphi - lim THEN {} ELSE BrF.row[b][r]
      BY DEF f
    <3>2. CASE r > lim /\ r < nphi - lim
      <4>1. ~ (r <= lim) /\ ~ (r >= nphi - lim)
        BY <1>1, <3>2 DEF Row
      <4> QED BY <3>1, <3>2, <4>1, Rows
    <3>3. CASE ~ (r > lim /\ r < nphi - lim)
      <4>1. (r <= lim /\ r < next) \/ (r >= nphi - lim /\ nphi - r < next)
        BY <1>1, <2>1, <3>3 DEF Row
      <4>2. RowDone(b, r)
        BY <2>1, <4>1 DEF ContentInv, SynthesisInv
      <4> QED BY <3>1, <3>3, <4>2 DEF RowDone
    <3> QED BY <3>2, <3>3
  <2> QED BY <2>1, <2>4, <2>5 DEF SynthesisInv, AnalysisInv, RowDone
<1> QED BY <1>3, <1>4, <1>5

(* A sequential analysis begins, and does an order. *)
LEMMA FlyAnalysisContent ==
  ASSUME ContentInv, FlyAnalyse \/ \E e \in Llim : spat_to_SH_fly(e)
  PROVE  SynthesisInv' /\ AnalysisInv'
<1>1. /\ lim \in 0 .. mmax /\ next \in Nat /\ mmax \in Nat
  BY Bounds DEF ContentInv
<1>2. CASE \E e \in Llim : spat_to_SH_fly(e)
  <2> DEFINE a == IF Planned THEN Fourier(V, "fourier")
                             ELSE [domain |-> "fourier", row |-> Lost]
  <2>1. /\ call' = "analysis" /\ stage' = "fly" /\ next' = 0 /\ fft_mode' = fft_mode
        /\ IF OutOfPlace("analysis") THEN W' = a ELSE V' = a
    BY <1>2 DEF spat_to_SH_fly
  <2>2. a.domain = "fourier"
    BY DEF Fourier
  <2> HIDE DEF a
  <2>3. BrF'.domain = "fourier"
    BY <2>1, <2>2 DEF BrF, OutOfPlace
  <2>4. \A im \in Order : ~ (im < next')
    BY <1>1, <2>1 DEF Order
  <2> QED BY <2>1, <2>3, <2>4 DEF SynthesisInv, AnalysisInv
<1>3. CASE FlyAnalyse
  <2>1. /\ call = "analysis" /\ stage = "fly" /\ next <= lim /\ next' = next + 1
        /\ V' = V /\ W' = W /\ fft_mode' = fft_mode /\ call' = call /\ llim' = llim
        /\ stage' = stage
        /\ spec' = [b \in Batch |->
             [spec[b] EXCEPT ![next] = Truncated(Paired(BrF.row[b], next), llim)]]
    BY <1>3 DEF FlyAnalyse
  <2>2. BrF' = BrF /\ BrF.domain = "fourier" /\ lim' = lim
    BY <2>1, SameBrF DEF ContentInv, AnalysisInv, lim
  <2>3. spec \in [Batch -> [Order -> Value]]
    BY DEF ContentInv, TypeOK
  <2>4. ASSUME NEW b \in Batch, NEW im \in Order, im <= lim, im < next'
        PROVE  spec'[b][im] = Analysed(BrF.row, llim)[b][im]
    <3>1. CASE im = next
      BY <2>1, <2>3, <2>4, <3>1, Orders
    <3>2. CASE im # next
      <4>1. im < next /\ spec'[b][im] = spec[b][im]
        BY <1>1, <2>1, <2>3, <2>4, <3>2 DEF Order
      <4>2. OrderDone(b, im)
        BY <2>1, <2>4, <4>1 DEF ContentInv, AnalysisInv
      <4> QED BY <4>1, <4>2 DEF OrderDone
    <3> QED BY <3>1, <3>2
  <2> QED BY <2>1, <2>2, <2>4 DEF SynthesisInv, AnalysisInv, OrderDone
<1> QED BY <1>2, <1>3

(* Every step keeps the contents' invariant. *)
LEMMA FlyNextContentInv == ContentInv /\ [FlyNext]_vars => ContentInv'
<1> SUFFICES ASSUME ContentInv, [FlyNext]_vars PROVE ContentInv'
  OBVIOUS
<1>1. TypeOK' /\ RegionInv'
  BY FlyNextRegionInv, NextTypeOK DEF ContentInv
<1>2. CASE UNCHANGED vars
  <2>0. /\ spec' = spec /\ V' = V /\ W' = W /\ fft_mode' = fft_mode /\ call' = call
        /\ llim' = llim /\ stage' = stage /\ next' = next /\ zero' = zero /\ th' = th
    BY <1>2 DEF vars
  <2>1. /\ BrF' = BrF /\ lim' = lim /\ RowsLeft' = RowsLeft /\ FieldsLeft' = FieldsLeft
        /\ \A t : Writes(t)' = Writes(t)
    BY <2>0, SameBrF DEF lim, RowsLeft, FieldsLeft, Writes
  <2>2. /\ \A b, r : RowPending(b, r)' = RowPending(b, r) /\ RowDone(b, r)' = RowDone(b, r)
        /\ \A b, im : OrderPending(b, im)' = OrderPending(b, im)
                      /\ OrderDone(b, im)' = OrderDone(b, im)
    BY <2>0, <2>1 DEF RowPending, RowUntaken, RowDone, OrderPending, OrderUntaken, OrderDone
  <2>3. SynthesisInv'
    BY <2>0, <2>1, <2>2 DEF ContentInv, SynthesisInv
  <2>4. AnalysisInv'
    BY <2>0, <2>1, <2>2 DEF ContentInv, AnalysisInv
  <2> QED BY <1>1, <2>3, <2>4 DEF ContentInv
<1>3. CASE Fill \/ InverseFft \/ FlyZeroSpec \/ \E e \in Llim : spat_to_SH_omp_a(e)
  <2>1. call' = "none" \/ (call' = "analysis" /\ stage' = "fft")
    BY <1>3 DEF Fill, InverseFft, FlyZeroSpec, spat_to_SH_omp_a
  <2> QED BY <1>1, <2>1 DEF ContentInv, SynthesisInv, AnalysisInv
<1>4. CASE EndRegion
  <2>1. /\ stage = "region" /\ \A t \in Thread : th[t].at = "out"
        /\ stage' = "fft" /\ (call' = "synthesis" => call = "synthesis" /\ call' = call)
        /\ V' = V /\ W' = W /\ fft_mode' = fft_mode /\ spec' = spec /\ llim' = llim
    BY <1>4 DEF EndRegion
  <2>2. call' = "synthesis" => BrF' = BrF
    BY <2>1, SameBrF
  <2>3. call' = "synthesis" => \A b \in Batch, r \in Row : RowDone(b, r)'
    BY <2>1, <2>2, AllRowsDone DEF RowDone
  <2>4. call' = "synthesis" => BrF'.domain = "fourier"
    BY <2>1, <2>2 DEF ContentInv, SynthesisInv
  <2> QED BY <1>1, <2>1, <2>3, <2>4 DEF ContentInv, SynthesisInv, AnalysisInv
<1>5. CASE FlyNext
  <2>1. CASE \E e \in Llim : SH_to_spat_omp_a(e)
    BY <1>1, <2>1, BeginSynthesis DEF ContentInv
  <2>2. CASE ForwardFft
    BY <1>1, <2>2, BeginAnalysis DEF ContentInv
  <2>3. CASE \E t \in Thread : Step(t)
    BY <1>1, <2>3, StepContent DEF ContentInv
  <2>4. CASE FlyOrder \/ FlyZeroRows \/ \E e \in Llim : SH_to_spat_fly(e)
    BY <1>1, <2>4, FlySynthesisContent DEF ContentInv
  <2>5. CASE FlyAnalyse \/ \E e \in Llim : spat_to_SH_fly(e)
    BY <1>1, <2>5, FlyAnalysisContent DEF ContentInv
  <2> QED BY <1>3, <1>4, <1>5, <2>1, <2>2, <2>3, <2>4, <2>5 DEF FlyNext, Next, Master, Sequential
<1> QED BY <1>2, <1>5

(* While a call runs, every row and every order that has no result yet still *)
(* has an iteration nobody took or a thread about to write it; what has one  *)
(* has the right one.                                                        *)
THEOREM ContentInvariant == FlySpec => []ContentInv
<1>1. Init => ContentInv
  <2>1. Init => SynthesisInv /\ AnalysisInv
    BY DEF Init, SynthesisInv, AnalysisInv
  <2> QED BY <2>1, InitTypeOK, InitRegionInv DEF ContentInv
<1> QED BY <1>1, FlyNextContentInv, PTL DEF FlySpec

-----------------------------------------------------------------------------
(* The arrays of the abstract transform are those of the module Fields.      *)
LEMMA SameFields ==
  /\ Atomic!Full = Full /\ Atomic!Lost = Lost
  /\ \A s, e : Atomic!Synthesised(s, e) = Synthesised(s, e)
  /\ \A f, e : Atomic!Analysed(f, e) = Analysed(f, e)
BY DEF Atomic!Full, Full, Atomic!Lost, Lost, Atomic!Synthesised, Synthesised,
       Atomic!Analysed, Analysed, Atomic!Batch, Batch, Atomic!Order, Order, Atomic!Row, Row,
       Atomic!Unknown, Unknown, Atomic!Summed, Summed, Atomic!Truncated, Truncated,
       Atomic!imlim, imlim,
       Atomic!Paired, Paired

(* A result is a function of fields and rows, or orders: it is what it is    *)
(* everywhere.                                                               *)
LEMMA RowsAreResult ==
  ASSUME TypeOK, \A b \in Batch, r \in Row : RowDone(b, r)
  PROVE  BrF.row = Synthesised(spec, llim)
<1>1. BrF.row \in [Batch -> [Row -> Value]]
  BY BrFArray DEF Array
<1>2. \A b \in Batch : BrF.row[b] = Synthesised(spec, llim)[b]
  BY <1>1 DEF RowDone, Synthesised
<1> QED BY <1>1, <1>2 DEF Synthesised

LEMMA OrdersAreResult ==
  ASSUME TypeOK, \A b \in Batch, im \in Order : OrderDone(b, im)
  PROVE  spec = Analysed(BrF.row, llim)
<1>1. spec \in [Batch -> [Order -> Value]]
  BY DEF TypeOK
<1>2. \A b \in Batch : spec[b] = Analysed(BrF.row, llim)[b]
  BY <1>1 DEF OrderDone, Analysed
<1> QED BY <1>1, <1>2 DEF Analysed

(* A synthesis begins: the abstract one is done. *)
LEMMA SynthesisStep ==
  ASSUME ContentInv, NEW e \in Llim, SH_to_spat_omp_a(e) \/ SH_to_spat_fly(e)
  PROVE  spatBar' = Synthesised(specBar, e) /\ specBar' = specBar
<1>1. call = "none" /\ call' = "synthesis" /\ llim' = e /\ spec' = spec
  BY DEF SH_to_spat_omp_a, SH_to_spat_fly
<1> QED BY <1>1 DEF specBar, spatBar

(* An analysis begins: the abstract one is done. *)
LEMMA AnalysisStep ==
  ASSUME ContentInv, AlwaysPlanned, NEW e \in Llim, spat_to_SH_omp_a(e) \/ spat_to_SH_fly(e)
  PROVE  specBar' = Analysed(spatBar, e) /\ spatBar' \in {spatBar, Lost}
<1>1. /\ call = "none" /\ call' = "analysis" /\ llim' = e /\ fft_mode' = fft_mode
  BY DEF spat_to_SH_omp_a, spat_to_SH_fly
<1>2. OutOfPlace("analysis")' = OutOfPlace("analysis") /\ Planned
  BY <1>1 DEF OutOfPlace, Planned, AlwaysPlanned, ContentInv, TypeOK
<1>3. Fourier(V, "fourier").row = IF V.domain = "grid" THEN V.row ELSE Lost
  BY DEF Fourier, ContentInv, TypeOK, Array
<1>4. CASE spat_to_SH_omp_a(e)
  <2>1. stage' = "fft" /\ V' = V
    BY <1>4 DEF spat_to_SH_omp_a
  <2> QED BY <1>1, <1>2, <1>3, <2>1 DEF specBar, spatBar
<1>5. CASE spat_to_SH_fly(e)
  <2>1. /\ stage' = "fly"
        /\ IF OutOfPlace("analysis") THEN W' = Fourier(V, "fourier") /\ V' = V
                                     ELSE V' = Fourier(V, "fourier")
    BY <1>2, <1>5 DEF spat_to_SH_fly
  <2>2. BrF' = Fourier(V, "fourier")
    BY <1>1, <1>2, <2>1 DEF BrF
  <2>3. specBar' = Analysed(spatBar, e)
    BY <1>1, <1>3, <2>1, <2>2 DEF specBar, spatBar
  <2>4. spatBar' \in {spatBar, Lost}
    BY <1>1, <1>2, <2>1 DEF spatBar
  <2> QED BY <2>3, <2>4
<1> QED BY <1>4, <1>5

(* The steps of a thread and of a sequential call show nothing. *)
LEMMA HiddenStep ==
  ASSUME ContentInv, ContentInv', Sequential \/ \E t \in Thread : Step(t)
  PROVE  specBar' = specBar /\ spatBar' = spatBar
<1>1. llim' = llim /\ fft_mode' = fft_mode
  BY DEF Step, TakeOrder, WriteLow, WriteHigh, TakeAnalysis, Analyse,
         LeaveLoop1, TakeZero, ZeroRow, TakeField, ZeroSpec, LeaveLoop2,
         Sequential, FlyOrder, FlyZeroRows, FlyAnalyse, FlyZeroSpec
<1>2. CASE /\ call = "synthesis" /\ call' = call /\ spec' = spec
  BY <1>1, <1>2 DEF specBar, spatBar
<1>3. CASE call = "analysis" /\ call' = call /\ stage' = stage /\ V' = V /\ W' = W
  <2>1. BrF' = BrF /\ OutOfPlace("analysis")' = OutOfPlace("analysis")
    BY <1>1, <1>3, SameBrF DEF OutOfPlace
  <2> QED BY <1>1, <1>3, <2>1 DEF specBar, spatBar
<1>4. CASE FlyZeroSpec
  <2>1. /\ call = "analysis" /\ call' = "none" /\ stage = "fly" /\ V' = V /\ W' = W
        /\ next > lim
        /\ spec' = [b \in Batch |-> [im \in Order |-> IF im > lim THEN {} ELSE spec[b][im]]]
    BY <1>4 DEF FlyZeroSpec
  <2>2. lim \in 0 .. mmax /\ mmax \in Nat /\ next \in Nat
    BY Bounds DEF ContentInv
  <2>3. \A b \in Batch, im \in Order : spec'[b][im] = Analysed(BrF.row, llim)[b][im]
    <3> SUFFICES ASSUME NEW b \in Batch, NEW im \in Order
                 PROVE  spec'[b][im] = Analysed(BrF.row, llim)[b][im]
      OBVIOUS
    <3>1. CASE im > lim
      BY <2>1, <2>2, <3>1, Orders DEF Order
    <3>2. CASE ~ (im > lim)
      <4>1. im <= lim /\ im < next
        BY <2>1, <2>2, <3>2 DEF Order
      <4>2. OrderDone(b, im)
        BY <2>1, <4>1 DEF ContentInv, AnalysisInv
      <4> QED BY <2>1, <3>2, <4>2 DEF OrderDone
    <3> QED BY <3>1, <3>2
  <2>4. spec' = Analysed(BrF.row, llim)
    <3>1. \A b \in Batch : spec'[b] = Analysed(BrF.row, llim)[b]
      BY <2>1, <2>3 DEF Analysed
    <3> QED BY <2>1, <3>1 DEF Analysed
  <2>5. ~ OutOfPlace(call) => V.domain = "fourier"
    BY <2>1 DEF ContentInv, AnalysisInv, BrF
  <2> QED BY <2>1, <2>4, <2>5 DEF specBar, spatBar
<1>5. CASE FlyOrder \/ FlyZeroRows
  BY <1>2, <1>5 DEF FlyOrder, FlyZeroRows
<1>6. CASE FlyAnalyse
  BY <1>3, <1>6 DEF FlyAnalyse
<1>7. CASE \E t \in Thread : Step(t)
  <2>1. PICK t \in Thread : Step(t)
    BY <1>7
  <2>2. th[t].at # "out" /\ call' = call /\ stage' = stage
    BY <2>1 DEF Step, TakeOrder, WriteLow, WriteHigh, TakeAnalysis, Analyse,
         LeaveLoop1, TakeZero, ZeroRow, TakeField, ZeroSpec, LeaveLoop2
  <2>3. HandedOut(th[t]) /\ (call = "synthesis" \/ call = "analysis")
    BY <2>2 DEF ContentInv, TypeOK, RegionInv
  <2>4. CASE call = "synthesis"
    <3>1. spec' = spec
      BY <2>1, <2>3, <2>4 DEF HandedOut, Granted, Step, TakeOrder, WriteLow, WriteHigh,
         TakeAnalysis, Analyse, LeaveLoop1, TakeZero, ZeroRow, TakeField, ZeroSpec, LeaveLoop2
    <3> QED BY <1>2, <2>2, <2>4, <3>1
  <2>5. CASE call = "analysis"
    <3>1. V' = V /\ W' = W
      BY <2>1, <2>3, <2>5 DEF HandedOut, Granted, Step, TakeOrder, WriteLow, WriteHigh,
         TakeAnalysis, Analyse, LeaveLoop1, TakeZero, ZeroRow, TakeField, ZeroSpec, LeaveLoop2
    <3> QED BY <1>3, <2>2, <2>5, <3>1
  <2> QED BY <2>3, <2>4, <2>5
<1> QED BY <1>4, <1>5, <1>6, <1>7 DEF Sequential

(* Nor do the Fourier transforms and the end of the region. *)
LEMMA HiddenMaster ==
  ASSUME ContentInv, AlwaysPlanned, Master
  PROVE  specBar' = specBar /\ spatBar' = spatBar
<1>1. TypeOK /\ BrF \in Array /\ V \in Array
  BY BrFArray DEF ContentInv, TypeOK
<1>2. CASE ForwardFft
  <2>1. Planned
    BY <1>1 DEF Planned, AlwaysPlanned, TypeOK
  <2>2. /\ call = "analysis" /\ stage = "fft" /\ call' = call /\ llim' = llim
        /\ stage' = "region" /\ fft_mode' = fft_mode
        /\ SetBrF(Fourier(V, "fourier"))
    BY <1>2, <2>1 DEF ForwardFft, EnterRegion
  <2>3. BrF' = Fourier(V, "fourier")
    BY <1>1, <2>2, SetBrFIs
  <2>4. OutOfPlace(call)' = OutOfPlace(call)
    BY <2>2 DEF OutOfPlace
  <2>5. OutOfPlace(call) => V' = V
    BY <2>2 DEF SetBrF
  <2> QED BY <2>2, <2>3, <2>4, <2>5 DEF specBar, spatBar
<1>3. CASE EndRegion
  <2>1. /\ call # "none" /\ stage = "region" /\ \A t \in Thread : th[t].at = "out"
        /\ stage' = "fft" /\ call' = (IF call = "synthesis" THEN call ELSE "none")
        /\ V' = V /\ W' = W /\ fft_mode' = fft_mode /\ spec' = spec /\ llim' = llim
    BY <1>3 DEF EndRegion
  <2>2. CASE call = "synthesis"
    BY <2>1, <2>2 DEF specBar, spatBar
  <2>3. CASE call = "analysis"
    <3>1. spec = Analysed(BrF.row, llim)
      BY <1>1, <2>1, <2>3, AllOrdersDone, OrdersAreResult
    <3>2. ~ OutOfPlace(call) => V.domain = "fourier"
      BY <2>1, <2>3 DEF ContentInv, AnalysisInv, BrF
    <3> QED BY <2>1, <2>3, <3>1, <3>2 DEF specBar, spatBar
  <2> QED BY <1>1, <2>1, <2>2, <2>3 DEF TypeOK
<1>4. CASE InverseFft
  <2>1. /\ call = "synthesis" /\ stage = "fft" /\ call' = "none" /\ spec' = spec
        /\ V' = Fourier(BrF, "grid")
    BY <1>4 DEF InverseFft
  <2>2. BrF.domain = "fourier" /\ \A b \in Batch, r \in Row : RowDone(b, r)
    BY <2>1 DEF ContentInv, SynthesisInv
  <2>3. BrF.row = Synthesised(spec, llim)
    BY <1>1, <2>2, RowsAreResult
  <2>4. V'.domain = "grid" /\ V'.row = Synthesised(spec, llim)
    BY <2>1, <2>2, <2>3 DEF Fourier
  <2> QED BY <2>1, <2>4 DEF specBar, spatBar
<1> QED BY <1>2, <1>3, <1>4 DEF Master

(* However many threads there are, and in whatever order they take orders,   *)
(* rows and fields, threaded and sequential calls do what the abstract       *)
(* transform does in one step, if their Fourier transforms are planned.      *)
THEOREM RefinesTransform == AlwaysPlanned => (FlySpec => Implements)
<1> SUFFICES ASSUME AlwaysPlanned PROVE FlySpec => Implements
  OBVIOUS
<1>1. Init => Atomic!Init
  BY SameFields DEF Init, Atomic!Init, specBar, spatBar
<1>2. ContentInv /\ ContentInv' /\ [FlyNext]_vars => [Atomic!Next]_<<specBar, spatBar>>
  <2> SUFFICES ASSUME ContentInv, ContentInv', [FlyNext]_vars
               PROVE  [Atomic!Next]_<<specBar, spatBar>>
    OBVIOUS
  <2>1. CASE UNCHANGED vars
    BY <2>1 DEF vars, specBar, spatBar, BrF, OutOfPlace
  <2>2. CASE Fill
    <3>1. Atomic!Fill
      BY <2>2, SameFields DEF Fill, Atomic!Fill, specBar, spatBar
    <3> QED BY <3>1 DEF Atomic!Next
  <2>3. CASE \E e \in Llim : SH_to_spat_omp_a(e) \/ SH_to_spat_fly(e)
    <3>1. PICK e \in Llim : SH_to_spat_omp_a(e) \/ SH_to_spat_fly(e)
      BY <2>3
    <3>2. Atomic!SH_to_spat(e)
      BY <3>1, SynthesisStep, SameFields DEF Atomic!SH_to_spat
    <3> QED BY <3>2 DEF Atomic!Next
  <2>4. CASE \E e \in Llim : spat_to_SH_omp_a(e) \/ spat_to_SH_fly(e)
    <3>1. PICK e \in Llim : spat_to_SH_omp_a(e) \/ spat_to_SH_fly(e)
      BY <2>4
    <3>2. Atomic!spat_to_SH(e)
      BY <3>1, AnalysisStep, SameFields DEF Atomic!spat_to_SH
    <3> QED BY <3>2 DEF Atomic!Next
  <2>5. CASE Sequential \/ \E t \in Thread : Step(t)
    BY <2>5, HiddenStep
  <2>6. CASE Master
    BY <2>6, HiddenMaster
  <2> QED BY <2>1, <2>2, <2>3, <2>4, <2>5, <2>6 DEF FlyNext, Next
<1> QED BY <1>1, <1>2, ContentInvariant, PTL DEF FlySpec, Implements, Atomic!Spec
=============================================================================
