------------------------------ MODULE Rotation ------------------------------
(* Rotations of spherical-harmonic expansions: an object that keeps three    *)
(* angles, their phases and the Legendre functions of the second one, and    *)
(* turns the coefficients of real and complex fields with a team of threads, *)
(* one degree each. Angles are in quarter turns. Numbers are left out: a     *)
(* coefficient is the set of those it was computed from, <<l, m, a, b, c>>   *)
(* where a quarter turns were made before the tilt b, and c after it.        *)
(* Wigner functions are taken to tilt by the angle of their Legendre         *)
(* functions, in the sense in which the phases turn.                         *)
EXTENDS LmIndex

CONSTANTS
  Size,    \* the truncations of rotations
  Angle,   \* the turns about z, and about an axis
  Tilt,    \* the second of three angles
  Thread

ASSUME RotationAssumption ==
  /\ Thread # {}
  /\ Size \subseteq [lmax : Nat \ {0}, mmax : Nat]
  /\ \A s \in Size : s.mmax <= s.lmax
  /\ Angle \subseteq -3 .. 3 /\ Tilt \subseteq -2 .. 2

VARIABLES
  r,      \* the rotation
  asked,  \* the rotation of space its angles were asked for
  call,   \* the call that runs or ran last on it
  Qlm,    \* the expansion given to the call
  Rlm,    \* the array it stores into, the same one if it works in place
  next,   \* the next degree to hand out
  th      \* th[t]: what thread t does, for which degree, and what it gathered

vars == <<r, asked, call, Qlm, Rlm, next, th>>
-----------------------------------------------------------------------------
(* Rotations of space: the images of the three axes. *)
Unit == [x |-> <<1, 0, 0>>, y |-> <<0, 1, 0>>, z |-> <<0, 0, 1>>]
Quarter ==
  [x |-> [x |-> <<1, 0, 0>>, y |-> <<0, 0, 1>>, z |-> <<0, -1, 0>>],
   y |-> [x |-> <<0, 0, -1>>, y |-> <<0, 1, 0>>, z |-> <<1, 0, 0>>],
   z |-> [x |-> <<0, 1, 0>>, y |-> <<-1, 0, 0>>, z |-> <<0, 0, 1>>]]
Image(A, v) == [i \in 1 .. 3 |-> v[1] * A.x[i] + v[2] * A.y[i] + v[3] * A.z[i]]
After(A, B) == [x |-> Image(A, B.x), y |-> Image(A, B.y), z |-> Image(A, B.z)]
Turns ==
  [axis \in {"x", "y", "z"} |->
     LET power[k \in 0 .. 3] == IF k = 0 THEN Unit ELSE After(Quarter[axis], power[k - 1])
     IN  power]
Turn(axis, n) == Turns[axis][n % 4]

(* The first angle turns first. *)
Euler(axis, alpha, beta, gamma) ==
  After(Turn("z", gamma), After(Turn(axis, beta), Turn("z", alpha)))

(* Coefficients without the Condon-Shortley phase are those of the field     *)
(* turned by half a turn.                                                    *)
Phased(rot) == IF r.no_cs_phase = 1 THEN rot ELSE After(Turn("z", 2), After(rot, Turn("z", 2)))
-----------------------------------------------------------------------------
Zero == -1        \* the complex number 0, where a phase is i^0 to i^3
NotComputed == 9  \* memory of Legendre functions nobody wrote

NoRotation ==
  [live |-> FALSE, lmax |-> 0, mmax |-> 0, no_cs_phase |-> 1,
   alpha |-> 0, beta |-> 0, gamma |-> 0, eia |-> Zero, eig |-> Zero,
   flag_alpha_gamma |-> 0, plm_beta |-> NotComputed]
Idle == [kind |-> "none", stage |-> "idle", inplace |-> FALSE]
AtRest == [at |-> "rest", l |-> 0, ql |-> <<>>]
NoArray == <<>>

shtns_rotation_create(size, phase) ==
  /\ ~ r.live
  /\ r' = [NoRotation EXCEPT !.live = TRUE, !.lmax = size.lmax, !.mmax = size.mmax,
                             !.no_cs_phase = phase]
  /\ asked' = Unit
  /\ UNCHANGED <<call, Qlm, Rlm, next, th>>

shtns_rotation_destroy ==
  /\ r.live /\ call.stage # "region"
  /\ r' = NoRotation /\ asked' = Unit
  /\ call' = Idle /\ Qlm' = NoArray /\ Rlm' = NoArray
  /\ UNCHANGED <<next, th>>

HalfTurned(a) == IF a > 0 THEN a - 2 ELSE a + 2

(* Mutant: a negative tilt turns before it, and not after. *)
NormalOneSided(alpha, beta, gamma) ==
  IF beta < 0 THEN [alpha |-> HalfTurned(alpha), beta |-> -beta, gamma |-> gamma]
  ELSE IF beta = 0 THEN [alpha |-> alpha + gamma, beta |-> 0, gamma |-> 0]
  ELSE [alpha |-> alpha, beta |-> beta, gamma |-> gamma]

(* The angles that are kept: the second is not negative, the third is 0 if   *)
(* the second is.                                                            *)
Normal(alpha, beta, gamma) ==
  IF beta < 0
  THEN [alpha |-> HalfTurned(alpha), beta |-> -beta, gamma |-> HalfTurned(gamma)]
  ELSE IF beta = 0 THEN [alpha |-> alpha + gamma, beta |-> 0, gamma |-> 0]
  ELSE [alpha |-> alpha, beta |-> beta, gamma |-> gamma]

SetAngles(alpha, beta, gamma) ==
  LET n == Normal(alpha, beta * r.no_cs_phase, gamma)
  IN  /\ r.live /\ call.stage # "region"
      /\ r' = [r EXCEPT !.alpha = n.alpha, !.beta = n.beta, !.gamma = n.gamma,
                        !.eia = (-n.alpha) % 4, !.eig = (-n.gamma) % 4,
                        !.flag_alpha_gamma = (IF n.alpha # 0 THEN 1 ELSE 0)
                                               + (IF n.gamma # 0 THEN 2 ELSE 0),
                        !.plm_beta = IF n.beta # 0 THEN n.beta ELSE @]
      /\ call' = Idle /\ Qlm' = NoArray /\ Rlm' = NoArray
      /\ UNCHANGED <<next, th>>

shtns_rotation_set_angles_ZYZ(alpha, beta, gamma) ==
  SetAngles(alpha, beta, gamma) /\ asked' = Euler("y", alpha, beta, gamma)

shtns_rotation_set_angles_ZXZ(alpha, beta, gamma) ==
  SetAngles(alpha + 1, beta, gamma - 1) /\ asked' = Euler("x", alpha, beta, gamma)

(* For the axes of space; along is the sign of the axis. The code goes by a  *)
(* quaternion, whose product of sine and cosine changes sign at a half turn. *)
shtns_rotation_set_angle_axis(theta, axis, along) ==
  LET size == IF theta < 0 THEN -theta ELSE theta
      beta == IF size <= 2 THEN size ELSE 4 - size
      sign == IF theta = 0 THEN 0 ELSE IF (theta > 0) = (size <= 2) THEN along ELSE -along
  IN  /\ asked' = Turn(axis, along * theta)
      /\ \/ axis = "z" /\ SetAngles(along * theta, 0, 0)
         \/ axis = "x" /\ SetAngles(sign, beta, -sign)
         \/ axis = "y" /\ (IF sign < 0 THEN SetAngles(2, beta, 2) ELSE SetAngles(0, beta, 0))
-----------------------------------------------------------------------------
Coef(l, m) == {<<l, m, 0, 0, 0>>}
Junk == {<<-1, 0, 0, 0, 0>>}    \* behind the expansion
Theirs == {<<-2, 0, 0, 0, 0>>}  \* in and behind an array nobody wrote
Times(v, phase, m) ==
  IF phase = Zero THEN {} ELSE {<<c[1], c[2], (c[3] + phase * m) % 4, c[4], c[5]>> : c \in v}

mlim(l) == IF l <= r.mmax THEN l ELSE r.mmax
(* Mutant: the orders of both signs before a degree are counted one short.   *)
CentreShort(l) == IF l <= r.mmax THEN l * l ELSE r.mmax * (2 * l - r.mmax) + l
Centre(l) == IF l <= r.mmax THEN l * (l + 1) ELSE r.mmax * (2 * l - r.mmax) + l

(* Mutant: the row of an order is as long as the truncation says. *)
NextPositionShort(lm, m) == lm + r.lmax - m
(* The running position of a degree, from one order to the next. *)
NextPosition(lm, m) == lm + (r.lmax + 1) - m

Position(l, m) ==
  LET lm[k \in 0 .. mlim(l)] == IF k = 0 THEN l ELSE NextPosition(lm[k - 1], k)
  IN  IF call.kind = "real" THEN lm[m] ELSE Centre(l) + m
Orders(l) == (IF call.kind = "real" THEN 0 ELSE -mlim(l)) .. mlim(l)

(* Where the caller has coefficient (l, m), and how far a rotation reaches. *)
Macro(kind, l, m) ==
  IF kind = "real" THEN LM(r.lmax, 1, l, m) ELSE LM_cplx(r.mmax, l, m)
Reach(kind) ==
  0 .. (IF kind = "real" THEN nlm_calc(r.lmax + 1, r.lmax + 1, 1)
                         ELSE nlm_cplx_calc(r.lmax, r.lmax, 1)) - 1
DegreeOrder(kind) ==
  {d \in (0 .. r.lmax) \X (-r.mmax .. r.mmax) :
     d[2] <= d[1] /\ -d[2] <= d[1] /\ (kind = "real" => d[2] >= 0)}
Stored(kind, value, past) ==
  [k \in Reach(kind) |->
     LET at == {d \in DegreeOrder(kind) : Macro(kind, d[1], d[2]) = k}
     IN  IF at = {} THEN past ELSE UNION {value[d] : d \in at}]
Given(kind) == Stored(kind, [d \in DegreeOrder(kind) |-> Coef(d[1], d[2])], Junk)

Source == IF call.inplace THEN Rlm ELSE Qlm

(* About z, a real field: SH_Zrotate with the configuration of the rotation, *)
(* which has one degree and one order more than the rotation.                *)
SH_Zrotate(from) ==
  LET L == r.lmax + 1
      order(k) == CHOOSE im \in 0 .. L : LiM(L, 1, im, im) <= k /\ k <= LiM(L, 1, L, im)
  IN  [k \in Reach("real") |-> Times(from[k], (-r.alpha) % 4, order(k))]

(* About z, a complex field: every degree with all its orders. *)
CplxZrotate(from, to, inplace) ==
  LET done[l \in -1 .. r.lmax] ==
        IF l = -1 THEN to
        ELSE [k \in DOMAIN to |->
                LET m == k - Centre(l)
                    v == IF inplace THEN done[l - 1][k] ELSE from[k]
                IN  IF m < -l \/ m > l THEN done[l - 1][k]
                    ELSE IF m = 0 THEN v ELSE Times(v, r.eia, m)]
  IN  done[r.lmax]

Apply(kind, inplace) ==
  LET given == Given(kind)
      to == IF inplace THEN given ELSE [k \in Reach(kind) |-> Theirs]
  IN  /\ r.live /\ call.stage # "region"
      /\ call' = [kind |-> kind, stage |-> IF r.beta = 0 THEN "done" ELSE "region",
                  inplace |-> inplace]
      /\ Qlm' = given
      /\ Rlm' = IF r.beta # 0 THEN [to EXCEPT ![0] = given[0]]
                ELSE IF kind = "real" THEN SH_Zrotate(given)
                ELSE CplxZrotate(given, to, inplace)
      /\ next' = IF r.beta = 0 THEN 0 ELSE r.lmax
      /\ th' = [t \in Thread |-> [AtRest EXCEPT !.at = IF r.beta = 0 THEN "rest" ELSE "loop"]]
      /\ UNCHANGED <<r, asked>>

shtns_rotation_apply_real(inplace) == Apply("real", inplace)
shtns_rotation_apply_cplx(inplace) == Apply("cplx", inplace)
-----------------------------------------------------------------------------
(* Degrees are handed out one by one, from the last. *)
Take(t) ==
  /\ call.stage = "region" /\ th[t].at = "loop"
  /\ IF next > 0
     THEN /\ th' = [th EXCEPT ![t] = [AtRest EXCEPT !.at = "gather", !.l = next]]
          /\ next' = next - 1
     ELSE /\ th' = [th EXCEPT ![t] = AtRest]
          /\ UNCHANGED next
  /\ UNCHANGED <<r, asked, call, Qlm, Rlm>>

PreRotates == r.flag_alpha_gamma \in {1, 3}
PostRotates == r.flag_alpha_gamma \in {2, 3}

(* A complex expansion that is turned has its order 0 taken from where it is *)
(* in a whole one.                                                           *)
ReadAt(l, m) ==
  IF call.kind = "cplx" /\ PreRotates /\ m = 0 THEN l * (l + 1) ELSE Position(l, m)

(* The copy of a complex degree that must be padded, and is not turned, lies *)
(* where the lines of the Wigner matrix are written next.                    *)
Overlaps(l) == call.kind = "cplx" /\ ~ PreRotates /\ r.mmax < l

Gather(t) ==
  LET l == th[t].l
  IN  /\ th[t].at = "gather"
      /\ th' = [th EXCEPT ![t] =
           [at |-> "scatter", l |-> l,
            ql |-> [m \in Orders(l) |->
                      IF Overlaps(l) THEN Junk
                      ELSE IF PreRotates THEN Times(Source[ReadAt(l, m)], r.eia, m)
                      ELSE Source[ReadAt(l, m)]]]]
      /\ UNCHANGED <<r, asked, call, Qlm, Rlm, next>>

Tilted(ql, m) ==
  {<<c[1], c[2], c[3], r.plm_beta, IF PostRotates THEN (r.eig * m) % 4 ELSE 0>> :
     c \in UNION {ql[mp] : mp \in DOMAIN ql}}

Scatter(t) ==
  LET l == th[t].l
      rl == {[at |-> Position(l, m), value |-> Tilted(th[t].ql, m)] : m \in Orders(l)}
  IN  /\ th[t].at = "scatter"
      /\ Rlm' = [k \in DOMAIN Rlm |->
                   IF \E x \in rl : x.at = k THEN (CHOOSE x \in rl : x.at = k).value
                                           ELSE Rlm[k]]
      /\ th' = [th EXCEPT ![t] = [AtRest EXCEPT !.at = "loop"]]
      /\ UNCHANGED <<r, asked, call, Qlm, next>>

EndRegion ==
  /\ call.stage = "region"
  /\ \A t \in Thread : th[t].at = "rest"
  /\ call' = [call EXCEPT !.stage = "done"]
  /\ UNCHANGED <<r, asked, Qlm, Rlm, next, th>>
-----------------------------------------------------------------------------
Init ==
  /\ r = NoRotation /\ asked = Unit
  /\ call = Idle /\ Qlm = NoArray /\ Rlm = NoArray
  /\ next = 0 /\ th = [t \in Thread |-> AtRest]

Next ==
  \/ \E size \in Size, phase \in {-1, 1} : shtns_rotation_create(size, phase)
  \/ shtns_rotation_destroy
  \/ \E alpha, gamma \in Angle, beta \in Tilt :
       \/ shtns_rotation_set_angles_ZYZ(alpha, beta, gamma)
       \/ shtns_rotation_set_angles_ZXZ(alpha, beta, gamma)
  \/ \E theta \in Angle, axis \in {"x", "y", "z"}, along \in {-1, 1} :
       shtns_rotation_set_angle_axis(theta, axis, along)
  \/ \E inplace \in BOOLEAN :
       \/ shtns_rotation_apply_real(inplace)
       \/ shtns_rotation_apply_cplx(inplace)
  \/ \E t \in Thread : Take(t) \/ Gather(t) \/ Scatter(t)
  \/ EndRegion

Spec == Init /\ [][Next]_vars
-----------------------------------------------------------------------------
(* The angles that are kept make the rotation that was asked for, by any     *)
(* convention: a tilt is made positive, a rotation about z made of one       *)
(* angle, and an expansion without the Condon-Shortley phase turned, without *)
(* a change of the rotation of space they stand for.                         *)
AnglesRight ==
  r.live => Euler("y", r.alpha, r.beta, r.gamma) = Phased(asked)

(* The coefficient the rotation by the angles of r makes. *)
Wanted(l, m) ==
  IF r.beta = 0 \/ l = 0 THEN {<<l, m, (-r.alpha * m) % 4, 0, 0>>}
  ELSE {<<l, mp, (-r.alpha * mp) % 4, r.beta, (-r.gamma * m) % 4>> : mp \in Orders(l)}

(* "apply rotation to the orthonormal spherical harmonic expansion Qlm of a  *)
(* real field, store the result into Rlm (can be the same as Qlm)": every    *)
(* coefficient of the result is that of the rotated field.                   *)
RealRotated ==
  call.stage = "done" /\ call.kind = "real" =>
    \A d \in DegreeOrder("real") : Rlm[LM(r.lmax, 1, d[1], d[2])] = Wanted(d[1], d[2])

(* All of what a call stores. *)
Past == IF call.inplace THEN Junk ELSE Theirs
Result == Stored(call.kind, [d \in DegreeOrder(call.kind) |-> Wanted(d[1], d[2])], Past)

(* The calls that keep this promise: of a real field, about an axis other    *)
(* than z; of a complex field with all orders, once angles were set.         *)
Sound ==
  IF call.kind = "real" THEN r.beta # 0 ELSE r.mmax = r.lmax /\ r.eia # Zero

(* Sound calls rotate right, whichever threads take which degrees, in place  *)
(* or not, whatever angles the object had before: every coefficient is that  *)
(* of its degree and order of the rotated field, and nothing else is written.*)
Rotated == call.stage = "done" /\ Sound => Rlm = Result

(* The memory of the caller that a thread reads or writes next. *)
Writes(t) == IF th[t].at = "scatter" THEN {Position(th[t].l, m) : m \in Orders(th[t].l)} ELSE {}
Reads(t) ==
  IF th[t].at = "gather" /\ call.inplace
  THEN {ReadAt(th[t].l, m) : m \in Orders(th[t].l)} ELSE {}

(* Threads that work in place on degrees of their own never meet, whatever   *)
(* the walk from order to order: no degree is handed out twice, and no two   *)
(* degrees have a coefficient in one place.                                  *)
NoRace ==
  Sound => \A t, u \in Thread : t # u => Writes(t) \cap (Writes(u) \cup Reads(u)) = {}

(* The angles that are kept, and what is computed from them once they are.   *)
Kept ==
  /\ r \in [live : BOOLEAN, lmax : Nat, mmax : Nat, no_cs_phase : {-1, 1},
            alpha : Int, beta : Nat, gamma : Int, eia : {Zero} \cup 0 .. 3,
            eig : {Zero} \cup 0 .. 3, flag_alpha_gamma : 0 .. 3, plm_beta : Int]
  /\ r.mmax <= r.lmax
  /\ r.flag_alpha_gamma = (IF r.alpha # 0 THEN 1 ELSE 0) + (IF r.gamma # 0 THEN 2 ELSE 0)
  /\ r.beta # 0 => r.plm_beta = r.beta /\ r.eia # Zero
  /\ r.eia # Zero => r.eia = (-r.alpha) % 4 /\ r.eig = (-r.gamma) % 4

(* Only a call on a rotation that tilts makes threads work. *)
Calls ==
  /\ call \in [kind : {"none", "real", "cplx"}, stage : {"idle", "region", "done"},
               inplace : BOOLEAN]
  /\ call.stage # "idle" => call.kind # "none" /\ r.live
  /\ call.stage = "region" => r.beta # 0 /\ next \in 0 .. r.lmax
  /\ call.stage # "region" => \A t \in Thread : th[t].at = "rest"

(* Each degree is handed out once, and no thread rests before all are.       *)
Busy(t) == th[t].at \in {"gather", "scatter"}
HandedOut ==
  /\ th = [t \in Thread |-> th[t]]
  /\ \A t \in Thread :
       /\ th[t].at \in {"rest", "loop", "gather", "scatter"}
       /\ Busy(t) => th[t].l \in next + 1 .. r.lmax
       /\ th[t].at = "rest" /\ call.stage = "region" => next = 0
  /\ \A t, u \in Thread : Busy(t) /\ Busy(u) /\ t # u => th[t].l # th[u].l

(* What a sound call has stored of degree l: the rotated coefficients once a *)
(* thread is through with it, and what was there before.                     *)
Expected(l, m) ==
  IF \/ l = 0 \/ call.stage = "done"
     \/ l > next /\ \A t \in Thread : Busy(t) => th[t].l # l
  THEN Wanted(l, m)
  ELSE IF call.inplace THEN Coef(l, m) ELSE Theirs

PreTurned(l, m) == {<<l, m, (-r.alpha * m) % 4, 0, 0>>}

Working ==
  call.stage # "idle" /\ Sound =>
    /\ Rlm = [k \in Reach(call.kind) |-> Rlm[k]]
    /\ \A d \in DegreeOrder(call.kind) :
         LET k == Macro(call.kind, d[1], d[2])
         IN  Qlm[k] = Coef(d[1], d[2]) /\ Rlm[k] = Expected(d[1], d[2])
    /\ \A k \in Reach(call.kind) :
         (\A d \in DegreeOrder(call.kind) : Macro(call.kind, d[1], d[2]) # k) => Rlm[k] = Past
    /\ \A t \in Thread, l \in 0 .. r.lmax :
         th[t].at = "scatter" /\ th[t].l = l => th[t].ql = [m \in Orders(l) |-> PreTurned(l, m)]

(* Inductive. *)
RotInv == Kept /\ Calls /\ HandedOut /\ Working
=============================================================================
