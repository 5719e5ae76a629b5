------------------------- MODULE ConfigShare_proofs -------------------------
(* Proofs about ConfigShare, Fortran, LatCache and Local, for any number of  *)
(* configurations and blocks, any truncations and any choice the allocator   *)
(* makes: the list of configurations and what they share, then configuration *)
(* tags, then the caches of latitudes, which come last as each uses the list.*)
EXTENDS Local, FiniteSetTheorems, SequenceTheorems, TLAPS

-----------------------------------------------------------------------------
(* Helpers: finite maxima, the reference count, the list, the allocator.     *)

(* A bounded set of positions has a last one. *)
LEMMA LastIn ==
  ASSUME NEW n \in Nat, NEW D, D \subseteq 1 .. n, D # {}
  PROVE  Last(D) \in D
<1> DEFINE T == {n - i : i \in D}
<1>1. T \subseteq Nat /\ T # {}
  <2>1. \A i \in D : i \in 1 .. n /\ n - i \in Nat
    OBVIOUS
  <2>2. \A y \in T : y \in Nat
    BY <2>1
  <2>3. PICK i : i \in D
    OBVIOUS
  <2> QED BY <2>2, <2>3
<1>2. PICK x \in T : \A y \in T : ~ (<<y, x>> \in OpToRel(<, Nat))
  BY <1>1, NatLessThanWellFounded, WFMin
<1>3. \A y \in T : ~ (y < x)
  BY <1>1, <1>2 DEF OpToRel
<1>4. PICK i \in D : x = n - i
  OBVIOUS
<1>5. \A j \in D : j <= i
  <2>1. TAKE j \in D
  <2>2. n - j \in T
    OBVIOUS
  <2> QED BY <1>3, <1>4, <2>2
<1> QED BY <1>5 DEF Last

(* When the scan finds one reference, it is that of the configuration. *)
LEMMA RefCountOne ==
  ASSUME sht_data \in Seq(Config), NEW c \in Live, NEW f \in Field, ref_count(c, f) = 1
  PROVE  /\ info[c].ptr[f] # NULL
         /\ \A d \in Live : info[d].ptr[f] = info[c].ptr[f] => d = c
<1> DEFINE S == {i \in DOMAIN sht_data : info[sht_data[i]].ptr[f] = info[c].ptr[f]}
<1>1. info[c].ptr[f] # NULL
  BY DEF ref_count
<1>2. Cardinality(S) = 1
  BY <1>1 DEF ref_count
<1>3. DOMAIN sht_data = 1 .. Len(sht_data) /\ Len(sht_data) \in Nat
  OBVIOUS
<1>4. IsFiniteSet(S)
  <2>1. IsFiniteSet(1 .. Len(sht_data))
    BY <1>3, FS_Interval
  <2> QED BY <2>1, <1>3, FS_Subset
<1>5. PICK x : S = {x}
  BY <1>2, <1>4, FS_Singleton
<1>6. \A d \in Live : info[d].ptr[f] = info[c].ptr[f] => d = sht_data[x]
  <2> SUFFICES ASSUME NEW d \in Live, info[d].ptr[f] = info[c].ptr[f]
               PROVE  d = sht_data[x]
    OBVIOUS
  <2>1. PICK i \in DOMAIN sht_data : sht_data[i] = d
    BY DEF Live, Range
  <2>2. i \in S
    BY <2>1
  <2> QED BY <2>1, <2>2, <1>5
<1> QED BY <1>1, <1>6

(* Putting a configuration at the head of a list. *)
LEMMA Push ==
  ASSUME NEW s \in Seq(Config), NEW c \in Config
  PROVE  /\ <<c>> \o s \in Seq(Config)
         /\ Range(<<c>> \o s) = Range(s) \cup {c}
         /\ c \notin Range(s) /\ (\A i, j \in DOMAIN s : s[i] = s[j] => i = j)
              => \A i, j \in DOMAIN (<<c>> \o s) :
                   (<<c>> \o s)[i] = (<<c>> \o s)[j] => i = j
<1> DEFINE t == <<c>> \o s
<1>1. t \in Seq(Config) /\ Len(t) = 1 + Len(s) /\ Len(s) \in Nat
  BY ConcatProperties
<1>2. \A i \in 1 .. Len(t) : t[i] = IF i = 1 THEN c ELSE s[i - 1]
  BY ConcatProperties, <1>1
<1>3. DOMAIN t = 1 .. Len(t) /\ DOMAIN s = 1 .. Len(s)
  BY <1>1
<1> HIDE DEF t
<1>4. Range(t) = Range(s) \cup {c}
  <2>1. \A d \in Range(t) : d \in Range(s) \cup {c}
    BY <1>1, <1>2, <1>3 DEF Range
  <2>2. c \in Range(t)
    BY <1>1, <1>2, <1>3 DEF Range
  <2>3. \A d \in Range(s) : d \in Range(t)
    <3>1. TAKE d \in Range(s)
    <3>2. PICK i \in 1 .. Len(s) : s[i] = d
      BY <1>3 DEF Range
    <3>3. i + 1 \in 1 .. Len(t) /\ t[i + 1] = d
      BY <3>2, <1>1, <1>2
    <3> QED BY <3>3, <1>3 DEF Range
  <2> QED BY <2>1, <2>2, <2>3
<1>5. ASSUME c \notin Range(s), \A i, j \in DOMAIN s : s[i] = s[j] => i = j,
             NEW i \in DOMAIN t, NEW j \in DOMAIN t, t[i] = t[j]
      PROVE  i = j
  <2>1. \A k \in 1 .. Len(s) : s[k] \in Range(s)
    BY <1>3 DEF Range
  <2>2. \A k \in 2 .. Len(t) : t[k] = s[k - 1] /\ k - 1 \in 1 .. Len(s)
    BY <1>1, <1>2
  <2>3. t[1] = c /\ 1 \in 1 .. Len(t) /\ \A k \in 1 .. Len(t) : k = 1 \/ k \in 2 .. Len(t)
    BY <1>1, <1>2
  <2>4. CASE i = 1 \/ j = 1
    BY <1>3, <1>5, <2>1, <2>2, <2>3, <2>4
  <2>5. CASE i \in 2 .. Len(t) /\ j \in 2 .. Len(t)
    <3>1. s[i - 1] = s[j - 1]
      BY <2>2, <2>5, <1>5
    <3>2. i - 1 = j - 1
      BY <3>1, <2>2, <2>5, <1>3, <1>5
    <3> QED BY <3>2, <2>5, <1>1
  <2> QED BY <2>3, <2>4, <2>5, <1>3, <1>5
<1> QED BY <1>1, <1>4, <1>5 DEF t

(* Putting a configuration at the head of the list of configurations. *)
LEMMA PushHead ==
  ASSUME sht_data \in Seq(Config), NEW c \in Config
  PROVE  /\ <<c>> \o sht_data \in Seq(Config)
         /\ Range(<<c>> \o sht_data) = Live \cup {c}
         /\ c \notin Live /\ (\A i, j \in DOMAIN sht_data : sht_data[i] = sht_data[j] => i = j)
              => \A i, j \in DOMAIN (<<c>> \o sht_data) :
                   (<<c>> \o sht_data)[i] = (<<c>> \o sht_data)[j] => i = j
<1> QED BY Push DEF Live

(* Unlinking a configuration of a list without repetition. *)
LEMMA UnlinkOne ==
  ASSUME sht_data \in Seq(Config), NEW c \in Live,
         \A i, j \in DOMAIN sht_data : sht_data[i] = sht_data[j] => i = j
  PROVE  /\ Unlink(c) \in Seq(Config)
         /\ Range(Unlink(c)) = Live \ {c}
         /\ \A i, j \in DOMAIN Unlink(c) : Unlink(c)[i] = Unlink(c)[j] => i = j
<1> DEFINE n == Len(sht_data)
           p == CHOOSE i \in DOMAIN sht_data : sht_data[i] = c
           u == SubSeq(sht_data, 1, p - 1)
           v == SubSeq(sht_data, p + 1, n)
           t == u \o v
<1>1. /\ n \in Nat /\ DOMAIN sht_data = 1 .. n
      /\ \A i \in 1 .. n : sht_data[i] \in Config
  OBVIOUS
<1>2. p \in 1 .. n /\ sht_data[p] = c
  BY <1>1 DEF Live, Range
<1>3. t = Unlink(c)
  BY DEF Unlink
<1> HIDE DEF n, p
<1>4. /\ u \in Seq(Config) /\ Len(u) = p - 1
      /\ \A i \in 1 .. p - 1 : u[i] = sht_data[i]
  <2>1. 1 \in Int /\ p - 1 \in Int /\ \A i \in 1 .. p - 1 : sht_data[i] \in Config
    BY <1>1, <1>2
  <2>2. Len(u) = IF 1 <= p - 1 THEN p - 1 - 1 + 1 ELSE 0
    BY <2>1, SubSeqProperties
  <2>3. u \in Seq(Config) /\ \A i \in 1 .. p - 1 - 1 + 1 : u[i] = sht_data[1 + i - 1]
    BY <2>1, SubSeqProperties
  <2> HIDE DEF u
  <2> QED BY <2>2, <2>3, <1>1, <1>2
<1>5. /\ v \in Seq(Config) /\ Len(v) = n - p
      /\ \A i \in 1 .. n - p : v[i] = sht_data[p + i]
  <2>1. p + 1 \in Int /\ n \in Int /\ \A i \in p + 1 .. n : sht_data[i] \in Config
    BY <1>1, <1>2
  <2>2. Len(v) = IF p + 1 <= n THEN n - (p + 1) + 1 ELSE 0
    BY <2>1, SubSeqProperties
  <2>3. v \in Seq(Config) /\ \A i \in 1 .. n - (p + 1) + 1 : v[i] = sht_data[p + 1 + i - 1]
    BY <2>1, SubSeqProperties
  <2> HIDE DEF v
  <2> QED BY <2>2, <2>3, <1>1, <1>2
<1> HIDE DEF u, v
<1>6. /\ t \in Seq(Config) /\ Len(t) = n - 1
      /\ \A i \in 1 .. n - 1 : t[i] = IF i < p THEN sht_data[i] ELSE sht_data[i + 1]
  <2>a. /\ t \in Seq(Config) /\ Len(t) = Len(u) + Len(v)
        /\ \A i \in 1 .. Len(u) + Len(v) :
             t[i] = IF i <= Len(u) THEN u[i] ELSE v[i - Len(u)]
    <3>1. u \in Seq(Config) /\ v \in Seq(Config)
      BY <1>4, <1>5
    <3> QED BY ONLY <3>1, ConcatProperties
  <2> HIDE DEF t
  <2>b. (p - 1) + (n - p) = n - 1
    BY <1>1, <1>2
  <2>1. /\ t \in Seq(Config) /\ Len(t) = n - 1
        /\ \A i \in 1 .. n - 1 :
             t[i] = IF i <= p - 1 THEN u[i] ELSE v[i - (p - 1)]
    BY <2>a, <2>b, <1>4, <1>5
  <2>2. \A i \in 1 .. n - 1 : i >= p => v[i - (p - 1)] = sht_data[i + 1]
    <3>1. TAKE i \in 1 .. n - 1
    <3>2. HAVE i >= p
    <3>3. i - (p - 1) \in 1 .. n - p /\ p + (i - (p - 1)) = i + 1
      BY <3>2, <1>1, <1>2
    <3> QED BY <3>3, <1>5
  <2>3. \A i \in 1 .. n - 1 : i < p => u[i] = sht_data[i]
    BY <1>4, <1>1, <1>2
  <2>4. \A i \in 1 .. n - 1 : t[i] = IF i < p THEN sht_data[i] ELSE sht_data[i + 1]
    <3>1. TAKE i \in 1 .. n - 1
    <3>2. (i <= p - 1 <=> i < p) /\ (i < p \/ i >= p)
      BY <1>1, <1>2
    <3>3. t[i] = IF i <= p - 1 THEN u[i] ELSE v[i - (p - 1)]
      BY <2>1
    <3> QED BY <3>2, <3>3, <2>2, <2>3, Zenon
  <2> QED BY <2>1, <2>4
<1>7. DOMAIN t = 1 .. n - 1
  BY <1>6
<1> HIDE DEF t
<1>8. \A d \in Range(t) : d \in Live \ {c}
  <2>1. TAKE d \in Range(t)
  <2>2. PICK i \in 1 .. n - 1 : t[i] = d
    BY <1>7 DEF Range
  <2>3. PICK j \in 1 .. n : d = sht_data[j] /\ j # p
    BY <2>2, <1>6, <1>1, <1>2
  <2> QED BY <2>3, <1>1, <1>2 DEF Live, Range
<1>9. \A d \in Live \ {c} : d \in Range(t)
  <2>1. TAKE d \in Live \ {c}
  <2>2. PICK j \in 1 .. n : sht_data[j] = d /\ j # p
    BY <1>1, <1>2 DEF Live, Range
  <2>3. CASE j < p
    <3>1. j \in 1 .. n - 1 /\ t[j] = d
      BY <2>2, <2>3, <1>1, <1>2, <1>6
    <3> QED BY <3>1, <1>7 DEF Range
  <2>4. CASE j > p
    <3>1. j - 1 \in 1 .. n - 1 /\ t[j - 1] = d
      BY <2>2, <2>4, <1>1, <1>2, <1>6
    <3> QED BY <3>1, <1>7 DEF Range
  <2> QED BY <2>2, <2>3, <2>4, <1>1, <1>2
<1>10. ASSUME NEW i \in 1 .. n - 1, NEW j \in 1 .. n - 1, t[i] = t[j]
       PROVE  i = j
  <2> DEFINE q(k) == IF k < p THEN k ELSE k + 1
  <2>1. \A k \in 1 .. n - 1 : q(k) \in 1 .. n /\ t[k] = sht_data[q(k)]
    BY <1>1, <1>2, <1>6
  <2> HIDE DEF q
  <2>2. q(i) = q(j)
    BY <2>1, <1>1, <1>10
  <2> QED BY <2>2, <1>1, <1>2 DEF q
<1> QED BY <1>3, <1>6, <1>7, <1>8, <1>9, <1>10

(* malloc returns an address of the field that was not in use. *)
LEMMA MallocFresh ==
  ASSUME NEW h, NEW f \in Field, Room(h, f) # {}
  PROVE  /\ Malloc(h, f) \in Pointer
         /\ Malloc(h, f)[1] = f
         /\ h[Malloc(h, f)] = Free
<1> DEFINE k == CHOOSE j \in Room(h, f) : TRUE
<1>1. k \in Room(h, f)
  OBVIOUS
<1>2. k \in Block /\ h[<<f, k>>] = Free
  BY <1>1 DEF Room
<1>3. Malloc(h, f) = <<f, k>>
  BY DEF Malloc
<1> HIDE DEF k
<1> QED BY <1>2, <1>3 DEF Pointer

(* A configuration of the list is a struct. *)
LEMMA LiveInfo ==
  ASSUME TypeOK, ListOK, NEW d \in Live
  PROVE  d \in Config /\ info[d] # NULL /\ info[d] \in Info
<1>1. d \in Config
  <2>1. PICK i \in DOMAIN sht_data : d = sht_data[i]
    BY DEF Live, Range
  <2>2. sht_data \in Seq(Config)
    BY DEF TypeOK
  <2> QED BY <2>1, <2>2
<1> QED BY <1>1 DEF TypeOK, ListOK

-----------------------------------------------------------------------------
(* The invariant holds initially. *)
LEMMA InitInv == Init => ShareInv
<1> SUFFICES ASSUME Init PROVE ShareInv
  OBVIOUS
<1>1. Live = {}
  BY DEF Init, Live, Range
<1>2. TypeOK
  <2>1. sht_data \in Seq(Config)
    BY DEF Init
  <2>2. info \in [Config -> Info \cup {NULL}]
    BY DEF Init
  <2>3. /\ heap \in [Pointer -> Content \cup {Free, Planned}]
        /\ \A b \in Pointer : heap[b] = Planned => b[1] \in Plan
    BY SentinelAssumption DEF Init
  <2> QED BY <2>1, <2>2, <2>3 DEF Init, TypeOK
<1>3. ListOK
  BY <1>1 DEF Init, ListOK
<1> QED BY <1>1, <1>2, <1>3 DEF Init, ShareInv, NoDangling, PlansApart, NoDoubleFree, TablesFit

(* A scan's match is a configuration of the list. *)
LEMMA DonorLive ==
  ASSUME sht_data \in Seq(Config), NEW D, D \subseteq DOMAIN sht_data, D # {}
  PROVE  Last(D) \in D /\ sht_data[Last(D)] \in Live
<1>1. DOMAIN sht_data = 1 .. Len(sht_data) /\ Len(sht_data) \in Nat
  OBVIOUS
<1>2. Last(D) \in D
  BY <1>1, LastIn
<1> QED BY <1>2 DEF Live, Range

(* Creating a configuration preserves the invariant. *)
LEMMA CreateInv ==
  ASSUME ShareInv, NEW c \in Config, NEW s \in Size, NEW n \in Norm, shtns_create(c, s, n)
  PROVE  ShareInv'
<1> DEFINE A == Allocated(s, n)
           B == {Malloc(heap, f) : f \in A}
           k == [lmax |-> s.lmax, mmax |-> s.mmax, mres |-> s.mres, norm |-> n]
           np == NewInfo(s, n).ptr
<1>1. TypeOK /\ ListOK /\ NoDangling /\ PlansApart /\ NoDoubleFree /\ TablesFit
  BY DEF ShareInv
<1>2. /\ ub = "no" /\ ub' = ub /\ resetting' = resetting
      /\ info[c] = NULL /\ info' = [info EXCEPT ![c] = NewInfo(s, n)]
      /\ heap' = AllocAll(heap, B, k)
      /\ sht_data' = <<c>> \o sht_data
      /\ \A f \in A : Room(heap, f) # {}
  BY DEF shtns_create, Idle
<1>3. A \subseteq Field
  BY DEF Allocated, Shared, Field, Memory, Plan, Legendre
<1>4. s.lmax \in Nat /\ s.mmax \in Nat /\ s.mres \in Nat /\ k \in Content
  BY SizeAssumption DEF Content
<1>5. \A f \in A : Malloc(heap, f) \in Pointer /\ Malloc(heap, f)[1] = f
                   /\ heap[Malloc(heap, f)] = Free
  BY <1>2, <1>3, MallocFresh
<1>6. \A b \in Pointer : heap[b] # Free => heap'[b] = heap[b]
  BY <1>2, <1>5 DEF AllocAll
<1>7. \A f \in A : heap'[Malloc(heap, f)] = IF f \in Plan THEN Planned ELSE k
  BY <1>2, <1>5 DEF AllocAll
<1>8. c \notin Live /\ \A d \in Live : d \in Config /\ d # c /\ info'[d] = info[d] /\ info[d] \in Info
  BY <1>1, <1>2, LiveInfo
<1>9. /\ sht_data' \in Seq(Config) /\ Live' = Live \cup {c}
      /\ \A i, j \in DOMAIN sht_data' : sht_data'[i] = sht_data'[j] => i = j
  BY <1>1, <1>2, <1>8, PushHead DEF TypeOK, ListOK, Live
<1>10. \A f \in Field :
         np[f] = IF f \in A THEN Malloc(heap, f)
                 ELSE IF f \in Shared
                      THEN info[sht_data[Last(Donors(f, s, n))]].ptr[f]
                 ELSE NULL
  BY DEF NewInfo
<1>11. ASSUME NEW f \in Shared, f \notin A
       PROVE  \E d \in Live : /\ np[f] = info[d].ptr[f]
                              /\ info[d].lmax >= s.lmax
                              /\ f # "l_2" => /\ info[d].lmax = s.lmax
                                              /\ info[d].mmax >= s.mmax
                                              /\ info[d].mres = s.mres
                              /\ f \in Legendre => info[d].norm = n
  <2> DEFINE D == Donors(f, s, n)
  <2>1. D # {} /\ D \subseteq DOMAIN sht_data
    BY <1>11 DEF Allocated, Donors, LegendreDonors, ArrayDonors, L2Donors
  <2>2. Last(D) \in D /\ sht_data[Last(D)] \in Live
    BY <2>1, <1>1, DonorLive DEF TypeOK
  <2>3. np[f] = info[sht_data[Last(D)]].ptr[f]
    BY <1>10, <1>11 DEF Field, Memory
  <2>4. f \in Legendre \/ f = "li" \/ f = "l_2"
    BY DEF Shared
  <2>5. info[sht_data[Last(D)]] \in Info
    BY <1>8, <2>2
  <2>6. CASE f \in Legendre
    <3>1. Last(D) \in ArrayDonors(s) /\ info[sht_data[Last(D)]].norm = n
      BY <2>2, <2>6 DEF Donors, LegendreDonors
    <3> HIDE DEF D
    <3> QED BY <3>1, <2>2, <2>3, <2>5, <1>4 DEF ArrayDonors, Info
  <2>7. CASE f = "li"
    <3>1. Last(D) \in ArrayDonors(s) /\ f \notin Legendre
      BY <2>2, <2>7 DEF Donors, Legendre
    <3> HIDE DEF D
    <3> QED BY <3>1, <2>2, <2>3, <2>5, <1>4 DEF ArrayDonors, Info
  <2>8. CASE f = "l_2"
    BY <2>2, <2>3, <2>5, <2>8, <1>4 DEF Donors, L2Donors, Legendre, Info
  <2> QED BY <2>4, <2>6, <2>7, <2>8
<1> HIDE DEF A, B, k
<1>12. np \in [Field -> Pointer \cup {NULL}]
  <2>1. np = [f \in Field |-> np[f]]
    BY DEF NewInfo
  <2>2. ASSUME NEW f \in Field PROVE np[f] \in Pointer \cup {NULL}
    <3>1. CASE f \in A
      BY <3>1, <1>5, <1>10
    <3>2. CASE f \in Shared /\ f \notin A
      <4>1. PICK d \in Live : np[f] = info[d].ptr[f]
        BY <3>2, <1>11
      <4> QED BY <4>1, <1>8 DEF Info
    <3>3. CASE f \notin Shared /\ f \notin A
      BY <3>3, <1>10
    <3> QED BY <3>1, <3>2, <3>3
  <2> QED BY <2>1, <2>2
<1>13. NewInfo(s, n) \in Info /\ info'[c] = NewInfo(s, n)
  <2>1. nlm_calc(s.lmax, s.mmax, s.mres) \in Int
    <3>1. \A a \in Int : a \div 2 \in Int
      OBVIOUS
    <3>2. s.mres > 0
      BY SizeAssumption DEF ValidSize
    <3>3. s.lmax \div s.mres \in Int
      BY <1>4, <3>2
    <3> QED BY <3>1, <3>3, <1>4 DEF nlm_calc
  <2>2. /\ NewInfo(s, n) = [lmax |-> s.lmax, mmax |-> s.mmax, mres |-> s.mres, norm |-> n,
                              nlm |-> nlm_calc(s.lmax, s.mmax, s.mres), ptr |-> np]
    BY DEF NewInfo
  <2> HIDE DEF np
  <2> QED BY <2>1, <2>2, <1>1, <1>2, <1>4, <1>12 DEF Info, TypeOK
<1>14. TypeOK'
  <2>1. info' \in [Config -> Info \cup {NULL}]
    BY <1>1, <1>2, <1>13 DEF TypeOK
  <2>2. /\ heap' \in [Pointer -> Content \cup {Free, Planned}]
        /\ \A b \in Pointer : heap'[b] = Planned => b[1] \in Plan
    BY <1>1, <1>2, <1>4, SentinelAssumption DEF TypeOK, AllocAll
  <2> QED BY <2>1, <2>2, <1>1, <1>2, <1>9 DEF TypeOK
<1>15. ListOK'
  BY <1>1, <1>2, <1>9, <1>13, SentinelAssumption DEF ListOK, TypeOK
<1> HIDE DEF np
<1>16. NewInfo(s, n).ptr = np /\ NewInfo(s, n).lmax = s.lmax /\ NewInfo(s, n).mmax = s.mmax
       /\ NewInfo(s, n).mres = s.mres /\ NewInfo(s, n).norm = n
  BY DEF np, NewInfo
<1>17. NoDangling'
  <2>1. \A d \in Live, f \in Memory : info[d].ptr[f] # NULL => heap'[info[d].ptr[f]] # Free
    BY <1>1, <1>6, <1>8 DEF NoDangling, Info, Field
  <2>2. ASSUME NEW f \in Memory, np[f] # NULL
        PROVE  heap'[np[f]] # Free /\ np[f][1] = f
    <3>1. CASE f \in A
      <4>1. heap'[np[f]] \in {k, Planned} /\ np[f][1] = f
        BY <3>1, <1>5, <1>7, <1>10, <1>3
      <4> QED BY <4>1, <1>4, SentinelAssumption
    <3>2. CASE f \in Shared /\ f \notin A
      <4>1. PICK d \in Live : np[f] = info[d].ptr[f]
        BY <3>2, <1>11
      <4>2. f # "mx_van"
        BY <3>2 DEF Shared, Legendre
      <4> QED BY <4>1, <4>2, <2>1, <2>2, <1>1 DEF NoDangling
    <3>3. CASE f \notin Shared /\ f \notin A
      BY <2>2, <3>3, <1>10 DEF Field
    <3> QED BY <3>1, <3>2, <3>3
  <2> QED BY <2>1, <2>2, <1>1, <1>8, <1>9, <1>13, <1>16 DEF NoDangling
<1>18. PlansApart'
  <2>1. \A f \in Plan : np[f] # NULL => np[f][1] = f
    BY <1>5, <1>10 DEF Field, Plan, Shared, Legendre
  <2> QED BY <2>1, <1>1, <1>8, <1>9, <1>13, <1>16 DEF PlansApart
<1>19. NoDoubleFree'
  BY <1>1, <1>2 DEF NoDoubleFree
<1>20. TablesFit'
  <2>1. \A d \in Live, f \in Memory :
          info[d].ptr[f] # NULL => heap'[info[d].ptr[f]] = heap[info[d].ptr[f]]
    BY <1>1, <1>6, <1>8 DEF NoDangling, Info, Field
  <2>2. ASSUME NEW f \in Memory, np[f] # NULL
        PROVE  LET q == heap'[np[f]] IN
                 IF f = "l_2" THEN q.lmax >= s.lmax
                 ELSE /\ q.lmax = s.lmax /\ q.mres = s.mres /\ q.mmax >= s.mmax
                      /\ f # "li" => q.norm = n
    <3>1. CASE f \in A
      <4>1. heap'[np[f]] = k
        BY <3>1, <1>7, <1>10, <1>3 DEF Memory, Plan, Shared, Legendre, Grid, Matrix
      <4> QED BY <4>1, <1>4 DEF k
    <3>2. CASE f \in Shared /\ f \notin A
      <4>1. PICK d \in Live : /\ np[f] = info[d].ptr[f]
                              /\ info[d].lmax >= s.lmax
                              /\ f # "l_2" => /\ info[d].lmax = s.lmax
                                              /\ info[d].mmax >= s.mmax
                                              /\ info[d].mres = s.mres
                              /\ f \in Legendre => info[d].norm = n
        BY <3>2, <1>11
      <4>2. heap'[np[f]] = heap[info[d].ptr[f]]
        BY <4>1, <2>1, <2>2
      <4>3. heap[info[d].ptr[f]] \in Content
        <5>1. info[d].ptr[f] \in Pointer
          BY <4>1, <2>2, <1>8 DEF Info, Field
        <5>2. info[d].ptr[f][1] \notin Plan
          BY <3>2, <4>1, <2>2, <1>1
             DEF NoDangling, Plan, Memory, Shared, Legendre
        <5>3. heap[info[d].ptr[f]] # Free
          BY <4>1, <2>2, <1>1 DEF NoDangling
        <5> QED BY <5>1, <5>2, <5>3, <1>1 DEF TypeOK
      <4>4. f # "li" /\ f # "l_2" => f \in Legendre
        BY <3>2 DEF Shared
      <4> QED BY <4>1, <4>2, <4>3, <4>4, <2>2, <1>1, <1>4, <1>8 DEF TablesFit, Content, Info
    <3>3. CASE f \notin Shared /\ f \notin A
      BY <2>2, <3>3, <1>10 DEF Field
    <3> QED BY <3>1, <3>2, <3>3
  <2>3. \A d \in Live : info'[d] = info[d]
    BY <1>8
  <2> QED BY <2>1, <2>2, <2>3, <1>1, <1>8, <1>9, <1>13, <1>16 DEF TablesFit
<1> QED BY <1>14, <1>15, <1>17, <1>18, <1>19, <1>20 DEF ShareInv

(* Cloning a configuration preserves the invariant. *)
LEMMA CloneInv ==
  ASSUME ShareInv, NEW base \in Live, NEW c \in Config,
         NEW mmax \in 0 .. info[base].mmax, shtns_create_with_grid(base, c, mmax)
  PROVE  ShareInv'
<1>1. TypeOK /\ ListOK /\ NoDangling /\ PlansApart /\ NoDoubleFree /\ TablesFit
  BY DEF ShareInv
<1>2. /\ info[c] = NULL /\ info' = [info EXCEPT ![c] = [info[base] EXCEPT !.mmax = mmax]]
      /\ sht_data' = <<c>> \o sht_data
      /\ heap' = heap /\ ub' = ub /\ resetting' = resetting
  BY DEF shtns_create_with_grid
<1>3. c \notin Live /\ \A d \in Live : d \in Config /\ d # c /\ info'[d] = info[d] /\ info[d] \in Info
  BY <1>1, <1>2, LiveInfo
<1>4. /\ sht_data' \in Seq(Config) /\ Live' = Live \cup {c}
      /\ \A i, j \in DOMAIN sht_data' : sht_data'[i] = sht_data'[j] => i = j
  BY <1>1, <1>2, <1>3, PushHead DEF TypeOK, ListOK, Live
<1>5. /\ info'[c] \in Info /\ info'[c].ptr = info[base].ptr
      /\ info'[c].lmax = info[base].lmax /\ info'[c].mres = info[base].mres
      /\ info'[c].norm = info[base].norm /\ info'[c].mmax = mmax
  <2>1. info[base] \in Info /\ mmax \in Nat
    BY <1>3 DEF Info
  <2>2. info'[c] = [info[base] EXCEPT !.mmax = mmax]
    BY <1>1, <1>2 DEF TypeOK
  <2> QED BY <2>1, <2>2 DEF Info
<1>6. TypeOK'
  BY <1>1, <1>2, <1>4, <1>5 DEF TypeOK
<1>7. ListOK'
  BY <1>1, <1>2, <1>4, <1>5, SentinelAssumption DEF ListOK, TypeOK
<1>8. NoDangling'
  BY <1>1, <1>2, <1>3, <1>4, <1>5 DEF NoDangling
<1>9. PlansApart'
  BY <1>1, <1>3, <1>4, <1>5 DEF PlansApart
<1>10. NoDoubleFree'
  BY <1>1, <1>2 DEF NoDoubleFree
<1>11. TablesFit'
  <2>1. ASSUME NEW f \in Memory, info[base].ptr[f] # NULL, f # "l_2"
        PROVE  heap[info[base].ptr[f]].mmax >= mmax
    <3>1. info[base].ptr[f] \in Pointer
      BY <2>1, <1>3 DEF Info, Field
    <3>2. heap[info[base].ptr[f]] # Free /\ info[base].ptr[f][1] \notin Plan
      BY <2>1, <1>1 DEF NoDangling, Plan, Memory, Shared, Legendre, Grid, Matrix
    <3>3. heap[info[base].ptr[f]] \in Content
      BY <3>1, <3>2, <1>1 DEF TypeOK
    <3>4. heap[info[base].ptr[f]].mmax >= info[base].mmax
      BY <2>1, <1>1 DEF TablesFit
    <3> QED BY <3>3, <3>4, <1>3 DEF Content, Info
  <2> QED BY <2>1, <1>1, <1>2, <1>3, <1>4, <1>5 DEF TablesFit
<1> QED BY <1>6, <1>7, <1>8, <1>9, <1>10, <1>11 DEF ShareInv

-----------------------------------------------------------------------------
(* The arrays of a grid that are freed are referenced by nobody else. *)
LEMMA GridFreed ==
  ASSUME ShareInv, NEW c \in Live
  PROVE  /\ \A b \in Unused(c, Grid) : b \in Pointer /\ b[1] \in Grid
         /\ \A d \in Live, f \in Memory :
              info[d].ptr[f] \in Unused(c, Grid) => d = c /\ f \in Grid
<1>1. TypeOK /\ ListOK /\ NoDangling
  BY DEF ShareInv
<1>2. \A d \in Live : info[d] \in Info
  BY <1>1, LiveInfo
<1>3. ASSUME NEW b \in Unused(c, Grid)
      PROVE  /\ b \in Pointer /\ b[1] \in Grid
             /\ \A d \in Live, f \in Memory : info[d].ptr[f] = b => d = c /\ f \in Grid
  <2>1. PICK g \in Grid : ref_count(c, g) = 1 /\ b = info[c].ptr[g]
    BY DEF Unused
  <2>2. g \in Field /\ g \in Memory /\ g # "mx_van"
    BY DEF Grid, Field, Memory
  <2>3. b # NULL /\ \A d \in Live : info[d].ptr[g] = b => d = c
    BY <2>1, <2>2, <1>1, RefCountOne DEF TypeOK
  <2>4. b \in Pointer /\ b[1] = g
    BY <2>1, <2>2, <2>3, <1>1, <1>2 DEF NoDangling, Info
  <2>5. ASSUME NEW d \in Live, NEW f \in Memory, info[d].ptr[f] = b
        PROVE  f = g
    <3>1. b[1] = f \/ (f = "mx_van" /\ b = info[d].ptr["mx_stdt"])
      BY <2>3, <2>5, <1>1 DEF NoDangling
    <3>2. b = info[d].ptr["mx_stdt"] => b[1] = "mx_stdt"
      BY <2>3, <1>1 DEF NoDangling, Memory, Matrix
    <3>3. g # "mx_stdt"
      BY DEF Grid
    <3> QED BY <3>1, <3>2, <3>3, <2>4
  <2> QED BY <2>3, <2>4, <2>5
<1> QED BY <1>3

(* Releasing a grid preserves the invariant. *)
LEMMA UnsetInv ==
  ASSUME ShareInv, NEW c \in Config, shtns_unset_grid(c)
  PROVE  ShareInv'
<1>1. TypeOK /\ ListOK /\ NoDangling /\ PlansApart /\ NoDoubleFree /\ TablesFit
  BY DEF ShareInv
<1>2. /\ c \in Live /\ heap' = Ungridded(c)
      /\ info' = [info EXCEPT ![c].ptr = NoGrid(info[c].ptr)]
      /\ sht_data' = sht_data /\ ub' = ub /\ resetting' = resetting
  BY DEF shtns_unset_grid
<1>3. Live' = Live /\ \A d \in Live : d \in Config /\ info[d] \in Info
  BY <1>1, <1>2, LiveInfo DEF Live
<1>4. \A b \in Pointer : heap'[b] = IF b \in Unused(c, Grid) THEN Free ELSE heap[b]
  BY <1>2 DEF Ungridded, FreeAll
<1>5. /\ NoGrid(info[c].ptr) \in [Field -> Pointer \cup {NULL}]
      /\ \A f \in Field : NoGrid(info[c].ptr)[f] = IF f \in Grid THEN NULL ELSE info[c].ptr[f]
  BY <1>2, <1>3 DEF NoGrid, Info
<1>6. /\ info'[c] \in Info /\ info'[c].ptr = NoGrid(info[c].ptr)
      /\ info'[c].lmax = info[c].lmax /\ info'[c].mres = info[c].mres
      /\ info'[c].norm = info[c].norm /\ info'[c].mmax = info[c].mmax
      /\ \A d \in Config : d # c => info'[d] = info[d]
  BY <1>1, <1>2, <1>3, <1>5 DEF TypeOK, Info
(* A pointer left in the list is one that was there, to a block not freed. *)
<1>7. ASSUME NEW d \in Live, NEW f \in Memory, info'[d].ptr[f] # NULL
      PROVE  /\ info'[d].ptr[f] = info[d].ptr[f] /\ f \in Field
             /\ info[d].ptr[f] \in Pointer
             /\ heap'[info[d].ptr[f]] = heap[info[d].ptr[f]]
  <2>1. f \in Field
    BY DEF Field
  <2>2. info'[d].ptr[f] = info[d].ptr[f] /\ (d = c => f \notin Grid)
    BY <2>1, <1>3, <1>5, <1>6, <1>7
  <2>3. info[d].ptr[f] \in Pointer
    BY <2>1, <2>2, <1>3, <1>7 DEF Info
  <2>4. info[d].ptr[f] \notin Unused(c, Grid)
    BY <2>2, <1>2, GridFreed
  <2> QED BY <2>1, <2>2, <2>3, <2>4, <1>4
<1>8. TypeOK'
  <2>1. info' \in [Config -> Info \cup {NULL}]
    BY <1>1, <1>2, <1>6 DEF TypeOK
  <2>2. /\ heap' \in [Pointer -> Content \cup {Free, Planned}]
        /\ \A b \in Pointer : heap'[b] = Planned => b[1] \in Plan
    BY <1>1, <1>2, SentinelAssumption DEF TypeOK, Ungridded, FreeAll
  <2> QED BY <2>1, <2>2, <1>1, <1>2 DEF TypeOK
<1>9. ListOK'
  BY <1>1, <1>2, <1>3, <1>6, SentinelAssumption DEF ListOK, TypeOK
<1>10. NoDangling'
  <2>1. \A d \in Live, f \in Memory : info'[d].ptr[f] # NULL =>
          heap'[info'[d].ptr[f]] # Free
    BY <1>1, <1>7 DEF NoDangling
  <2>2. ASSUME NEW d \in Live, NEW f \in Memory, info'[d].ptr[f] # NULL
        PROVE  \/ info'[d].ptr[f][1] = f
               \/ f = "mx_van" /\ info'[d].ptr[f] = info'[d].ptr["mx_stdt"]
    <3>1. info'[d].ptr["mx_stdt"] = info[d].ptr["mx_stdt"]
      BY <1>3, <1>5, <1>6 DEF Field, Memory, Matrix, Grid
    <3> QED BY <3>1, <2>2, <1>1, <1>7 DEF NoDangling
  <2> QED BY <2>1, <2>2, <1>3 DEF NoDangling
<1>11. PlansApart'
  <2>1. \A d \in Live, f \in Plan : info'[d].ptr[f] = info[d].ptr[f]
    BY <1>3, <1>5, <1>6 DEF Field, Plan, Grid
  <2> QED BY <2>1, <1>1, <1>3 DEF PlansApart
<1>12. NoDoubleFree'
  BY <1>1, <1>2 DEF NoDoubleFree
<1>13. TablesFit'
  <2>1. \A d \in Live : /\ info'[d].lmax = info[d].lmax /\ info'[d].mres = info[d].mres
                        /\ info'[d].norm = info[d].norm /\ info'[d].mmax = info[d].mmax
    BY <1>3, <1>6
  <2> QED BY <2>1, <1>1, <1>3, <1>7 DEF TablesFit
<1> QED BY <1>8, <1>9, <1>10, <1>11, <1>12, <1>13 DEF ShareInv

(* Building a grid, over an older one or not, preserves the invariant. *)
LEMMA SetGridInv ==
  ASSUME ShareInv, NEW c \in Config, NEW vector \in BOOLEAN, NEW fft \in BOOLEAN,
         shtns_set_grid_auto(c, vector, fft)
  PROVE  ShareInv'
<1> DEFINE h == Ungridded(c)
           A == GridAllocated(c, vector, fft)
           B == {Malloc(h, f) : f \in A}
           np == info'[c].ptr
<1>1. TypeOK /\ ListOK /\ NoDangling /\ PlansApart /\ NoDoubleFree /\ TablesFit
  BY DEF ShareInv
<1>2. /\ c \in Live /\ heap' = AllocAll(h, B, Key(c))
      /\ info' = [info EXCEPT ![c].ptr =
                    [f \in Field |->
                       IF f \in A THEN Malloc(h, f)
                       ELSE IF f = "mx_van" /\ vector THEN Malloc(h, "mx_stdt")
                       ELSE info[c].ptr[f]]]
      /\ sht_data' = sht_data /\ ub' = ub /\ resetting' = resetting
      /\ \A f \in A : Room(h, f) # {}
  BY DEF shtns_set_grid_auto
<1>3. Live' = Live /\ \A d \in Live : d \in Config /\ info[d] \in Info
  BY <1>1, <1>2, LiveInfo DEF Live
<1>4. A \subseteq Field /\ Grid \subseteq A /\ (vector => "mx_stdt" \in A)
      /\ (\A f \in A : f \in Grid \/ f = "fft" \/ (f \in Matrix /\ vector))
  BY DEF GridAllocated, Field, Memory, Plan, Grid, Matrix
<1>5. Key(c) \in Content
  BY <1>2, <1>3 DEF Key, Content, Info
<1>6. \A f \in A : Malloc(h, f) \in Pointer /\ Malloc(h, f)[1] = f /\ h[Malloc(h, f)] = Free
  BY <1>2, <1>4, MallocFresh
<1>7. \A b \in Pointer : h[b] = IF b \in Unused(c, Grid) THEN Free ELSE heap[b]
  BY DEF Ungridded, FreeAll
<1>8. \A b \in Pointer : h[b] # Free => heap'[b] = heap[b] /\ heap[b] # Free
  BY <1>2, <1>6, <1>7 DEF AllocAll
<1>9. \A f \in A : heap'[Malloc(h, f)] = IF f \in Plan THEN Planned ELSE Key(c)
  BY <1>2, <1>6 DEF AllocAll
<1> DEFINE q == [f \in Field |->
                   IF f \in A THEN Malloc(h, f)
                   ELSE IF f = "mx_van" /\ vector THEN Malloc(h, "mx_stdt")
                   ELSE info[c].ptr[f]]
<1>10. q \in [Field -> Pointer \cup {NULL}]
  <2> SUFFICES ASSUME NEW f \in Field PROVE q[f] \in Pointer \cup {NULL}
    OBVIOUS
  <2>1. info[c].ptr[f] \in Pointer \cup {NULL}
    BY <1>2, <1>3 DEF Info
  <2>2. q[f] = IF f \in A THEN Malloc(h, f)
               ELSE IF f = "mx_van" /\ vector THEN Malloc(h, "mx_stdt")
               ELSE info[c].ptr[f]
    OBVIOUS
  <2> HIDE DEF A, h, q
  <2> QED BY <2>1, <2>2, <1>4, <1>6
<1>11. /\ info'[c] = [info[c] EXCEPT !.ptr = q] /\ info'[c] \in Info
       /\ \A d \in Config : d # c => info'[d] = info[d]
       /\ info' \in [Config -> Info \cup {NULL}]
  <2>1. info[c] \in Info /\ c \in Config /\ info \in [Config -> Info \cup {NULL}]
    BY <1>1, <1>2, <1>3 DEF TypeOK
  <2>2. info' = [info EXCEPT ![c].ptr = q]
    BY <1>2
  <2> HIDE DEF q
  <2>3. info'[c] = [info[c] EXCEPT !.ptr = q] /\ \A d \in Config : d # c => info'[d] = info[d]
    BY <2>1, <2>2
  <2>4. info'[c] \in Info
    BY <2>1, <2>3, <1>10 DEF Info
  <2> QED BY <2>1, <2>2, <2>3, <2>4
<1>12. /\ info'[c].lmax = info[c].lmax /\ info'[c].mres = info[c].mres
       /\ info'[c].norm = info[c].norm /\ info'[c].mmax = info[c].mmax
       /\ np = q
  BY <1>2, <1>3, <1>11 DEF Info
<1>13. \A f \in Field : np[f] = IF f \in A THEN Malloc(h, f)
                               ELSE IF f = "mx_van" /\ vector THEN Malloc(h, "mx_stdt")
                               ELSE info[c].ptr[f]
  BY <1>12
<1> HIDE DEF A, B, h, q, np
<1>14. TypeOK'
  <2>1. /\ heap' \in [Pointer -> Content \cup {Free, Planned}]
        /\ \A b \in Pointer : heap'[b] = Planned => b[1] \in Plan
    <3>1. \A b \in Pointer : heap'[b] = IF b \notin B THEN h[b]
                                       ELSE IF b[1] \in Plan THEN Planned ELSE Key(c)
      BY <1>2 DEF AllocAll
    <3>2. heap' = [b \in Pointer |-> heap'[b]]
      BY <1>2 DEF AllocAll
    <3>3. \A b \in Pointer : h[b] \in Content \cup {Free, Planned}
                             /\ (h[b] = Planned => b[1] \in Plan)
      BY <1>1, <1>7, SentinelAssumption DEF TypeOK
    <3> QED BY <3>1, <3>2, <3>3, <1>5, SentinelAssumption
  <2> QED BY <2>1, <1>1, <1>2, <1>11 DEF TypeOK
<1>15. ListOK'
  BY <1>1, <1>2, <1>3, <1>11, SentinelAssumption DEF ListOK, TypeOK
(* A pointer that the call does not set is to a block it leaves alone. *)
<1>16. ASSUME NEW d \in Live, NEW f \in Memory, info[d].ptr[f] # NULL, d = c => f \notin Grid
       PROVE  heap'[info[d].ptr[f]] = heap[info[d].ptr[f]]
  <2>1. info[d].ptr[f] \in Pointer
    BY <1>3, <1>16 DEF Info, Field
  <2>2. info[d].ptr[f] \notin Unused(c, Grid)
    BY <1>2, <1>16, GridFreed
  <2>3. heap[info[d].ptr[f]] # Free
    BY <1>1, <1>16 DEF NoDangling
  <2> QED BY <2>1, <2>2, <2>3, <1>7, <1>8
<1>17. ASSUME NEW f \in Memory, np[f] # NULL
       PROVE  \/ /\ f \in A \/ f = "mx_van"
                 /\ heap'[np[f]] = Key(c)
                 /\ np[f][1] = f \/ (f = "mx_van" /\ np[f] = np["mx_stdt"])
              \/ /\ np[f] = info[c].ptr[f]
                 /\ heap'[np[f]] = heap[info[c].ptr[f]]
                 /\ f = "mx_van" => np["mx_stdt"] = info[c].ptr["mx_stdt"]
  <2>1. f \in Field /\ f \notin Plan
    BY DEF Field, Memory, Plan, Shared, Legendre, Grid, Matrix
  <2>2. CASE f \in A
    BY <2>1, <2>2, <1>6, <1>9, <1>13
  <2>3. CASE f \notin A /\ f = "mx_van" /\ vector
    <3>1. "mx_stdt" \in A /\ "mx_stdt" \in Field /\ "mx_stdt" \notin Plan
      BY <2>3, <1>4 DEF Plan
    <3> QED BY <3>1, <2>1, <2>3, <1>9, <1>13
  <2>4. CASE f \notin A /\ ~ (f = "mx_van" /\ vector)
    <3>1. np[f] = info[c].ptr[f] /\ f \notin Grid
      BY <2>1, <2>4, <1>4, <1>13
    <3>2. heap'[np[f]] = heap[info[c].ptr[f]]
      BY <3>1, <1>2, <1>16, <1>17
    <3>3. f = "mx_van" => np["mx_stdt"] = info[c].ptr["mx_stdt"]
      <4>1. f = "mx_van" => "mx_stdt" \notin A /\ "mx_stdt" \in Field
        BY <2>4, <1>4 DEF Grid, Field, Memory, Matrix
      <4> QED BY <4>1, <1>13
    <3> QED BY <3>1, <3>2, <3>3
  <2> QED BY <2>2, <2>3, <2>4
<1>18. NoDangling'
  <2>1. ASSUME NEW f \in Memory, np[f] # NULL
        PROVE  heap'[np[f]] # Free /\ (np[f][1] = f \/ (f = "mx_van" /\ np[f] = np["mx_stdt"]))
    BY <2>1, <1>1, <1>2, <1>5, <1>17, SentinelAssumption DEF NoDangling
  <2>2. ASSUME NEW d \in Live, d # c, NEW f \in Memory, info'[d].ptr[f] # NULL
        PROVE  /\ heap'[info'[d].ptr[f]] # Free
               /\ \/ info'[d].ptr[f][1] = f
                  \/ f = "mx_van" /\ info'[d].ptr[f] = info'[d].ptr["mx_stdt"]
    BY <2>2, <1>1, <1>3, <1>11, <1>16 DEF NoDangling
  <2> QED BY <2>1, <2>2, <1>3 DEF NoDangling, np
<1>19. PlansApart'
  <2>1. ASSUME NEW f \in Plan, np[f] # NULL PROVE np[f][1] = f
    <3>1. f \in Field /\ f # "mx_van"
      BY DEF Field, Plan
    <3> QED BY <3>1, <2>1, <1>1, <1>2, <1>6, <1>13 DEF PlansApart
  <2>2. ASSUME NEW d \in Live, d # c, NEW f \in Plan, info'[d].ptr[f] # NULL
        PROVE  info'[d].ptr[f][1] = f
    BY <2>2, <1>1, <1>3, <1>11 DEF PlansApart
  <2> QED BY <2>1, <2>2, <1>3 DEF PlansApart, np
<1>20. NoDoubleFree'
  BY <1>1, <1>2 DEF NoDoubleFree
<1>21. TablesFit'
  <2>1. ASSUME NEW f \in Memory, np[f] # NULL
        PROVE  LET k == heap'[np[f]]
               IN  IF f = "l_2" THEN k.lmax >= info[c].lmax
                   ELSE /\ k.lmax = info[c].lmax /\ k.mres = info[c].mres
                        /\ k.mmax >= info[c].mmax
                        /\ f # "li" => k.norm = info[c].norm
    <3>1. CASE heap'[np[f]] = Key(c)
      BY <3>1, <1>2, <1>3 DEF Key, Info
    <3>2. CASE np[f] = info[c].ptr[f] /\ heap'[np[f]] = heap[info[c].ptr[f]]
      BY <3>2, <2>1, <1>1, <1>2 DEF TablesFit
    <3> QED BY <2>1, <3>1, <3>2, <1>17
  <2>2. ASSUME NEW d \in Live, d # c, NEW f \in Memory, info'[d].ptr[f] # NULL
        PROVE  LET k == heap'[info'[d].ptr[f]]
               IN  IF f = "l_2" THEN k.lmax >= info'[d].lmax
                   ELSE /\ k.lmax = info'[d].lmax /\ k.mres = info'[d].mres
                        /\ k.mmax >= info'[d].mmax
                        /\ f # "li" => k.norm = info'[d].norm
    <3>1. info'[d] = info[d]
      BY <2>2, <1>3, <1>11
    <3>2. heap'[info[d].ptr[f]] = heap[info[d].ptr[f]]
      BY <2>2, <3>1, <1>16
    <3> QED BY <2>2, <3>1, <3>2, <1>1 DEF TablesFit
  <2>3. ASSUME NEW f \in Memory, info'[c].ptr[f] # NULL
        PROVE  LET k == heap'[info'[c].ptr[f]]
               IN  IF f = "l_2" THEN k.lmax >= info'[c].lmax
                   ELSE /\ k.lmax = info'[c].lmax /\ k.mres = info'[c].mres
                        /\ k.mmax >= info'[c].mmax
                        /\ f # "li" => k.norm = info'[c].norm
    BY <2>1, <2>3, <1>12 DEF np
  <2> SUFFICES ASSUME NEW d \in Live, NEW f \in Memory, info'[d].ptr[f] # NULL
               PROVE  LET k == heap'[info'[d].ptr[f]]
                      IN  IF f = "l_2" THEN k.lmax >= info'[d].lmax
                          ELSE /\ k.lmax = info'[d].lmax /\ k.mres = info'[d].mres
                               /\ k.mmax >= info'[d].mmax
                               /\ f # "li" => k.norm = info'[d].norm
    BY <1>3 DEF TablesFit
  <2>4. CASE d = c
    BY <2>3, <2>4
  <2>5. CASE d # c
    BY <2>2, <2>5
  <2> QED BY <2>4, <2>5
<1> QED BY <1>14, <1>15, <1>18, <1>19, <1>20, <1>21 DEF ShareInv

-----------------------------------------------------------------------------
(* What a destruction frees: memory nobody else has, each block once, and    *)
(* plans, which are apart from memory.                                       *)
LEMMA DestroyFreed ==
  ASSUME ShareInv, NEW c \in Live
  PROVE  /\ \A f \in Released(c) :
              /\ info[c].ptr[f] \in Pointer /\ heap[info[c].ptr[f]] # Free
              /\ info[c].ptr[f][1] = f
         /\ \A d \in Live, g \in Memory, f \in Released(c) :
              d # c => info[d].ptr[g] = NULL \/ info[d].ptr[g] # info[c].ptr[f]
         /\ \A d \in Live, g \in Memory, f \in PlansOf(c) :
              info[d].ptr[g] = NULL \/ info[d].ptr[g] # info[c].ptr[f]
<1>1. TypeOK /\ ListOK /\ NoDangling /\ PlansApart
  BY DEF ShareInv
<1>2. \A d \in Live : info[d] \in Info
  BY <1>1, LiveInfo
<1>3. ASSUME NEW f \in Released(c)
      PROVE  /\ f \in Memory /\ f \in Field /\ info[c].ptr[f] # NULL
             /\ info[c].ptr[f] \in Pointer /\ heap[info[c].ptr[f]] # Free
             /\ info[c].ptr[f][1] = f
             /\ \A d \in Live : info[d].ptr[f] = info[c].ptr[f] => d = c
  <2>1. /\ f \in Memory /\ f \in Field /\ ref_count(c, f) = 1
        /\ f = "mx_van" => info[c].ptr["mx_van"] # info[c].ptr["mx_stdt"]
    BY DEF Released, Field
  <2>2. /\ info[c].ptr[f] # NULL
        /\ \A d \in Live : info[d].ptr[f] = info[c].ptr[f] => d = c
    BY <2>1, <1>1, RefCountOne DEF TypeOK
  <2>3. info[c].ptr[f] \in Pointer
    BY <2>1, <2>2, <1>2 DEF Info
  <2> QED BY <2>1, <2>2, <2>3, <1>1 DEF NoDangling
<1>4. ASSUME NEW d \in Live, NEW g \in Memory, info[d].ptr[g] # NULL
      PROVE  \/ info[d].ptr[g][1] = g
             \/ info[d].ptr[g] = info[d].ptr["mx_stdt"] /\ info[d].ptr[g][1] = "mx_stdt"
  BY <1>1, <1>4 DEF NoDangling, Memory, Matrix
<1>5. ASSUME NEW d \in Live, NEW g \in Memory, NEW f \in Released(c), d # c,
             info[d].ptr[g] # NULL, info[d].ptr[g] = info[c].ptr[f]
      PROVE  FALSE
  <2>1. f = g \/ (f = "mx_stdt" /\ info[d].ptr["mx_stdt"] = info[c].ptr["mx_stdt"])
    BY <1>3, <1>4, <1>5
  <2> QED BY <2>1, <1>3, <1>5
<1>6. ASSUME NEW d \in Live, NEW g \in Memory, NEW f \in PlansOf(c),
             info[d].ptr[g] # NULL, info[d].ptr[g] = info[c].ptr[f]
      PROVE  FALSE
  <2>1. f \in Plan /\ info[c].ptr[f][1] = f
    BY <1>1 DEF PlansOf, PlansApart
  <2>2. "mx_stdt" \notin Plan /\ g \notin Plan
    BY DEF Plan, Memory, Shared, Legendre, Grid, Matrix
  <2> QED BY <2>1, <2>2, <1>4, <1>6
<1> QED BY <1>3, <1>5, <1>6

(* Destroying a configuration preserves the invariant. *)
LEMMA DestroyInv ==
  ASSUME ShareInv, NEW c \in Live, Destroy(c), resetting' \in BOOLEAN
  PROVE  ShareInv'
<1> DEFINE B == {info[c].ptr[f] : f \in Released(c) \cup PlansOf(c)}
<1>1. TypeOK /\ ListOK /\ NoDangling /\ PlansApart /\ NoDoubleFree /\ TablesFit
  BY DEF ShareInv
<1>2. /\ ub' = Misuse(c) /\ heap' = FreeAll(heap, B)
      /\ info' = [info EXCEPT ![c] = NULL] /\ sht_data' = Unlink(c)
  BY DEF Destroy
<1>3. c \in Config /\ \A d \in Live : d \in Config /\ info[d] \in Info
  BY <1>1, LiveInfo
<1>4. /\ sht_data' \in Seq(Config) /\ Live' = Live \ {c}
      /\ \A i, j \in DOMAIN sht_data' : sht_data'[i] = sht_data'[j] => i = j
  BY <1>1, <1>2, UnlinkOne DEF TypeOK, ListOK, Live
<1>5. /\ info' \in [Config -> Info \cup {NULL}] /\ info'[c] = NULL
      /\ \A d \in Config : d # c => info'[d] = info[d]
  BY <1>1, <1>2, <1>3 DEF TypeOK
<1>6. \A b \in Pointer : heap'[b] = IF b \in B THEN Free ELSE heap[b]
  BY <1>2 DEF FreeAll
(* A block some configuration keeps a pointer to is left alone. *)
<1>7. ASSUME NEW d \in Live, d # c, NEW f \in Memory, info[d].ptr[f] # NULL
      PROVE  heap'[info[d].ptr[f]] = heap[info[d].ptr[f]] /\ heap[info[d].ptr[f]] # Free
  <2>1. info[d].ptr[f] \in Pointer
    BY <1>3, <1>7 DEF Info, Field
  <2>2. info[d].ptr[f] \notin B
    BY <1>7, DestroyFreed
  <2> QED BY <2>1, <2>2, <1>1, <1>6, <1>7 DEF NoDangling
<1>8. TypeOK'
  <2>1. /\ heap' \in [Pointer -> Content \cup {Free, Planned}]
        /\ \A b \in Pointer : heap'[b] = Planned => b[1] \in Plan
    BY <1>1, <1>2, <1>6, SentinelAssumption DEF TypeOK, FreeAll
  <2>2. ub' \in {"no", "double free", "destroyed plan"}
    BY <1>2 DEF Misuse
  <2> QED BY <2>1, <2>2, <1>4, <1>5 DEF TypeOK
<1>9. ListOK'
  BY <1>1, <1>4, <1>5 DEF ListOK
<1>10. NoDangling'
  BY <1>1, <1>3, <1>4, <1>5, <1>7 DEF NoDangling
<1>11. PlansApart'
  BY <1>1, <1>3, <1>4, <1>5 DEF PlansApart
<1>12. NoDoubleFree'
  <2>1. ~ \E f \in Released(c) : heap[info[c].ptr[f]] = Free
    BY DestroyFreed
  <2>2. ~ \E f, g \in Released(c) : f # g /\ info[c].ptr[f] = info[c].ptr[g]
    BY DestroyFreed
  <2> QED BY <2>1, <2>2, <1>2 DEF Misuse, NoDoubleFree
<1>13. TablesFit'
  <2> SUFFICES ASSUME NEW d \in Live, d # c, NEW f \in Memory, info[d].ptr[f] # NULL
               PROVE  LET k == heap'[info[d].ptr[f]]
                      IN  IF f = "l_2" THEN k.lmax >= info[d].lmax
                          ELSE /\ k.lmax = info[d].lmax /\ k.mres = info[d].mres
                               /\ k.mmax >= info[d].mmax
                               /\ f # "li" => k.norm = info[d].norm
    BY <1>3, <1>4, <1>5 DEF TablesFit
  <2> QED BY <1>1, <1>7 DEF TablesFit
<1> QED BY <1>8, <1>9, <1>10, <1>11, <1>12, <1>13 DEF ShareInv

-----------------------------------------------------------------------------
(* Every call of the library preserves the invariant. *)
LEMMA StepInv == ShareInv /\ [Next]_vars => ShareInv'
<1> SUFFICES ASSUME ShareInv, [Next]_vars PROVE ShareInv'
  OBVIOUS
<1>1. TypeOK /\ ListOK
  BY DEF ShareInv
<1>2. ASSUME NEW c \in Config, NEW s \in Size, NEW n \in Norm, shtns_create(c, s, n)
      PROVE  ShareInv'
  BY <1>2, CreateInv
<1>3. ASSUME NEW base \in Live, NEW c \in Config, NEW mmax \in 0 .. info[base].mmax,
             shtns_create_with_grid(base, c, mmax)
      PROVE  ShareInv'
  BY <1>3, CloneInv
<1>4. ASSUME NEW c \in Config, shtns_unset_grid(c)
      PROVE  ShareInv'
  BY <1>4, UnsetInv
<1>5. ASSUME NEW c \in Config, NEW g \in GridCall, shtns_set_grid_auto(c, g.vector, g.fft)
      PROVE  ShareInv'
  <2>1. g.vector \in BOOLEAN /\ g.fft \in BOOLEAN
    BY GridAssumption
  <2> QED BY <1>5, <2>1, SetGridInv
<1>6. ASSUME NEW c \in Config, shtns_destroy(c)
      PROVE  ShareInv'
  <2>1. c \in Live /\ Destroy(c) /\ resetting' \in BOOLEAN
    BY <1>1, <1>6 DEF shtns_destroy, TypeOK
  <2> QED BY <2>1, DestroyInv
<1>7. CASE ResetStep
  <2>1. sht_data[1] \in Live
    <3>1. 1 \in DOMAIN sht_data
      BY <1>1, <1>7 DEF ResetStep, TypeOK
    <3> QED BY <3>1 DEF Live, Range
  <2>2. Destroy(sht_data[1]) /\ resetting' \in BOOLEAN
    BY <1>1, <1>7 DEF ResetStep, TypeOK
  <2> QED BY <2>1, <2>2, DestroyInv
<1>8. CASE shtns_reset \/ ResetEnd \/ UNCHANGED vars
  <2>1. /\ UNCHANGED <<sht_data, info, heap, ub>> /\ resetting' \in BOOLEAN
    BY <1>1, <1>8 DEF shtns_reset, ResetEnd, vars, TypeOK
  <2>2. TypeOK' /\ Live' = Live
    BY <1>1, <2>1 DEF TypeOK, Live
  <2>3. ListOK'
    BY <1>1, <2>1, <2>2 DEF ListOK
  <2>4. NoDangling' /\ PlansApart'
    BY <2>1, <2>2 DEF ShareInv, NoDangling, PlansApart
  <2>5. NoDoubleFree'
    BY <2>1 DEF ShareInv, NoDoubleFree
  <2>6. TablesFit'
    <3>1. TablesFit
      BY DEF ShareInv
    <3> QED BY ONLY <2>1, <2>2, <3>1 DEF TablesFit
  <2> QED BY <2>2, <2>3, <2>4, <2>5, <2>6 DEF ShareInv
<1> QED BY <1>2, <1>3, <1>4, <1>5, <1>6, <1>7, <1>8 DEF Next

(* The invariant of the configuration list holds in every reachable state. *)
THEOREM ShareInvariant == Spec => []ShareInv
<1> QED BY InitInv, StepInv, PTL DEF Spec

(* The variables keep their types, whatever the calls. *)
THEOREM TypeCorrect == Spec => []TypeOK
<1>1. ShareInv => TypeOK
  BY DEF ShareInv
<1> QED BY <1>1, ShareInvariant, PTL

(* The list holds every allocated struct exactly once. *)
THEOREM ListCorrect == Spec => []ListOK
<1>1. ShareInv => ListOK
  BY DEF ShareInv
<1> QED BY <1>1, ShareInvariant, PTL

(* No configuration of the list ever has a pointer to freed memory. *)
THEOREM NeverDangling == Spec => []NoDangling
<1>1. ShareInv => NoDangling
  BY DEF ShareInv
<1> QED BY <1>1, ShareInvariant, PTL

(* No destruction frees a block twice. *)
THEOREM NeverDoubleFree == Spec => []NoDoubleFree
<1>1. ShareInv => NoDoubleFree
  BY DEF ShareInv
<1> QED BY <1>1, ShareInvariant, PTL

(* Borrowed tables always fit the configuration that borrowed them. *)
THEOREM TablesAlwaysFit == Spec => []TablesFit
<1>1. ShareInv => TablesFit
  BY DEF ShareInv
<1> QED BY <1>1, ShareInvariant, PTL

-----------------------------------------------------------------------------
(* A configuration whose pointer no other one has is the one reference that  *)
(* the scan finds.                                                           *)
LEMMA RefCountLast ==
  ASSUME TypeOK, ListOK, NEW c \in Live, NEW f \in Field, info[c].ptr[f] # NULL,
         \A d \in Live : info[d].ptr[f] = info[c].ptr[f] => d = c
  PROVE  ref_count(c, f) = 1
<1> DEFINE S == {i \in DOMAIN sht_data : info[sht_data[i]].ptr[f] = info[c].ptr[f]}
<1>1. PICK x \in DOMAIN sht_data : sht_data[x] = c
  BY DEF Live, Range
<1>2. \A i \in S : i = x
  <2>1. TAKE i \in S
  <2>2. sht_data[i] \in Live
    BY DEF Live, Range
  <2>3. sht_data[i] = sht_data[x]
    BY <1>1, <2>2
  <2> QED BY <2>3 DEF ListOK
<1>3. S = {x}
  BY <1>1, <1>2
<1>4. Cardinality({x}) = 1
  BY FS_Singleton
<1> QED BY <1>3, <1>4 DEF ref_count

(* A block that a configuration which leaves does not free is still used.    *)
LEMMA StillUsed ==
  ASSUME TypeOK, ListOK, NEW c \in Live, NEW f \in Field, info[c].ptr[f] # NULL,
         ref_count(c, f) # 1
  PROVE  \E d \in Live : d # c /\ info[d].ptr[f] = info[c].ptr[f]
BY RefCountLast

(* The blocks of which the last user frees. *)
Owned == Shared \cup Grid \cup {"ct_rot"}

LEMMA OwnedFields ==
  /\ Owned \subseteq Memory /\ Owned \subseteq Field /\ Grid \subseteq Owned
  /\ \A f \in Owned : f # "mx_van" /\ f # "mx_stdt" /\ f \notin Plan
BY DEF Owned, Shared, Legendre, Grid, Memory, Field, Plan, Matrix

LEMMA CreateNoLeak ==
  ASSUME ShareInv, NoLeak, NEW c \in Config, NEW s \in Size, NEW n \in Norm,
         shtns_create(c, s, n)
  PROVE  NoLeak'
<1> DEFINE A == Allocated(s, n)
           B == {Malloc(heap, f) : f \in A}
           k == [lmax |-> s.lmax, mmax |-> s.mmax, mres |-> s.mres, norm |-> n]
<1>1. TypeOK /\ ListOK
  BY DEF ShareInv
<1>2. /\ info[c] = NULL /\ info' = [info EXCEPT ![c] = NewInfo(s, n)]
      /\ heap' = AllocAll(heap, B, k) /\ sht_data' = <<c>> \o sht_data
      /\ \A f \in A : Room(heap, f) # {}
  BY DEF shtns_create
<1>3. c \notin Live /\ \A d \in Live : d \in Config /\ d # c /\ info'[d] = info[d]
  BY <1>1, <1>2, LiveInfo
<1>4. Live' = Live \cup {c}
  BY <1>1, <1>2, PushHead DEF TypeOK, Live
<1>5. A \subseteq Field
  BY DEF Allocated, Shared, Field, Memory, Plan, Legendre
<1>6. \A f \in A : Malloc(heap, f)[1] = f
  BY <1>2, <1>5, MallocFresh
<1>7. \A f \in A : info'[c].ptr[f] = Malloc(heap, f)
  <2>1. info'[c] = NewInfo(s, n)
    BY <1>1, <1>2 DEF TypeOK
  <2> QED BY <1>5, <2>1 DEF NewInfo
<1> HIDE DEF A
<1>8. SUFFICES ASSUME NEW b \in Pointer, b[1] \in Owned, heap'[b] # Free
               PROVE  \E d \in Live' : info'[d].ptr[b[1]] = b
  BY DEF NoLeak, Owned
<1>9. CASE b \in B
  <2>1. PICK f \in A : b = Malloc(heap, f)
    BY <1>9
  <2> QED BY <1>4, <1>6, <1>7, <2>1
<1>10. CASE b \notin B
  <2>1. heap[b] # Free
    BY <1>2, <1>8, <1>10 DEF AllocAll
  <2>2. PICK d \in Live : info[d].ptr[b[1]] = b
    BY <1>8, <2>1 DEF NoLeak, Owned
  <2> QED BY <1>3, <1>4, <2>2
<1> QED BY <1>9, <1>10

LEMMA CloneNoLeak ==
  ASSUME ShareInv, NoLeak, NEW base \in Live, NEW c \in Config,
         NEW mmax \in 0 .. info[base].mmax, shtns_create_with_grid(base, c, mmax)
  PROVE  NoLeak'
<1>1. TypeOK /\ ListOK
  BY DEF ShareInv
<1>2. /\ info[c] = NULL /\ info' = [info EXCEPT ![c] = [info[base] EXCEPT !.mmax = mmax]]
      /\ sht_data' = <<c>> \o sht_data /\ heap' = heap
  BY DEF shtns_create_with_grid
<1>3. \A d \in Live : d \in Config /\ d # c /\ info'[d] = info[d]
  BY <1>1, <1>2, LiveInfo
<1>4. Live' = Live \cup {c}
  BY <1>1, <1>2, PushHead DEF TypeOK, Live
<1> QED BY <1>2, <1>3, <1>4 DEF NoLeak

LEMMA UnsetNoLeak ==
  ASSUME ShareInv, NoLeak, NEW c \in Config, shtns_unset_grid(c)
  PROVE  NoLeak'
<1>1. TypeOK /\ ListOK
  BY DEF ShareInv
<1>2. /\ c \in Live /\ heap' = Ungridded(c)
      /\ info' = [info EXCEPT ![c].ptr = NoGrid(info[c].ptr)] /\ sht_data' = sht_data
  BY DEF shtns_unset_grid
<1>3. Live' = Live /\ \A d \in Live : d \in Config /\ info[d] \in Info
  BY <1>1, <1>2, LiveInfo DEF Live
<1>4. \A b \in Pointer : heap'[b] = IF b \in Unused(c, Grid) THEN Free ELSE heap[b]
  BY <1>2 DEF Ungridded, FreeAll
<1>5. /\ \A f \in Field : info'[c].ptr[f] = IF f \in Grid THEN NULL ELSE info[c].ptr[f]
      /\ \A d \in Config : d # c => info'[d] = info[d]
  <2>1. info'[c].ptr = NoGrid(info[c].ptr) /\ \A d \in Config : d # c => info'[d] = info[d]
    BY <1>1, <1>2, <1>3 DEF TypeOK, Info
  <2> QED BY <2>1 DEF NoGrid
<1>6. SUFFICES ASSUME NEW b \in Pointer, b[1] \in Owned, heap'[b] # Free
               PROVE  \E d \in Live : info'[d].ptr[b[1]] = b
  BY <1>3 DEF NoLeak, Owned
<1>7. heap[b] # Free /\ b \notin Unused(c, Grid) /\ b[1] \in Field
  BY <1>4, <1>6, OwnedFields
<1>8. PICK d \in Live : info[d].ptr[b[1]] = b
  BY <1>6, <1>7 DEF NoLeak, Owned
<1>9. CASE d # c \/ b[1] \notin Grid
  BY <1>3, <1>5, <1>7, <1>8, <1>9
<1>10. CASE d = c /\ b[1] \in Grid
  <2>1. ref_count(c, b[1]) # 1
    BY <1>7, <1>8, <1>10 DEF Unused
  <2>2. info[c].ptr[b[1]] # NULL
    BY <1>8, <1>10, SentinelAssumption
  <2>3. PICK e \in Live : e # c /\ info[e].ptr[b[1]] = info[c].ptr[b[1]]
    BY <1>1, <1>2, <1>7, <2>1, <2>2, StillUsed
  <2> QED BY <1>3, <1>5, <1>8, <1>10, <2>3
<1> QED BY <1>9, <1>10

LEMMA SetGridNoLeak ==
  ASSUME ShareInv, NoLeak, NEW c \in Config, NEW vector \in BOOLEAN, NEW fft \in BOOLEAN,
         shtns_set_grid_auto(c, vector, fft)
  PROVE  NoLeak'
<1> DEFINE h == Ungridded(c)
           A == GridAllocated(c, vector, fft)
           B == {Malloc(h, f) : f \in A}
           q == [f \in Field |->
                   IF f \in A THEN Malloc(h, f)
                   ELSE IF f = "mx_van" /\ vector THEN Malloc(h, "mx_stdt")
                   ELSE info[c].ptr[f]]
<1>1. TypeOK /\ ListOK
  BY DEF ShareInv
<1>2. /\ c \in Live /\ heap' = AllocAll(h, B, Key(c))
      /\ info' = [info EXCEPT ![c].ptr = q] /\ sht_data' = sht_data
      /\ \A f \in A : Room(h, f) # {}
  BY DEF shtns_set_grid_auto
<1>3. Live' = Live /\ \A d \in Live : d \in Config /\ info[d] \in Info
  BY <1>1, <1>2, LiveInfo DEF Live
<1>4. A \subseteq Field /\ Grid \subseteq A
  BY DEF GridAllocated, Field, Memory, Plan, Grid, Matrix
<1>5. \A f \in A : Malloc(h, f) \in Pointer /\ Malloc(h, f)[1] = f
  BY <1>2, <1>4, MallocFresh
<1>6. \A b \in Pointer : h[b] = IF b \in Unused(c, Grid) THEN Free ELSE heap[b]
  BY DEF Ungridded, FreeAll
<1>7. \A b \in Pointer : b \notin B => heap'[b] = h[b]
  BY <1>2 DEF AllocAll
<1>8. info'[c].ptr = q /\ \A d \in Config : d # c => info'[d] = info[d]
  <2> HIDE DEF q
  <2> QED BY <1>1, <1>2, <1>3 DEF TypeOK, Info
<1>9. \A f \in Field : info'[c].ptr[f] = IF f \in A THEN Malloc(h, f)
                                        ELSE IF f = "mx_van" /\ vector THEN Malloc(h, "mx_stdt")
                                        ELSE info[c].ptr[f]
  BY <1>8
<1> HIDE DEF h, A, q
<1>10. SUFFICES ASSUME NEW b \in Pointer, b[1] \in Owned, heap'[b] # Free
                PROVE  \E d \in Live : info'[d].ptr[b[1]] = b
  BY <1>3 DEF NoLeak, Owned
<1>11. CASE b \in B
  <2>1. PICK f \in A : b = Malloc(h, f)
    BY <1>11
  <2>2. info'[c].ptr[b[1]] = b
    BY <1>4, <1>5, <1>9, <2>1
  <2> QED BY <1>2, <2>2
<1>12. CASE b \notin B
  <2>1. heap[b] # Free /\ b \notin Unused(c, Grid) /\ b[1] \in Field /\ b[1] # "mx_van"
    BY <1>6, <1>7, <1>10, <1>12, OwnedFields
  <2>2. PICK d \in Live : info[d].ptr[b[1]] = b
    BY <1>10, <2>1 DEF NoLeak, Owned
  <2>3. \E e \in Live : (e # c \/ b[1] \notin A) /\ info[e].ptr[b[1]] = b
    <3>1. CASE d # c \/ b[1] \notin A
      BY <2>2, <3>1
    <3>2. CASE d = c /\ b[1] \in A
      <4>1. b[1] \in Grid
        BY <1>10, <3>2 DEF A, GridAllocated, Owned, Shared, Legendre, Grid
      <4>2. ref_count(c, b[1]) # 1
        BY <2>1, <2>2, <3>2, <4>1 DEF Unused
      <4>3. info[c].ptr[b[1]] # NULL
        BY <2>2, <3>2, SentinelAssumption
      <4> QED BY <1>1, <1>2, <2>1, <2>2, <3>2, <4>2, <4>3, StillUsed
    <3> QED BY <3>1, <3>2
  <2> QED BY <1>3, <1>8, <1>9, <2>1, <2>3
<1> QED BY <1>11, <1>12

LEMMA DestroyNoLeak ==
  ASSUME ShareInv, NoLeak, NEW c \in Live, Destroy(c)
  PROVE  NoLeak'
<1> DEFINE B == {info[c].ptr[f] : f \in Released(c) \cup PlansOf(c)}
<1>1. TypeOK /\ ListOK
  BY DEF ShareInv
<1>2. /\ heap' = FreeAll(heap, B)
      /\ info' = [info EXCEPT ![c] = NULL] /\ sht_data' = Unlink(c)
  BY DEF Destroy
<1>3. \A d \in Live : d \in Config
  BY <1>1, LiveInfo
<1>4. Live' = Live \ {c}
  BY <1>1, <1>2, UnlinkOne DEF TypeOK, ListOK, Live
<1>5. \A d \in Config : d # c => info'[d] = info[d]
  BY <1>1, <1>2 DEF TypeOK
<1>6. SUFFICES ASSUME NEW b \in Pointer, b[1] \in Owned, heap'[b] # Free
               PROVE  \E d \in Live : d # c /\ info[d].ptr[b[1]] = b
  BY <1>3, <1>4, <1>5 DEF NoLeak, Owned
<1>7. heap[b] # Free /\ b \notin B
  BY <1>2, <1>6 DEF FreeAll
<1>8. PICK d \in Live : info[d].ptr[b[1]] = b
  BY <1>6, <1>7 DEF NoLeak, Owned
<1>9. CASE d = c
  <2>1. b[1] \in Field /\ b[1] \in Memory /\ b[1] # "mx_van"
    BY <1>6, OwnedFields
  <2>2. ref_count(c, b[1]) # 1
    BY <1>7, <1>8, <1>9, <2>1 DEF Released
  <2>3. info[c].ptr[b[1]] # NULL
    BY <1>8, <1>9, SentinelAssumption
  <2> QED BY <1>1, <1>8, <1>9, <2>1, <2>2, <2>3, StillUsed
<1> QED BY <1>8, <1>9

(* The last configuration to leave frees: no block of shared tables, of a    *)
(* grid or of rotations stays allocated without a configuration that has it. *)
THEOREM NeverLeaks == Spec => []NoLeak
<1>1. Init => NoLeak
  BY DEF Init, NoLeak
<1>2. ShareInv /\ NoLeak /\ [Next]_vars => NoLeak'
  <2> SUFFICES ASSUME ShareInv, NoLeak, [Next]_vars PROVE NoLeak'
    OBVIOUS
  <2>1. ASSUME NEW c \in Config, NEW s \in Size, NEW n \in Norm, shtns_create(c, s, n)
        PROVE  NoLeak'
    BY <2>1, CreateNoLeak
  <2>2. ASSUME NEW base \in Live, NEW c \in Config, NEW mmax \in 0 .. info[base].mmax,
               shtns_create_with_grid(base, c, mmax)
        PROVE  NoLeak'
    BY <2>2, CloneNoLeak
  <2>3. ASSUME NEW c \in Config, shtns_unset_grid(c)
        PROVE  NoLeak'
    BY <2>3, UnsetNoLeak
  <2>4. ASSUME NEW c \in Config, NEW g \in GridCall, shtns_set_grid_auto(c, g.vector, g.fft)
        PROVE  NoLeak'
    <3>1. g.vector \in BOOLEAN /\ g.fft \in BOOLEAN
      BY GridAssumption
    <3> QED BY <2>4, <3>1, SetGridNoLeak
  <2>5. ASSUME NEW c \in Config, shtns_destroy(c)
        PROVE  NoLeak'
    BY <2>5, DestroyNoLeak DEF shtns_destroy
  <2>6. CASE ResetStep
    <3>1. sht_data[1] \in Live
      <4>1. 1 \in DOMAIN sht_data
        BY <2>6 DEF ResetStep, ShareInv, TypeOK
      <4> QED BY <4>1 DEF Live, Range
    <3> QED BY <2>6, <3>1, DestroyNoLeak DEF ResetStep
  <2>7. CASE shtns_reset \/ ResetEnd \/ UNCHANGED vars
    <3>1. UNCHANGED <<sht_data, info, heap>>
      BY <2>7 DEF shtns_reset, ResetEnd, vars
    <3> QED BY <3>1 DEF NoLeak, Live
  <2> QED BY <2>1, <2>2, <2>3, <2>4, <2>5, <2>6, <2>7 DEF Next
<1> QED BY <1>1, <1>2, ShareInvariant, PTL DEF Spec

-----------------------------------------------------------------------------
(* Matrices and plans.                                                       *)
(* A pointer to a matrix or a plan is at a place of matrices or plans.       *)
LEMMA MatrixOrPlan ==
  ASSUME ShareInv, NEW d \in Live, NEW f \in Field, NEW b \in Pointer,
         b[1] \in Matrix \cup Plan, info[d].ptr[f] = b
  PROVE  f \in Matrix \cup Plan
<1>1. b # NULL
  BY SentinelAssumption
<1>2. CASE f \in Plan
  BY <1>2
<1>3. CASE f \in Memory
  <2>1. b[1] = f \/ f = "mx_van"
    BY <1>1, <1>3 DEF ShareInv, NoDangling
  <2>2. "mx_van" \in Matrix
    BY DEF Matrix
  <2> QED BY <2>1, <2>2
<1> QED BY <1>2, <1>3 DEF Field

LEMMA GridPlace ==
  ASSUME ShareInv, NEW d \in Live, NEW f \in Field, NEW b \in Pointer,
         b[1] \in Matrix \cup Plan, info[d].ptr[f] = b
  PROVE  f \notin Grid
<1>1. f \in Matrix \cup Plan
  BY MatrixOrPlan
<1> QED BY <1>1 DEF Grid, Matrix, Plan

(* Creations and clones leave every pointer of the others where it was.      *)
LEMMA CreateStray ==
  ASSUME ShareInv, NEW c \in Config, NEW s \in Size, NEW n \in Norm, shtns_create(c, s, n)
  PROVE  Stray' \subseteq Stray
<1> DEFINE A == Allocated(s, n)
           B == {Malloc(heap, f) : f \in A}
           k == [lmax |-> s.lmax, mmax |-> s.mmax, mres |-> s.mres, norm |-> n]
<1>1. TypeOK /\ ListOK
  BY DEF ShareInv
<1>2. /\ info[c] = NULL /\ info' = [info EXCEPT ![c] = NewInfo(s, n)]
      /\ heap' = AllocAll(heap, B, k) /\ sht_data' = <<c>> \o sht_data
  BY DEF shtns_create
<1>3. c \notin Live /\ \A d \in Live : d \in Config /\ d # c /\ info'[d] = info[d]
  BY <1>1, <1>2, LiveInfo
<1>4. Live' = Live \cup {c}
  BY <1>1, <1>2, PushHead DEF TypeOK, Live
<1>5. A \subseteq Field
  BY DEF Allocated, Shared, Field, Memory, Plan, Legendre
<1>6. \A f \in A : info'[c].ptr[f] = Malloc(heap, f)
  <2>1. info'[c] = NewInfo(s, n)
    BY <1>1, <1>2 DEF TypeOK
  <2> QED BY <1>5, <2>1 DEF NewInfo
<1> HIDE DEF A
<1>7. SUFFICES ASSUME NEW b \in Pointer, b[1] \in Matrix \cup Plan, heap'[b] # Free,
                      \A d \in Live', f \in Field : info'[d].ptr[f] # b
               PROVE  heap[b] # Free /\ \A d \in Live, f \in Field : info[d].ptr[f] # b
  BY DEF Stray
<1>8. b \notin B
  BY <1>4, <1>5, <1>6, <1>7
<1> QED BY <1>2, <1>3, <1>4, <1>7, <1>8 DEF AllocAll

LEMMA CloneStray ==
  ASSUME ShareInv, NEW base \in Live, NEW c \in Config,
         NEW mmax \in 0 .. info[base].mmax, shtns_create_with_grid(base, c, mmax)
  PROVE  Stray' \subseteq Stray
<1>1. TypeOK /\ ListOK
  BY DEF ShareInv
<1>2. /\ info[c] = NULL /\ info' = [info EXCEPT ![c] = [info[base] EXCEPT !.mmax = mmax]]
      /\ sht_data' = <<c>> \o sht_data /\ heap' = heap
  BY DEF shtns_create_with_grid
<1>3. \A d \in Live : d \in Config /\ d # c /\ info'[d] = info[d]
  BY <1>1, <1>2, LiveInfo
<1>4. Live' = Live \cup {c}
  BY <1>1, <1>2, PushHead DEF TypeOK, Live
<1> QED BY <1>2, <1>3, <1>4 DEF Stray

(* Only the pointers of the grid are cleared: none is to a matrix or a plan. *)
LEMMA UnsetStray ==
  ASSUME ShareInv, NEW c \in Config, shtns_unset_grid(c)
  PROVE  Stray' \subseteq Stray
<1>1. TypeOK /\ ListOK /\ NoDangling
  BY DEF ShareInv
<1>2. /\ c \in Live /\ heap' = Ungridded(c)
      /\ info' = [info EXCEPT ![c].ptr = NoGrid(info[c].ptr)] /\ sht_data' = sht_data
  BY DEF shtns_unset_grid
<1>3. Live' = Live /\ \A d \in Live : d \in Config /\ info[d] \in Info
  BY <1>1, <1>2, LiveInfo DEF Live
<1>4. \A b \in Pointer : heap'[b] # Free => heap[b] # Free
  BY <1>2 DEF Ungridded, FreeAll
<1>5. /\ \A f \in Field : info'[c].ptr[f] = IF f \in Grid THEN NULL ELSE info[c].ptr[f]
      /\ \A d \in Config : d # c => info'[d] = info[d]
  <2>1. info'[c].ptr = NoGrid(info[c].ptr) /\ \A d \in Config : d # c => info'[d] = info[d]
    BY <1>1, <1>2, <1>3 DEF TypeOK, Info
  <2> QED BY <2>1 DEF NoGrid
<1>6. SUFFICES ASSUME NEW b \in Pointer, b[1] \in Matrix \cup Plan, heap'[b] # Free,
                      \A d \in Live', f \in Field : info'[d].ptr[f] # b,
                      NEW d \in Live, NEW f \in Field, info[d].ptr[f] = b
               PROVE  FALSE
  BY <1>4 DEF Stray
<1>7. f \notin Grid
  BY <1>6, GridPlace
<1> QED BY <1>3, <1>5, <1>6, <1>7

(* What a second grid loses is what the configuration had and has no more.   *)
LEMMA SetGridStray ==
  ASSUME ShareInv, NEW c \in Config, NEW vector \in BOOLEAN, NEW fft \in BOOLEAN,
         shtns_set_grid_auto(c, vector, fft),
         NEW b \in Stray' \ Stray
  PROVE  /\ c \in Live \cap Live'
         /\ \E f \in Matrix \cup Plan : info[c].ptr[f] = b /\ info'[c].ptr[f] # b
<1> DEFINE h == Ungridded(c)
           A == GridAllocated(c, vector, fft)
           B == {Malloc(h, f) : f \in A}
           q == [f \in Field |->
                   IF f \in A THEN Malloc(h, f)
                   ELSE IF f = "mx_van" /\ vector THEN Malloc(h, "mx_stdt")
                   ELSE info[c].ptr[f]]
<1>1. TypeOK /\ ListOK
  BY DEF ShareInv
<1>2. /\ c \in Live /\ heap' = AllocAll(h, B, Key(c))
      /\ info' = [info EXCEPT ![c].ptr = q] /\ sht_data' = sht_data
  BY DEF shtns_set_grid_auto
<1>3. Live' = Live /\ \A d \in Live : d \in Config /\ info[d] \in Info
  BY <1>1, <1>2, LiveInfo DEF Live
<1>4. A \subseteq Field
  BY DEF GridAllocated, Field, Memory, Plan, Grid, Matrix
<1>5. info'[c].ptr = q /\ \A d \in Config : d # c => info'[d] = info[d]
  <2> HIDE DEF q
  <2> QED BY <1>1, <1>2, <1>3 DEF TypeOK, Info
<1>6. \A f \in A : info'[c].ptr[f] = Malloc(h, f)
  BY <1>4, <1>5
<1>7. \A e \in Pointer : h[e] # Free => heap[e] # Free
  BY DEF Ungridded, FreeAll
<1> HIDE DEF h, A, q
<1>8. /\ b \in Pointer /\ b[1] \in Matrix \cup Plan /\ heap'[b] # Free
      /\ \A d \in Live', f \in Field : info'[d].ptr[f] # b
      /\ heap[b] = Free \/ \E d \in Live, f \in Field : info[d].ptr[f] = b
  BY DEF Stray
<1>9. b \notin B
  BY <1>2, <1>3, <1>4, <1>6, <1>8
<1>10. heap[b] # Free
  BY <1>2, <1>7, <1>8, <1>9 DEF AllocAll
<1>11. PICK d \in Live, f \in Field : info[d].ptr[f] = b
  BY <1>8, <1>10
<1>12. d = c
  BY <1>3, <1>5, <1>8, <1>11
<1>13. f \in Matrix \cup Plan
  BY <1>8, <1>11, MatrixOrPlan
<1> QED BY <1>2, <1>3, <1>8, <1>11, <1>12, <1>13

(* The last user frees its matrices, and any user the plans.                 *)
LEMMA DestroyStray ==
  ASSUME ShareInv, NEW c \in Live, Destroy(c)
  PROVE  Stray' \subseteq Stray
<1> DEFINE B == {info[c].ptr[f] : f \in Released(c) \cup PlansOf(c)}
<1>1. TypeOK /\ ListOK
  BY DEF ShareInv
<1>2. /\ heap' = FreeAll(heap, B)
      /\ info' = [info EXCEPT ![c] = NULL] /\ sht_data' = Unlink(c)
  BY DEF Destroy
<1>3. \A d \in Live : d \in Config
  BY <1>1, LiveInfo
<1>4. Live' = Live \ {c}
  BY <1>1, <1>2, UnlinkOne DEF TypeOK, ListOK, Live
<1>5. \A d \in Config : d # c => info'[d] = info[d]
  BY <1>1, <1>2 DEF TypeOK
<1>6. SUFFICES ASSUME NEW b \in Pointer, b[1] \in Matrix \cup Plan, heap'[b] # Free,
                      \A d \in Live', f \in Field : info'[d].ptr[f] # b
               PROVE  b \in Stray
  BY DEF Stray
<1>7. heap[b] # Free /\ b \notin B
  BY <1>2, <1>6 DEF FreeAll
<1>8. SUFFICES ASSUME NEW d \in Live, NEW f \in Field, info[d].ptr[f] = b
               PROVE  FALSE
  BY <1>6, <1>7 DEF Stray
<1>9. d = c
  BY <1>3, <1>4, <1>5, <1>6, <1>8
<1>10. info[c].ptr[f] # NULL /\ \A e \in Live : info[e].ptr[f] = info[c].ptr[f] => e = c
  BY <1>3, <1>4, <1>5, <1>6, <1>8, <1>9, SentinelAssumption
<1>11. f \notin Plan
  BY <1>7, <1>8, <1>9, <1>10 DEF PlansOf
<1>12. f \in Memory
  BY <1>11 DEF Field
<1>13. ref_count(c, f) = 1
  BY <1>1, <1>10, <1>12, StillUsed
<1>14. f = "mx_van" /\ b = info[c].ptr["mx_stdt"]
  BY <1>7, <1>8, <1>9, <1>12, <1>13 DEF Released
<1>15. "mx_stdt" \in Field /\ "mx_stdt" \in Memory
  BY DEF Field, Memory, Matrix
<1>16. \A e \in Live : info[e].ptr["mx_stdt"] = info[c].ptr["mx_stdt"] => e = c
  BY <1>3, <1>4, <1>5, <1>6, <1>14, <1>15
<1>17. ref_count(c, "mx_stdt") = 1
  BY <1>1, <1>8, <1>9, <1>10, <1>14, <1>15, <1>16, StillUsed
<1>18. "mx_stdt" \in Released(c)
  BY <1>15, <1>17 DEF Released
<1> QED BY <1>7, <1>14, <1>18

(* A matrix or a plan is lost by a second grid of a configuration that goes  *)
(* on, and by no other call.                                                 *)
THEOREM OnlyRegridLoses == Spec => LostByRegridOnly
<1> DEFINE Lost == \A b \in Stray' \ Stray :
                     \E c \in Live \cap Live' : \E f \in Matrix \cup Plan :
                       info[c].ptr[f] = b /\ info'[c].ptr[f] # b
<1>1. ShareInv /\ [Next]_vars => [Lost]_vars
  <2> SUFFICES ASSUME ShareInv, Next, NEW b \in Stray' \ Stray
               PROVE  \E c \in Live \cap Live' : \E f \in Matrix \cup Plan :
                        info[c].ptr[f] = b /\ info'[c].ptr[f] # b
    OBVIOUS
  <2>1. ASSUME NEW c \in Config, NEW s \in Size, NEW n \in Norm, shtns_create(c, s, n)
        PROVE  FALSE
    BY <2>1, CreateStray
  <2>2. ASSUME NEW base \in Live, NEW c \in Config, NEW mmax \in 0 .. info[base].mmax,
               shtns_create_with_grid(base, c, mmax)
        PROVE  FALSE
    BY <2>2, CloneStray
  <2>3. ASSUME NEW c \in Config, shtns_unset_grid(c)
        PROVE  FALSE
    BY <2>3, UnsetStray
  <2>4. ASSUME NEW c \in Config, NEW g \in GridCall, shtns_set_grid_auto(c, g.vector, g.fft)
        PROVE  /\ c \in Live \cap Live'
               /\ \E f \in Matrix \cup Plan : info[c].ptr[f] = b /\ info'[c].ptr[f] # b
    <3>1. g.vector \in BOOLEAN /\ g.fft \in BOOLEAN
      BY GridAssumption
    <3> QED BY <2>4, <3>1, SetGridStray
  <2>5. ASSUME NEW c \in Config, shtns_destroy(c)
        PROVE  FALSE
    BY <2>5, DestroyStray DEF shtns_destroy
  <2>6. CASE ResetStep
    <3>1. sht_data[1] \in Live
      <4>1. 1 \in DOMAIN sht_data
        BY <2>6 DEF ResetStep, ShareInv, TypeOK
      <4> QED BY <4>1 DEF Live, Range
    <3> QED BY <2>6, <3>1, DestroyStray DEF ResetStep
  <2>7. CASE shtns_reset \/ ResetEnd
    <3>1. UNCHANGED <<sht_data, info, heap>>
      BY <2>7 DEF shtns_reset, ResetEnd
    <3> QED BY <3>1 DEF Stray, Live
  <2> QED BY <2>1, <2>2, <2>3, <2>4, <2>5, <2>6, <2>7 DEF Next
<1> QED BY <1>1, ShareInvariant, PTL DEF Spec, LostByRegridOnly

-----------------------------------------------------------------------------
(* No call changes a table a configuration goes on using: what a call frees, *)
(* and what it allocates, no other pointer of the list is to.                *)
THEOREM NeverTouched == Spec => TablesUntouched
<1> DEFINE Untouched == \A c \in Live \cap Live' : \A f \in Memory \ Grid :
                          LET p == info[c].ptr[f]
                          IN  p # NULL /\ info'[c].ptr[f] = p => heap'[p] = heap[p]
<1>1. ShareInv /\ [Next]_vars => [Untouched]_vars
  <2> SUFFICES ASSUME ShareInv, Next,
                      NEW d \in Live \cap Live', NEW f \in Memory \ Grid,
                      info[d].ptr[f] # NULL, info'[d].ptr[f] = info[d].ptr[f]
               PROVE  heap'[info[d].ptr[f]] = heap[info[d].ptr[f]]
    OBVIOUS
  <2> DEFINE p == info[d].ptr[f]
  <2>1. TypeOK /\ ListOK /\ NoDangling
    BY DEF ShareInv
  <2>2. p \in Pointer /\ heap[p] # Free
    BY <2>1, LiveInfo DEF NoDangling, Info, Field
  <2>3. ASSUME NEW c \in Config, NEW s \in Size, NEW n \in Norm, shtns_create(c, s, n)
        PROVE  heap'[p] = heap[p]
    <3>1. Allocated(s, n) \subseteq Field
      BY DEF Allocated, Shared, Field, Memory, Plan, Legendre
    <3>2. \A g \in Allocated(s, n) : heap[Malloc(heap, g)] = Free
      BY <2>3, <3>1, MallocFresh DEF shtns_create
    <3>3. p \notin {Malloc(heap, g) : g \in Allocated(s, n)}
      BY <2>2, <3>2
    <3> QED BY <2>2, <2>3, <3>3 DEF shtns_create, AllocAll
  <2>4. ASSUME NEW c \in Live PROVE p \notin Unused(c, Grid)
    BY GridFreed
  <2>5. ASSUME NEW c \in Config, shtns_unset_grid(c)
        PROVE  heap'[p] = heap[p]
    BY <2>2, <2>4, <2>5 DEF shtns_unset_grid, Ungridded, FreeAll
  <2>6. ASSUME NEW c \in Config, NEW vector, NEW fft, shtns_set_grid_auto(c, vector, fft)
        PROVE  heap'[p] = heap[p]
    <3> DEFINE h == Ungridded(c)
               A == GridAllocated(c, vector, fft)
    <3>1. c \in Live /\ heap' = AllocAll(h, {Malloc(h, g) : g \in A}, Key(c))
          /\ \A g \in A : Room(h, g) # {}
      BY <2>6 DEF shtns_set_grid_auto
    <3>2. A \subseteq Field
      BY DEF GridAllocated, Field, Memory, Plan, Grid, Matrix
    <3>3. h[p] = heap[p]
      BY <2>2, <2>4, <3>1 DEF Ungridded, FreeAll
    <3>4. \A g \in A : h[Malloc(h, g)] = Free
      BY <3>1, <3>2, MallocFresh
    <3> HIDE DEF h, A
    <3>5. p \notin {Malloc(h, g) : g \in A}
      BY <2>2, <3>3, <3>4
    <3> QED BY <2>2, <3>1, <3>3, <3>5 DEF AllocAll
  <2>7. ASSUME NEW c \in Live, Destroy(c)
        PROVE  heap'[p] = heap[p]
    <3>1. Live' = Live \ {c}
      BY <2>1, <2>7, UnlinkOne DEF TypeOK, ListOK, Live, Destroy
    <3>2. d # c
      BY <3>1
    <3>3. p \notin {info[c].ptr[g] : g \in Released(c) \cup PlansOf(c)}
      BY <3>2, DestroyFreed
    <3> QED BY <2>2, <2>7, <3>3 DEF Destroy, FreeAll
  <2>8. ASSUME NEW c \in Config, shtns_destroy(c)
        PROVE  heap'[p] = heap[p]
    BY <2>7, <2>8 DEF shtns_destroy
  <2>9. CASE ResetStep
    <3>1. sht_data[1] \in Live
      <4>1. 1 \in DOMAIN sht_data
        BY <2>1, <2>9 DEF ResetStep, TypeOK
      <4> QED BY <4>1 DEF Live, Range
    <3> QED BY <2>7, <2>9, <3>1 DEF ResetStep
  <2>10. ASSUME NEW base, NEW c, NEW mmax, shtns_create_with_grid(base, c, mmax)
         PROVE  heap'[p] = heap[p]
    BY <2>10 DEF shtns_create_with_grid
  <2>11. CASE shtns_reset \/ ResetEnd
    BY <2>11 DEF shtns_reset, ResetEnd
  <2> HIDE DEF p
  <2>12. ASSUME NEW g \in GridCall, NEW c \in Config,
                shtns_set_grid_auto(c, g.vector, g.fft)
         PROVE  heap'[p] = heap[p]
    BY <2>6, <2>12
  <2>13. heap'[p] = heap[p]
    <3>1. CASE ResetStep
      BY <2>9, <3>1 DEF p
    <3>2. CASE shtns_reset \/ ResetEnd
      BY <2>11, <3>2 DEF p
    <3>3. CASE \E c \in Config, s \in Size, n \in Norm : shtns_create(c, s, n)
      BY <2>3, <3>3
    <3>4. CASE \E c \in Config : shtns_destroy(c)
      BY <2>8, <3>4
    <3>5. CASE \E c \in Config : shtns_unset_grid(c)
      BY <2>5, <3>5
    <3>6. CASE \E c \in Config, g \in GridCall : shtns_set_grid_auto(c, g.vector, g.fft)
      BY <2>12, <3>6
    <3>7. CASE \E base \in Live, c \in Config :
                 \E mmax \in 0 .. info[base].mmax : shtns_create_with_grid(base, c, mmax)
      BY <2>10, <3>7
    <3> QED BY <3>1, <3>2, <3>3, <3>4, <3>5, <3>6, <3>7 DEF Next
  <2> QED BY <2>13 DEF p
<1> QED BY <1>1, ShareInvariant, PTL DEF Spec, TablesUntouched
-----------------------------------------------------------------------------
(* Tags. A load reorders the list under the library: the invariant of the    *)
(* list holds all the same, and tags keep their configurations.              *)

(* A load puts the configurations of the list in another order, no more.     *)
LEMMA LoadReorders ==
  ASSUME ShareInv, NEW n \in Tag, shtns_load_cfg(n)
  PROVE  /\ sht_data' \in Seq(Config) /\ Live' = Live
         /\ \A i, j \in DOMAIN sht_data' : sht_data'[i] = sht_data'[j] => i = j
<1> DEFINE c == shtns_configs[n]
<1>1. c \in Live /\ sht_data' = <<c>> \o Unlink(c)
  BY DEF shtns_load_cfg
<1>2. TypeOK /\ ListOK
  BY DEF ShareInv
<1>3. c \in Config
  BY <1>1, <1>2, LiveInfo
<1> HIDE DEF c
<1>4. /\ Unlink(c) \in Seq(Config)
      /\ Range(Unlink(c)) = Live \ {c}
      /\ \A i, j \in DOMAIN Unlink(c) : Unlink(c)[i] = Unlink(c)[j] => i = j
  BY <1>1, <1>2, UnlinkOne DEF TypeOK, ListOK
<1> DEFINE u == Unlink(c)
<1>5. /\ u \in Seq(Config) /\ c \notin Range(u) /\ Range(u) \cup {c} = Live
      /\ \A i, j \in DOMAIN u : u[i] = u[j] => i = j
  BY <1>1, <1>4
<1> HIDE DEF u
<1>6. /\ <<c>> \o u \in Seq(Config)
      /\ Range(<<c>> \o u) = Range(u) \cup {c}
      /\ \A i, j \in DOMAIN (<<c>> \o u) : (<<c>> \o u)[i] = (<<c>> \o u)[j] => i = j
  BY <1>3, <1>5, Push
<1>7. sht_data' = <<c>> \o u
  BY <1>1 DEF u
<1> QED BY <1>5, <1>6, <1>7 DEF Live

(* No load breaks the invariant of the list. *)
LEMMA LoadInv ==
  ASSUME ShareInv, NEW n \in Tag, shtns_load_cfg(n)
  PROVE  ShareInv'
<1>1. TypeOK /\ ListOK /\ NoDangling /\ PlansApart /\ NoDoubleFree /\ TablesFit
  BY DEF ShareInv
<1>2. info' = info /\ heap' = heap /\ resetting' = resetting /\ ub' = ub
  BY DEF shtns_load_cfg
<1>3. /\ sht_data' \in Seq(Config) /\ Live' = Live
      /\ \A i, j \in DOMAIN sht_data' : sht_data'[i] = sht_data'[j] => i = j
  BY LoadReorders
<1>4. TypeOK' /\ ListOK'
  BY <1>1, <1>2, <1>3 DEF TypeOK, ListOK
<1>5. NoDangling' /\ PlansApart' /\ NoDoubleFree'
  <2>1. NoDangling'
    BY ONLY <1>1, <1>2, <1>3 DEF NoDangling
  <2>2. PlansApart'
    BY ONLY <1>1, <1>2, <1>3 DEF PlansApart
  <2> QED BY <1>1, <1>2, <2>1, <2>2 DEF NoDoubleFree
<1>6. TablesFit'
  BY ONLY <1>1, <1>2, <1>3 DEF TablesFit
<1> QED BY <1>4, <1>5, <1>6 DEF ShareInv

(* What identifies a configuration never changes while it lives. *)
LEMMA KeyKept ==
  ASSUME ShareInv, Next, NEW d \in Live, d \in Live'
  PROVE  Key(d)' = Key(d)
<1>1. d \in Config /\ info[d] # NULL /\ info[d] \in Info
  BY LiveInfo DEF ShareInv
<1>2. info \in [Config -> Info \cup {NULL}]
  BY DEF ShareInv, TypeOK
<1>3. ASSUME NEW c \in Config, NEW r, info' = [info EXCEPT ![c] = r], info[c] = NULL
      PROVE  info'[d] = info[d]
  BY <1>1, <1>2, <1>3
<1>4. ASSUME NEW c \in Live, info' = [info EXCEPT ![c] = NULL], Live' = Live \ {c}
      PROVE  info'[d] = info[d]
  <2>1. c \in Config /\ c # d
    BY <1>4, LiveInfo DEF ShareInv
  <2> QED BY <1>1, <1>2, <1>4, <2>1
<1>5. ASSUME NEW c \in Config, NEW q, info' = [info EXCEPT ![c].ptr = q]
      PROVE  /\ info'[d].lmax = info[d].lmax /\ info'[d].mmax = info[d].mmax
             /\ info'[d].mres = info[d].mres /\ info'[d].norm = info[d].norm
  <2>1. CASE c = d
    <3>1. info'[d] = [info[d] EXCEPT !.ptr = q]
      BY <1>1, <1>2, <1>5, <2>1
    <3> QED BY <3>1, <1>1 DEF Info
  <2>2. CASE c # d
    BY <1>1, <1>2, <1>5, <2>2
  <2> QED BY <2>1, <2>2
<1>6. ASSUME NEW c \in Live, Destroy(c) PROVE info'[d] = info[d]
  <2>1. info' = [info EXCEPT ![c] = NULL] /\ sht_data' = Unlink(c)
    BY <1>6 DEF Destroy
  <2>2. Live' = Live \ {c}
    BY <2>1, UnlinkOne DEF ShareInv, TypeOK, ListOK, Live
  <2> QED BY <2>1, <2>2, <1>4
<1>7. CASE \E c \in Config, s \in Size, n \in Norm : shtns_create(c, s, n)
  <2>1. PICK c \in Config, s \in Size, n \in Norm : shtns_create(c, s, n)
    BY <1>7
  <2>2. info' = [info EXCEPT ![c] = NewInfo(s, n)] /\ info[c] = NULL
    BY <2>1 DEF shtns_create
  <2>3. info'[d] = info[d]
    BY <2>2, <1>3
  <2> QED BY <2>3 DEF Key
<1>8. CASE \E base \in Live, c \in Config :
             \E mmax \in 0 .. info[base].mmax : shtns_create_with_grid(base, c, mmax)
  <2>1. PICK base \in Live, c \in Config :
               \E mmax \in 0 .. info[base].mmax : shtns_create_with_grid(base, c, mmax)
    BY <1>8
  <2>2. \E r : info' = [info EXCEPT ![c] = r] /\ info[c] = NULL
    BY <2>1 DEF shtns_create_with_grid
  <2>3. info'[d] = info[d]
    BY <2>2, <1>3
  <2> QED BY <2>3 DEF Key
<1>9. CASE \E c \in Config : shtns_unset_grid(c)
  <2>1. PICK c \in Config : shtns_unset_grid(c)
    BY <1>9
  <2>2. \E q : info' = [info EXCEPT ![c].ptr = q]
    BY <2>1 DEF shtns_unset_grid
  <2> QED BY <2>2, <1>5 DEF Key
<1>10. CASE \E c \in Config, g \in GridCall : shtns_set_grid_auto(c, g.vector, g.fft)
  <2>1. PICK c \in Config, g \in GridCall : shtns_set_grid_auto(c, g.vector, g.fft)
    BY <1>10
  <2>2. \E q : info' = [info EXCEPT ![c].ptr = q]
    BY <2>1 DEF shtns_set_grid_auto
  <2> QED BY <2>2, <1>5 DEF Key
<1>11. CASE \E c \in Config : shtns_destroy(c)
  <2>1. PICK c \in Live : Destroy(c)
    BY <1>11 DEF shtns_destroy
  <2> QED BY <2>1, <1>6 DEF Key
<1>12. CASE ResetStep
  <2>1. Destroy(sht_data[1]) /\ sht_data # <<>> /\ sht_data \in Seq(Config)
    BY <1>12 DEF ResetStep, ShareInv, TypeOK
  <2>2. sht_data[1] \in Live
    BY <2>1 DEF Live, Range
  <2> QED BY <2>1, <2>2, <1>6 DEF Key
<1>13. CASE shtns_reset \/ ResetEnd
  BY <1>13 DEF shtns_reset, ResetEnd, Key
<1> QED BY <1>7, <1>8, <1>9, <1>10, <1>11, <1>12, <1>13 DEF Next

(* Tags are empty at first. *)
LEMMA SlotInit == FortranInit => ShareInv /\ SlotInv
<1> QED BY InitInv DEF FortranInit, SlotInv

(* No call stores anything but an address under a tag. *)
LEMMA SlotStep ==
  ShareInv /\ SlotInv /\ [FortranNext]_<<vars, shtns_configs>> => ShareInv' /\ SlotInv'
<1> SUFFICES ASSUME ShareInv, SlotInv, [FortranNext]_<<vars, shtns_configs>>
             PROVE  ShareInv' /\ SlotInv'
  OBVIOUS
<1>1. CASE Next /\ Untagged
  BY <1>1, StepInv DEF Untagged, SlotInv
<1>2. ASSUME NEW n \in Tag, shtns_load_cfg(n) PROVE ShareInv' /\ SlotInv'
  BY <1>2, LoadInv DEF shtns_load_cfg, SlotInv
<1>3. ASSUME NEW n \in Tag, shtns_save_cfg(n) PROVE ShareInv' /\ SlotInv'
  <2> DEFINE head == IF sht_data = <<>> THEN NULL ELSE sht_data[1]
  <2>1. shtns_configs' = [shtns_configs EXCEPT ![n] = head] /\ UNCHANGED vars
    BY <1>3 DEF shtns_save_cfg
  <2>2. head \in Config \cup {NULL}
    <3>1. sht_data \in Seq(Config)
      BY DEF ShareInv, TypeOK
    <3> QED BY <3>1
  <2> HIDE DEF head
  <2> QED BY <2>1, <2>2, StepInv DEF SlotInv
<1>4. CASE UNCHANGED <<vars, shtns_configs>>
  BY <1>4, StepInv DEF SlotInv
<1> QED BY <1>1, <1>2, <1>3, <1>4 DEF FortranNext, TagNext

(* Whatever is saved and loaded by tag in between, destroyed configurations  *)
(* included, the invariant of the list holds in every reachable state.       *)
THEOREM FortranInvariant == FortranSpec => [](ShareInv /\ SlotInv)
<1> QED BY SlotInit, SlotStep, PTL DEF FortranSpec

(* Loads leave every allocated struct in the list exactly once. *)
THEOREM ListCorrectByTag == FortranSpec => []ListOK
<1>1. ShareInv /\ SlotInv => ListOK
  BY DEF ShareInv
<1> QED BY <1>1, FortranInvariant, PTL

(* Moved to the front of the list, a configuration still lends only tables   *)
(* that fit: the last match of a search may be another one, never a wrong one. *)
THEOREM TablesFitByTag == FortranSpec => []TablesFit
<1>1. ShareInv /\ SlotInv => TablesFit
  BY DEF ShareInv
<1> QED BY <1>1, FortranInvariant, PTL

-----------------------------------------------------------------------------
(* Latitudes.                                                                *)

(* A quotient of naturals is one.                                            *)
LEMMA DivNat ==
  ASSUME NEW a \in Nat, NEW b \in Nat \ {0}
  PROVE  a \div b \in Nat
<1> QED OBVIOUS

(* What a call computes lies in the table, and is something.                 *)
LEMMA UsedIn ==
  ASSUME ShareInv, LatSizes, NEW c \in Live, NEW call \in LatCall
  PROVE  Used(c, call) \in SUBSET Entry /\ Used(c, call) # {}
<1>1. PICK s \in Size : /\ info[c].lmax = s.lmax /\ info[c].mres = s.mres
                        /\ info[c].mmax <= s.mmax
  BY DEF LatSizes
<1>2. info[c] \in Info
  BY LiveInfo DEF ShareInv
<1>3. s \in [lmax : Nat, mmax : Nat, mres : Nat] /\ ValidSize(s.lmax, s.mmax, s.mres)
  BY SizeAssumption
<1> DEFINE L == info[c].lmax  M == info[c].mmax  R == info[c].mres
           ltr == Least(call.ltr, L)
           mtr == Least(Least(Least(call.mtr, M), ltr \div R), (call.nphi - 1) \div (2 * R))
<1>4. L \in Nat /\ M \in Nat /\ R \in Nat \ {0} /\ M <= s.mmax /\ s.mmax \in Nat /\ L = s.lmax
  BY <1>1, <1>2, <1>3 DEF Info, ValidSize
<1>5. call.ltr \in Nat /\ call.mtr \in Nat /\ call.nphi \in Nat \ {0}
  BY LatAssumption
<1>6. Used(c, call) = {e \in (0 .. ltr) \X (0 .. mtr) : e[1] >= e[2] * R}
  BY DEF Used, Clipped
<1> HIDE DEF L, M, R
<1>7. ltr \in 0 .. L
  BY <1>4, <1>5 DEF Least
<1>8. mtr \in 0 .. M
  <2>1. ltr \div R \in Nat
    BY <1>4, <1>7, DivNat
  <2>2. call.nphi - 1 \in Nat /\ 2 * R \in Nat \ {0}
    BY <1>4, <1>5
  <2>3. (call.nphi - 1) \div (2 * R) \in Nat
    BY <2>2, DivNat
  <2> DEFINE a == ltr \div R  b == (call.nphi - 1) \div (2 * R)
  <2> HIDE DEF a, b
  <2>4. a \in Nat /\ b \in Nat => Least(Least(Least(call.mtr, M), a), b) \in 0 .. M
    BY <1>4, <1>5 DEF Least
  <2> QED BY <2>1, <2>3, <2>4 DEF a, b
<1> HIDE DEF ltr, mtr
<1>9. <<0, 0>> \in Used(c, call)
  <2>1. 0 >= 0 * R
    BY <1>4
  <2> QED BY <1>6, <1>7, <1>8, <1>4, <2>1
<1>10. Used(c, call) \subseteq (0 .. s.lmax) \X (0 .. s.mmax)
  <2>1. 0 .. ltr \subseteq 0 .. s.lmax /\ 0 .. mtr \subseteq 0 .. s.mmax
    BY <1>4, <1>7, <1>8
  <2> QED BY <1>6, <2>1
<1>11. (0 .. s.lmax) \X (0 .. s.mmax) \subseteq Entry
  BY DEF Entry
<1> QED BY <1>9, <1>10, <1>11

(* Latitudes change nothing in the list.                                     *)
LEMMA LatListInv ==
  ASSUME ShareInv, ub' \in {ub, "destroyed plan"}, UNCHANGED <<sht_data, info, heap, resetting>>
  PROVE  ShareInv' /\ Live' = Live
<1>1. TypeOK /\ ListOK /\ NoDangling /\ PlansApart /\ NoDoubleFree /\ TablesFit
  BY DEF ShareInv
<1>2. Live' = Live
  BY DEF Live
<1>3. TypeOK' /\ ListOK' /\ NoDoubleFree'
  BY <1>1, <1>2 DEF TypeOK, ListOK, NoDoubleFree
<1>4. NoDangling' /\ PlansApart' /\ TablesFit'
  <2>1. NoDangling'
    BY <1>1, <1>2 DEF NoDangling
  <2>2. PlansApart'
    BY <1>1, <1>2 DEF PlansApart
  <2>3. TablesFit'
    BY <1>1, <1>2 DEF TablesFit
  <2> QED BY <2>1, <2>2, <2>3
<1> QED BY <1>2, <1>3, <1>4 DEF ShareInv

(* A call along a latitude keeps the caches apart, and fills its own.        *)
LEMMA LatCallInv ==
  ASSUME ShareInv, LatInv, NEW c \in Live, NEW x \in Cost, NEW call \in LatCall,
         SH_to_lat(c, x, call)
  PROVE  ShareInv' /\ LatInv'
<1> DEFINE remade == Replans(c, call.nphi)
           rest == Rest(c, call.nphi)
           used == Used(c, call)
           table == IF ylm_lat[c] = NULL THEN [e \in Entry |-> Unset] ELSE legendre[ylm_lat[c]]
           filling == [e \in Entry |-> IF Fills(c, x) /\ e \in used THEN x ELSE table[e]]
<1>1. PICK k \in IF ylm_lat[c] = NULL THEN Vacant(legendre) ELSE {ylm_lat[c]},
           p \in IF remade THEN Vacant(rest) ELSE {ifft_lat[c]} :
        /\ ylm_lat' = [ylm_lat EXCEPT ![c] = k]
        /\ ct_lat' = [ct_lat EXCEPT ![c] = x]
        /\ legendre' = [legendre EXCEPT ![k] = filling]
        /\ filled' = [filled EXCEPT ![c] = IF Fills(c, x) THEN used ELSE @]
        /\ ifft_lat' = [ifft_lat EXCEPT ![c] = p]
        /\ nphi_lat' = [nphi_lat EXCEPT ![c] = call.nphi]
        /\ plans' = [rest EXCEPT ![p] = IF remade THEN call.nphi ELSE @]
        /\ ub' = IF ifft_lat[c] # NULL /\ plans[ifft_lat[c]] = Free
                 THEN "destroyed plan" ELSE ub
        /\ mingled' = IF \E d \in Live \ {c} : ifft_lat[d] = p THEN mingled \cup {c} ELSE mingled
        /\ UNCHANGED <<sht_data, info, heap, resetting>>
  BY DEF SH_to_lat
<1>2. /\ LatTypeOK /\ LatTogether /\ LatApart /\ LatPlans /\ LatSizes /\ LatOfFilling
  BY DEF LatInv
<1>3. ShareInv' /\ Live' = Live
  BY <1>1, LatListInv
<1>4. Live \subseteq Config
  BY LiveInfo DEF ShareInv
<1>5. used \in SUBSET Entry /\ used # {}
  BY <1>2, UsedIn
<1>6. x \in Cost /\ x # NoLat /\ call.nphi \in Nat \ {0} /\ NULL \notin Buffer /\ Free \notin Nat
  BY LatAssumption
<1>7. k \in Buffer /\ (ylm_lat[c] = NULL => legendre[k] = Free) /\ (ylm_lat[c] # NULL => k = ylm_lat[c])
  BY <1>2, <1>4 DEF LatTypeOK, Vacant
<1>8. /\ p \in Buffer
      /\ remade => rest[p] = Free
      /\ ~remade => p = ifft_lat[c] /\ rest = plans /\ nphi_lat[c] = call.nphi
  <2>1. CASE remade
    BY <2>1 DEF Vacant
  <2>2. CASE ~remade
    BY <1>2, <1>4, <1>6, <2>2 DEF LatTypeOK, LatTogether, Replans, Rest
  <2> QED BY <2>1, <2>2
<1>9. rest \in [Buffer -> Nat \cup {Free}]
  BY <1>2, <1>4 DEF Rest, LatTypeOK
<1>10. \A b \in Buffer : b # ifft_lat[c] => rest[b] = plans[b]
  BY <1>2, <1>4 DEF Rest, LatTypeOK
<1>11. filling \in [Entry -> Cost \cup {Unset}]
  <2>1. table \in [Entry -> Cost \cup {Unset}]
    BY <1>2, <1>4 DEF LatTypeOK, LatTogether
  <2> HIDE DEF table
  <2> QED BY <1>6, <2>1
<1>12. \A e \in used : Fills(c, x) => filling[e] = x
  BY <1>5
<1>13. ~ Fills(c, x) => x = ct_lat[c] /\ ylm_lat[c] # NULL /\ filling = legendre[ylm_lat[c]]
  <2>1. ASSUME ~ Fills(c, x) PROVE x = ct_lat[c] /\ ylm_lat[c] # NULL
    BY <1>2, <1>4, <1>6, <2>1 DEF Fills, LatTogether
  <2>2. ASSUME ~ Fills(c, x), ylm_lat[c] # NULL PROVE filling = legendre[ylm_lat[c]]
    <3>1. legendre[ylm_lat[c]] \in [Entry -> Cost \cup {Unset}]
      BY <1>2, <1>4, <2>2 DEF LatTypeOK, LatTogether
    <3> QED BY <2>2, <3>1
  <2> QED BY <2>1, <2>2
<1> HIDE DEF remade, rest, used, table, filling
<1>14. ASSUME NEW d \in Config \ {c}, ylm_lat[d] # NULL, d \notin mingled PROVE k # ylm_lat[d]
  BY <1>2, <1>4, <1>7, <1>14 DEF LatApart, LatTogether
<1>15. ASSUME NEW d \in Config \ {c}, ylm_lat[d] = k PROVE c \in mingled
  BY <1>2, <1>4, <1>6, <1>7, <1>15 DEF LatApart, LatTogether
<1>16. ASSUME NEW d \in Config \ {c}, ifft_lat[d] # NULL, d \notin mingled
       PROVE  p # ifft_lat[d] /\ rest[ifft_lat[d]] = plans[ifft_lat[d]]
  <2>1. d \in Live /\ ifft_lat[d] \in Buffer /\ ifft_lat[c] # ifft_lat[d]
    BY <1>2, <1>4, <1>16 DEF LatApart, LatTogether, LatTypeOK
  <2>2. rest[ifft_lat[d]] = plans[ifft_lat[d]] /\ plans[ifft_lat[d]] = nphi_lat[d]
    BY <1>2, <1>10, <1>16, <2>1 DEF LatPlans
  <2>3. nphi_lat[d] \in Nat
    BY <1>2 DEF LatTypeOK
  <2> QED BY <1>6, <1>8, <2>1, <2>2, <2>3
<1>17. mingled \subseteq mingled' /\ mingled' \subseteq mingled \cup {c}
       /\ (c \notin mingled' => \A d \in Live \ {c} : ifft_lat[d] # p)
  BY <1>1
<1>18. LatTypeOK'
  <2>1. mingled' \subseteq Live'
    BY <1>2, <1>3, <1>17 DEF LatTypeOK
  <2>2. /\ ylm_lat' \in [Config -> Buffer \cup {NULL}] /\ ct_lat' \in [Config -> Cost \cup {NoLat}]
        /\ ifft_lat' \in [Config -> Buffer \cup {NULL}] /\ nphi_lat' \in [Config -> Nat]
    BY <1>1, <1>2, <1>4, <1>6, <1>7, <1>8 DEF LatTypeOK
  <2>3. filled' \in [Config -> SUBSET Entry]
    BY <1>1, <1>2, <1>5 DEF LatTypeOK
  <2>4. legendre' \in [Buffer -> [Entry -> Cost \cup {Unset}] \cup {Free}]
    BY <1>1, <1>2, <1>11 DEF LatTypeOK
  <2>5. plans' \in [Buffer -> Nat \cup {Free}]
    BY <1>1, <1>6, <1>9
  <2> QED BY <2>1, <2>2, <2>3, <2>4, <2>5 DEF LatTypeOK
<1>19. /\ ylm_lat'[c] = k /\ ct_lat'[c] = x /\ ifft_lat'[c] = p /\ nphi_lat'[c] = call.nphi
       /\ legendre'[k] = filling
       /\ filled'[c] = IF Fills(c, x) THEN used ELSE filled[c]
  BY <1>1, <1>2, <1>4, <1>7 DEF LatTypeOK
<1>20. \A d \in Config \ {c} : /\ ylm_lat'[d] = ylm_lat[d] /\ ct_lat'[d] = ct_lat[d]
                               /\ ifft_lat'[d] = ifft_lat[d] /\ nphi_lat'[d] = nphi_lat[d]
                               /\ filled'[d] = filled[d]
  BY <1>1, <1>2 DEF LatTypeOK
<1>21. \A b \in Buffer \ {k} : legendre'[b] = legendre[b]
  BY <1>1, <1>2 DEF LatTypeOK
<1>22. \A b \in Buffer \ {p} : plans'[b] = rest[b]
  BY <1>1, <1>9
<1>23. plans'[p] = IF remade THEN call.nphi ELSE plans[p]
  BY <1>1, <1>8, <1>9
<1>24. LatTogether'
  <2>1. filling # Free
    BY <1>11, LatAssumption
  <2>2. \A b \in Buffer : legendre[b] # Free => legendre'[b] # Free
    BY <1>19, <1>21, <2>1
  <2>3. ASSUME NEW d \in Config
        PROVE  /\ ylm_lat'[d] = NULL <=> ct_lat'[d] = NoLat
               /\ ylm_lat'[d] = NULL <=> ifft_lat'[d] = NULL
               /\ ylm_lat'[d] = NULL <=> nphi_lat'[d] = 0
               /\ ylm_lat'[d] # NULL => d \in Live' /\ legendre'[ylm_lat'[d]] # Free
    <3>1. CASE d = c
      BY <1>3, <1>6, <1>7, <1>8, <1>19, <2>1, <3>1
    <3>2. CASE d # c
      BY <1>2, <1>3, <1>20, <2>2, <3>2 DEF LatTogether, LatTypeOK
    <3> QED BY <3>1, <3>2
  <2> QED BY <2>3 DEF LatTogether
<1>25. LatApart'
  <2> SUFFICES ASSUME NEW a \in Config, NEW b \in Config, a # b, a \notin mingled'
               PROVE  /\ ylm_lat'[a] # NULL => ylm_lat'[b] # ylm_lat'[a]
                      /\ ifft_lat'[a] # NULL => ifft_lat'[b] # ifft_lat'[a]
    BY DEF LatApart
  <2>1. CASE a = c
    <3>1. ifft_lat[b] = p => b \in Live
      BY <1>2, <1>6, <1>8 DEF LatTogether
    <3> QED BY <1>15, <1>17, <1>19, <1>20, <2>1, <3>1
  <2>2. CASE b = c
    BY <1>14, <1>16, <1>17, <1>19, <1>20, <2>2
  <2>3. CASE a # c /\ b # c
    BY <1>2, <1>17, <1>20, <2>3 DEF LatApart
  <2> QED BY <2>1, <2>2, <2>3
<1>26. LatPlans'
  <2> SUFFICES ASSUME NEW d \in Live, d \notin mingled', ifft_lat'[d] # NULL
               PROVE  plans'[ifft_lat'[d]] = nphi_lat'[d]
    BY <1>3 DEF LatPlans
  <2>1. CASE d = c
    <3>1. ~remade => plans[p] = call.nphi
      BY <1>2, <1>4, <1>6, <1>8, <1>17, <2>1 DEF LatPlans
    <3> QED BY <1>19, <1>23, <2>1, <3>1
  <2>2. CASE d # c
    <3>1. d \in Config \ {c} /\ d \notin mingled /\ ifft_lat[d] # NULL /\ ifft_lat[d] \in Buffer
      BY <1>2, <1>4, <1>17, <1>20, <2>2 DEF LatTypeOK
    <3>2. plans'[ifft_lat[d]] = plans[ifft_lat[d]]
      BY <1>16, <1>22, <3>1
    <3> QED BY <1>2, <1>20, <3>1, <3>2 DEF LatPlans
  <2> QED BY <2>1, <2>2
<1>27. LatSizes'
  BY <1>1, <1>2, <1>3 DEF LatSizes
<1>28. LatOfFilling'
  <2> SUFFICES ASSUME NEW d \in Live, d \notin mingled', ct_lat'[d] # NoLat
               PROVE  /\ ylm_lat'[d] # NULL /\ filled'[d] # {}
                      /\ \A e \in filled'[d] : legendre'[ylm_lat'[d]][e] = ct_lat'[d]
    BY <1>3 DEF LatOfFilling
  <2>1. CASE d = c
    <3>1. CASE Fills(c, x)
      BY <1>5, <1>6, <1>7, <1>12, <1>19, <2>1, <3>1
    <3>2. CASE ~ Fills(c, x)
      <4>1. c \in Live \ mingled /\ ct_lat[c] # NoLat
        BY <1>6, <1>13, <1>17, <2>1, <3>2
      <4>2. filled[c] # {} /\ \A e \in filled[c] : legendre[ylm_lat[c]][e] = ct_lat[c]
        BY <1>2, <4>1 DEF LatOfFilling
      <4> QED BY <1>6, <1>7, <1>13, <1>19, <2>1, <3>2, <4>2
    <3> QED BY <3>1, <3>2
  <2>2. CASE d # c
    <3>1. d \in Config \ {c} /\ d \notin mingled /\ d \in Live /\ ct_lat[d] # NoLat
      BY <1>4, <1>17, <1>20, <2>2
    <3>2. ylm_lat[d] # NULL /\ ylm_lat[d] \in Buffer
      BY <1>2, <3>1 DEF LatTogether, LatTypeOK
    <3>3. legendre'[ylm_lat[d]] = legendre[ylm_lat[d]]
      BY <1>14, <1>21, <3>1, <3>2
    <3> QED BY <1>2, <1>20, <3>1, <3>2, <3>3 DEF LatOfFilling
  <2> QED BY <2>1, <2>2
<1> QED BY <1>3, <1>18, <1>24, <1>25, <1>26, <1>27, <1>28 DEF LatInv

(* A struct that is cleared has no cache, and takes none from another.       *)
LEMMA BlankInv ==
  ASSUME ShareInv, LatInv, NEW c \in Config, Blank(c),
         Live' \subseteq Live \cup {c}, Live \ {c} \subseteq Live', LatSizes'
  PROVE  LatInv'
<1> DEFINE unset == [e \in Entry |-> Unset]
<1>1. /\ ylm_lat' = [ylm_lat EXCEPT ![c] = NULL] /\ ifft_lat' = [ifft_lat EXCEPT ![c] = NULL]
      /\ ct_lat' = [ct_lat EXCEPT ![c] = NoLat] /\ nphi_lat' = [nphi_lat EXCEPT ![c] = 0]
      /\ filled' = [filled EXCEPT ![c] = {}] /\ mingled' = mingled \ {c}
      /\ legendre' = Forgotten(c, ylm_lat, legendre, unset)
      /\ plans' = Forgotten(c, ifft_lat, plans, 0)
  BY DEF Blank, FreshCt
<1>2. /\ LatTypeOK /\ LatTogether /\ LatApart /\ LatPlans /\ LatOfFilling
  BY DEF LatInv
<1>3. Free \notin Nat /\ NULL \notin Buffer /\ unset \in [Entry -> Cost \cup {Unset}] /\ unset # Free
  BY LatAssumption
<1> HIDE DEF unset
<1>4. /\ legendre' \in [Buffer -> [Entry -> Cost \cup {Unset}] \cup {Free}]
      /\ \A b \in Buffer : legendre[b] # Free => legendre'[b] # Free
      /\ \A d \in Live \ {c} : ylm_lat[d] # NULL => legendre'[ylm_lat[d]] = legendre[ylm_lat[d]]
  BY <1>1, <1>2, <1>3 DEF LatTypeOK, Forgotten
<1>5. /\ plans' \in [Buffer -> Nat \cup {Free}]
      /\ \A d \in Live \ {c} : ifft_lat[d] # NULL => plans'[ifft_lat[d]] = plans[ifft_lat[d]]
  BY <1>1, <1>2, <1>3 DEF LatTypeOK, Forgotten
<1>6. /\ ylm_lat'[c] = NULL /\ ct_lat'[c] = NoLat /\ ifft_lat'[c] = NULL /\ nphi_lat'[c] = 0
  BY <1>1, <1>2 DEF LatTypeOK
<1>7. \A d \in Config \ {c} : /\ ylm_lat'[d] = ylm_lat[d] /\ ct_lat'[d] = ct_lat[d]
                              /\ ifft_lat'[d] = ifft_lat[d] /\ nphi_lat'[d] = nphi_lat[d]
                              /\ filled'[d] = filled[d]
  BY <1>1, <1>2 DEF LatTypeOK
<1>8. Live \subseteq Config
  BY LiveInfo DEF ShareInv
<1>9. LatTypeOK'
  <2>1. mingled' \subseteq Live'
    BY <1>1, <1>2 DEF LatTypeOK
  <2>2. /\ ylm_lat' \in [Config -> Buffer \cup {NULL}] /\ ct_lat' \in [Config -> Cost \cup {NoLat}]
        /\ ifft_lat' \in [Config -> Buffer \cup {NULL}] /\ nphi_lat' \in [Config -> Nat]
        /\ filled' \in [Config -> SUBSET Entry]
    BY <1>1, <1>2 DEF LatTypeOK
  <2> QED BY <1>4, <1>5, <2>1, <2>2 DEF LatTypeOK
<1>10. LatTogether'
  <2> SUFFICES ASSUME NEW d \in Config
               PROVE  /\ ylm_lat'[d] = NULL <=> ct_lat'[d] = NoLat
                      /\ ylm_lat'[d] = NULL <=> ifft_lat'[d] = NULL
                      /\ ylm_lat'[d] = NULL <=> nphi_lat'[d] = 0
                      /\ ylm_lat'[d] # NULL => d \in Live' /\ legendre'[ylm_lat'[d]] # Free
    BY DEF LatTogether
  <2>1. CASE d = c
    BY <1>6, <2>1
  <2>2. CASE d # c
    BY <1>2, <1>4, <1>7, <2>2 DEF LatTogether, LatTypeOK
  <2> QED BY <2>1, <2>2
<1>11. LatApart'
  <2> SUFFICES ASSUME NEW a \in Config, NEW b \in Config, a # b, a \notin mingled'
               PROVE  /\ ylm_lat'[a] # NULL => ylm_lat'[b] # ylm_lat'[a]
                      /\ ifft_lat'[a] # NULL => ifft_lat'[b] # ifft_lat'[a]
    BY DEF LatApart
  <2>1. CASE a = c \/ b = c
    BY <1>6, <2>1
  <2>2. CASE a # c /\ b # c
    BY <1>1, <1>2, <1>7, <2>2 DEF LatApart
  <2> QED BY <2>1, <2>2
<1>12. LatPlans'
  <2> SUFFICES ASSUME NEW d \in Live', d \notin mingled', ifft_lat'[d] # NULL
               PROVE  plans'[ifft_lat'[d]] = nphi_lat'[d]
    BY DEF LatPlans
  <2>1. d \in Live \ {c} /\ d \in Config \ {c} /\ d \notin mingled
    BY <1>1, <1>6, <1>8
  <2> QED BY <1>2, <1>5, <1>7, <2>1 DEF LatPlans
<1>13. LatOfFilling'
  <2> SUFFICES ASSUME NEW d \in Live', d \notin mingled', ct_lat'[d] # NoLat
               PROVE  /\ ylm_lat'[d] # NULL /\ filled'[d] # {}
                      /\ \A e \in filled'[d] : legendre'[ylm_lat'[d]][e] = ct_lat'[d]
    BY DEF LatOfFilling
  <2>1. d \in Live \ {c} /\ d \in Config \ {c} /\ d \notin mingled
    BY <1>1, <1>6, <1>8
  <2> QED BY <1>2, <1>4, <1>7, <2>1 DEF LatOfFilling
<1> QED BY <1>9, <1>10, <1>11, <1>12, <1>13 DEF LatInv

(* A clone has the caches of its base, and both are mingled.                 *)
LEMMA CopiedInv ==
  ASSUME ShareInv, LatInv, NEW base \in Live, NEW c \in Config \ Live, Copied(base, c),
         Live' = Live \cup {c}, LatSizes'
  PROVE  LatInv'
<1>1. /\ ylm_lat' = [ylm_lat EXCEPT ![c] = ylm_lat[base]]
      /\ ifft_lat' = [ifft_lat EXCEPT ![c] = ifft_lat[base]]
      /\ ct_lat' = [ct_lat EXCEPT ![c] = ct_lat[base]]
      /\ nphi_lat' = [nphi_lat EXCEPT ![c] = nphi_lat[base]]
      /\ filled' = [filled EXCEPT ![c] = filled[base]]
      /\ mingled' = IF ylm_lat[base] = NULL THEN mingled ELSE mingled \cup {base, c}
      /\ legendre' = legendre /\ plans' = plans
  BY DEF Copied, heaps
<1>2. /\ LatTypeOK /\ LatTogether /\ LatApart /\ LatPlans /\ LatOfFilling
  BY DEF LatInv
<1>3. Live \subseteq Config /\ base \in Config /\ base # c
  BY LiveInfo DEF ShareInv
<1>4. /\ ylm_lat'[c] = ylm_lat[base] /\ ct_lat'[c] = ct_lat[base]
      /\ ifft_lat'[c] = ifft_lat[base] /\ nphi_lat'[c] = nphi_lat[base]
  BY <1>1, <1>2 DEF LatTypeOK
<1>5. \A d \in Config \ {c} : /\ ylm_lat'[d] = ylm_lat[d] /\ ct_lat'[d] = ct_lat[d]
                              /\ ifft_lat'[d] = ifft_lat[d] /\ nphi_lat'[d] = nphi_lat[d]
                              /\ filled'[d] = filled[d]
  BY <1>1, <1>2 DEF LatTypeOK
<1>6. LatTypeOK'
  <2>1. mingled' \subseteq Live'
    BY <1>1, <1>2 DEF LatTypeOK
  <2>2. /\ ylm_lat' \in [Config -> Buffer \cup {NULL}] /\ ct_lat' \in [Config -> Cost \cup {NoLat}]
        /\ ifft_lat' \in [Config -> Buffer \cup {NULL}] /\ nphi_lat' \in [Config -> Nat]
        /\ filled' \in [Config -> SUBSET Entry]
    BY <1>1, <1>2, <1>3 DEF LatTypeOK
  <2> QED BY <1>1, <1>2, <2>1, <2>2 DEF LatTypeOK
<1>7. LatTogether'
  BY <1>1, <1>2, <1>3, <1>4, <1>5 DEF LatTogether
<1>8. LatApart'
  <2> SUFFICES ASSUME NEW a \in Config, NEW b \in Config, a # b, a \notin mingled'
               PROVE  /\ ylm_lat'[a] # NULL => ylm_lat'[b] # ylm_lat'[a]
                      /\ ifft_lat'[a] # NULL => ifft_lat'[b] # ifft_lat'[a]
    BY DEF LatApart
  <2>1. CASE a = c
    BY <1>1, <1>2, <1>3, <1>4, <2>1 DEF LatTogether
  <2>2. CASE b = c
    BY <1>1, <1>2, <1>3, <1>4, <1>5, <2>2 DEF LatTogether, LatApart
  <2>3. CASE a # c /\ b # c
    BY <1>1, <1>2, <1>5, <2>3 DEF LatApart
  <2> QED BY <2>1, <2>2, <2>3
<1>9. LatPlans'
  <2> SUFFICES ASSUME NEW d \in Live', d \notin mingled', ifft_lat'[d] # NULL
               PROVE  plans'[ifft_lat'[d]] = nphi_lat'[d]
    BY DEF LatPlans
  <2>1. d # c
    BY <1>1, <1>2, <1>3, <1>4 DEF LatTogether
  <2> QED BY <1>1, <1>2, <1>3, <1>5, <2>1 DEF LatPlans
<1>10. LatOfFilling'
  <2> SUFFICES ASSUME NEW d \in Live', d \notin mingled', ct_lat'[d] # NoLat
               PROVE  /\ ylm_lat'[d] # NULL /\ filled'[d] # {}
                      /\ \A e \in filled'[d] : legendre'[ylm_lat'[d]][e] = ct_lat'[d]
    BY DEF LatOfFilling
  <2>1. d # c
    BY <1>1, <1>2, <1>3, <1>4 DEF LatTogether
  <2> QED BY <1>1, <1>2, <1>3, <1>5, <2>1 DEF LatOfFilling
<1> QED BY <1>6, <1>7, <1>8, <1>9, <1>10 DEF LatInv

(* Every call of a program that evaluates along latitudes keeps them right.  *)
LEMMA LatStep ==
  ASSUME ShareInv, LatInv, LatNext
  PROVE  ShareInv' /\ LatInv'
<1>1. TypeOK /\ ListOK /\ LatSizes /\ Live \subseteq Config /\ sht_data \in Seq(Config)
      /\ info \in [Config -> Info \cup {NULL}]
      /\ \A i, j \in DOMAIN sht_data : sht_data[i] = sht_data[j] => i = j
  BY LiveInfo DEF ShareInv, LatInv, ListOK, TypeOK
<1>2. ASSUME NEW c \in Config, NEW s \in Size, NEW n \in Norm, shtns_create(c, s, n), Blank(c)
      PROVE  ShareInv' /\ LatInv'
  <2>1. ShareInv'
    BY <1>2, StepInv DEF Next
  <2>2. info' = [info EXCEPT ![c] = NewInfo(s, n)] /\ sht_data' = <<c>> \o sht_data /\ info[c] = NULL
    BY <1>2 DEF shtns_create
  <2>3. Live' = Live \cup {c} /\ c \notin Live
    BY <1>1, <2>2, PushHead DEF Live, ListOK
  <2>4. LatSizes'
    <3>1. /\ info'[c].lmax = s.lmax /\ info'[c].mres = s.mres /\ info'[c].mmax <= s.mmax
      BY <1>1, <2>2, SizeAssumption DEF NewInfo, ValidSize
    <3>2. \A d \in Live : info'[d] = info[d]
      BY <1>1, <2>2, <2>3
    <3> QED BY <1>1, <2>3, <3>1, <3>2 DEF LatSizes
  <2> QED BY <1>2, <2>1, <2>3, <2>4, BlankInv
<1>3. ASSUME NEW base \in Live, NEW c \in Config, NEW mmax \in 0 .. info[base].mmax,
             shtns_create_with_grid(base, c, mmax), Copied(base, c)
      PROVE  ShareInv' /\ LatInv'
  <2>1. ShareInv'
    BY <1>3, StepInv DEF Next
  <2>2. info' = [info EXCEPT ![c] = [info[base] EXCEPT !.mmax = mmax]]
        /\ sht_data' = <<c>> \o sht_data /\ info[c] = NULL
    BY <1>3 DEF shtns_create_with_grid
  <2>3. Live' = Live \cup {c} /\ c \notin Live
    BY <1>1, <2>2, PushHead DEF Live, ListOK
  <2>4. LatSizes'
    <3>1. PICK s \in Size : /\ info[base].lmax = s.lmax /\ info[base].mres = s.mres
                            /\ info[base].mmax <= s.mmax
      BY <1>1 DEF LatSizes
    <3>2. info[base] \in Info /\ s.mmax \in Nat
      BY <1>1, LiveInfo, SizeAssumption
    <3>3. info'[c] = [info[base] EXCEPT !.mmax = mmax]
      BY <1>1, <2>2
    <3>4. info'[c].lmax = s.lmax /\ info'[c].mres = s.mres /\ info'[c].mmax <= s.mmax
      BY <3>1, <3>2, <3>3 DEF Info
    <3>5. \A d \in Live : info'[d] = info[d]
      BY <1>1, <2>2, <2>3
    <3> QED BY <1>1, <2>3, <3>4, <3>5 DEF LatSizes
  <2> QED BY <1>3, <2>1, <2>3, <2>4, CopiedInv
<1>4. ASSUME NEW c \in Config, shtns_destroy(c), Blank(c)
      PROVE  ShareInv' /\ LatInv'
  <2>1. ShareInv'
    BY <1>4, StepInv DEF Next
  <2>2. c \in Live /\ info' = [info EXCEPT ![c] = NULL] /\ sht_data' = Unlink(c)
    BY <1>4 DEF shtns_destroy, Destroy
  <2>3. Live' = Live \ {c}
    BY <1>1, <2>2, UnlinkOne DEF Live
  <2>4. LatSizes'
    BY <1>1, <2>2, <2>3 DEF LatSizes
  <2> QED BY <1>4, <2>1, <2>3, <2>4, BlankInv
<1>5. ASSUME NEW c \in Live, NEW x \in Cost, NEW call \in LatCall, SH_to_lat(c, x, call)
      PROVE  ShareInv' /\ LatInv'
  BY <1>5, LatCallInv
<1> QED BY <1>2, <1>3, <1>4, <1>5 DEF LatNext

(* Tags stay what they are along latitudes.                                  *)
LEMMA SlotLat ==
  ASSUME ShareInv, SlotInv, LatNext, Untagged, ShareInv'
  PROVE  SlotInv'
<1>1. ASSUME Next PROVE SlotInv'
  BY <1>1, SlotStep DEF FortranNext
<1>2. ASSUME NEW c \in Live, NEW x \in Cost, NEW call \in LatCall, SH_to_lat(c, x, call)
      PROVE  SlotInv'
  BY DEF Untagged, SlotInv
<1> QED BY <1>1, <1>2 DEF LatNext, Next

(* No cache, no tag and no configuration at first.                           *)
LEMMA LocalInitInv == LocalInit => ShareInv /\ SlotInv /\ LatInv
<1> SUFFICES ASSUME LocalInit PROVE ShareInv /\ SlotInv /\ LatInv
  OBVIOUS
<1>1. ShareInv /\ SlotInv /\ LatInit /\ sht_data = <<>>
  BY SlotInit DEF LocalInit, FortranInit, Init
<1>2. Live = {}
  BY <1>1 DEF Live, Range
<1>3. LatTypeOK /\ LatTogether /\ LatApart
  BY <1>1, <1>2, LatAssumption DEF LatInit, LatTypeOK, LatTogether, LatApart
<1>4. LatPlans /\ LatSizes /\ LatOfFilling
  BY <1>2 DEF LatPlans, LatSizes, LatOfFilling
<1> QED BY <1>1, <1>3, <1>4 DEF LatInv

(* Neither a call along a latitude nor one that goes by tags breaks what the *)
(* other keeps.                                                              *)
LEMMA LocalStep ==
  ShareInv /\ SlotInv /\ LatInv /\ [LocalNext]_<<vars, shtns_configs, latvars>>
    => ShareInv' /\ SlotInv' /\ LatInv'
<1> SUFFICES ASSUME ShareInv, SlotInv, LatInv, [LocalNext]_<<vars, shtns_configs, latvars>>
             PROVE  ShareInv' /\ SlotInv' /\ LatInv'
  OBVIOUS
<1>1. CASE LatNext /\ Untagged
  BY <1>1, LatStep, SlotLat
<1>2. ASSUME Live' = Live, info' = info, UNCHANGED latvars
      PROVE  LatInv'
  BY <1>2 DEF latvars, LatInv, LatTypeOK, LatTogether, LatApart, LatPlans, LatSizes, LatOfFilling
<1>3. CASE TagNext /\ UNCHANGED latvars
  <2>1. ShareInv' /\ SlotInv'
    BY <1>3, SlotStep DEF FortranNext
  <2>2. Live' = Live /\ info' = info
    <3>1. ASSUME NEW n \in Tag, shtns_load_cfg(n) PROVE Live' = Live /\ info' = info
      BY <3>1, LoadReorders DEF shtns_load_cfg
    <3>2. ASSUME NEW n \in Tag, shtns_save_cfg(n) PROVE Live' = Live /\ info' = info
      BY <3>2 DEF shtns_save_cfg, vars, Live
    <3> QED BY <1>3, <3>1, <3>2 DEF TagNext
  <2> QED BY <1>2, <1>3, <2>1, <2>2
<1>4. CASE UNCHANGED <<vars, shtns_configs, latvars>>
  <2>1. ShareInv' /\ SlotInv'
    BY <1>4, SlotStep
  <2>2. Live' = Live /\ info' = info
    BY <1>4 DEF vars, Live
  <2> QED BY <1>2, <1>4, <2>1, <2>2
<1> QED BY <1>1, <1>3, <1>4 DEF LocalNext

(* The invariant of the list, of the tags and of the caches holds in every   *)
(* state of a program that uses all three.                                   *)
THEOREM LocalInvariant == LocalSpec => [](ShareInv /\ SlotInv /\ LatInv)
<1> QED BY LocalInitInv, LocalStep, PTL DEF LocalSpec

(* No call that truncates like the filling of its table reads an entry of    *)
(* another latitude, or one that was never computed.                         *)
THEOREM LatitudesRight == LocalSpec => []LatOfFilling
<1>1. ShareInv /\ SlotInv /\ LatInv => LatOfFilling
  BY DEF LatInv
<1> QED BY <1>1, LocalInvariant, PTL

(* A plan that is kept is there, for the longitudes of the call, and nobody  *)
(* else's, as long as none of its blocks is a clone's too.                   *)
THEOREM PlansRight == LocalSpec => []LatPlanned
<1>1. ASSUME ShareInv, LatInv, NEW c \in Live \ mingled, NEW call \in LatCall,
             ~ Replans(c, call.nphi)
      PROVE  /\ ifft_lat[c] # NULL /\ plans[ifft_lat[c]] = call.nphi
             /\ \A d \in Live \ {c} : ifft_lat[d] # ifft_lat[c]
  <2>1. Live \subseteq Config
    BY <1>1, LiveInfo DEF ShareInv
  <2>2. LatTogether /\ LatApart /\ LatPlans
    BY <1>1 DEF LatInv
  <2>3. nphi_lat[c] = call.nphi /\ call.nphi # 0
    BY <1>1, LatAssumption DEF Replans
  <2>4. ifft_lat[c] # NULL
    BY <2>1, <2>2, <2>3 DEF LatTogether
  <2> QED BY <2>1, <2>2, <2>3, <2>4 DEF LatApart, LatPlans
<1>2. ShareInv /\ SlotInv /\ LatInv => LatPlanned
  BY <1>1 DEF LatPlanned
<1> QED BY <1>2, LocalInvariant, PTL
=============================================================================
