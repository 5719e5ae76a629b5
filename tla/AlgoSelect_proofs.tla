------------------------ MODULE AlgoSelect_proofs ------------------------
(* Whatever the file holds, a configuration only calls functions that exist  *)
(* for its grid: names are looked up in the table of the grid that is set,   *)
(* which holds none of the functions for another one but in the row of the   *)
(* odd numbers of latitudes, and no line of an even grid has its name.       *)
EXTENDS AlgoSelect, WellFoundedInduction, TLAPS

LEMMA TwoFit ==
  ASSUME NEW c \in Call
  PROVE  Fits(c, 0) /\ Fits(c, 2)
<1> DEFINE h == (c.nlat + 1) \div 2
<1>1. c.nlat \in Nat /\ c.nlat >= 4 * VSIZE2 /\ VSIZE2 \in Nat \ {0}
  BY CallAssumption
<1>2. h \in Nat /\ h >= 2 * VSIZE2
  BY <1>1, SMT
<1> HIDE DEF h
<1>3. h \div VSIZE2 \in Nat
  BY <1>1, <1>2, SMT
<1> DEFINE q == h \div VSIZE2
<1>4. /\ q \in Nat /\ h < VSIZE2 * (q + 1)
  BY <1>1, <1>2, <1>3, SMT
<1> HIDE DEF q
<1>5. 2 <= q
  <2> SUFFICES ASSUME q <= 1 PROVE FALSE
    BY <1>4
  <2>1. CASE q = 0
    BY <2>1, <1>1, <1>2, <1>4
  <2>2. CASE q = 1
    BY <2>2, <1>1, <1>2, <1>4
  <2> QED
    BY <2>1, <2>2, <1>4
<1> QED
  BY <1>4, <1>5 DEF Fits, q, h

(* What is available is right, but in the row of the odd grids. *)
LEMMA AvailableRight ==
  ASSUME NEW c \in Call, NEW v \in Variant, NEW a \in Alg, NEW t \in Typ, NEW old,
         Available(old, c, v, a, t) # NULL,
         v = "std" => (a.kind = "odd" <=> Odd(c))
  PROVE  Available(old, c, v, a, t) \in Right(c, v, t)
<1> DEFINE f == Available(old, c, v, a, t)
<1>1. Fits(c, 0) /\ Way \subseteq Nat
  BY TwoFit, CallAssumption
<1>2. CASE a = Algo("odd", 0)
  BY <1>1, <1>2 DEF Available, Right, Function, Family, Algo, Variant
<1>3. CASE a = Algo("s+v", 0)
  BY <1>1, <1>3 DEF Available, Right, Function, Family, Algo, Variant
<1>4. ASSUME NEW w \in Way, a = Algo("fly", w) PROVE f \in Right(c, v, t)
  BY <1>1, <1>4 DEF Available, Right, Function, Family, Algo, Variant, Pointer
<1>5. ASSUME NEW w \in Way, a = Algo("omp", w) PROVE f \in Right(c, v, t)
  BY <1>1, <1>5 DEF Available, Right, Function, Family, Algo, Variant, Pointer
<1> QED
  BY <1>2, <1>3, <1>4, <1>5 DEF Alg

(* The default exists for every type, and is right. *)
LEMMA DefaultRight ==
  ASSUME NEW c \in Call, NEW old, NEW v \in Variant, NEW t \in Typ
  PROVE  /\ Default(Filled(old, c), c)[v][t] \in Right(c, v, t)
         /\ Default(Filled(old, c), c)[v][t] \in Offered(Filled(old, c), v, t)
<1> DEFINE algo == IF c.nthreads > 1 /\ Filled(old, c)["std"][Algo("omp", 2)]["syn"] # NULL
                   THEN Algo("omp", 2) ELSE Algo("fly", 2)
           a == IF v = "std" /\ Odd(c) THEN Algo("odd", 0) ELSE algo
<1>1. /\ Algo("omp", 2) \in Alg /\ Algo("fly", 2) \in Alg /\ Algo("odd", 0) \in Alg
      /\ "syn" \in Typ /\ "std" \in Variant
  BY CallAssumption DEF Alg, Variant
<1>2. \A b \in Alg, u \in Variant, s \in Typ : Filled(old, c)[u][b][s] = Available(old, c, u, b, s)
  BY DEF Filled
<1>3. Default(Filled(old, c), c)[v][t] = Filled(old, c)[v][a][t]
  BY DEF Default
<1>4. a \in Alg
  BY <1>1
<1>5. v = "std" => (a.kind = "odd" <=> Odd(c))
  BY DEF Algo
<1>6. Available(old, c, v, a, t) # NULL
  <2>1. Fits(c, 2) /\ c.nphi \in Nat /\ c.nthreads \in Nat
    BY TwoFit, CallAssumption
  <2>2. \A fam \in {"fly", "omp", "m", "m0"} : Pointer(fam, 2, t) # NULL
    <3>1. Compiled("fly", 2, t) /\ Compiled("omp", 2, t)
      BY DEF Compiled
    <3>2. Compiled("m", 2, t)
      BY DEF Compiled
    <3>3. Compiled("m0", 2, t)
      BY DEF Compiled
    <3> QED
      BY <3>1, <3>2, <3>3 DEF Pointer, NULL
  <2>3. CASE v = "std" /\ Odd(c)
    BY <2>3 DEF Available, Algo, NULL
  <2>4. CASE ~ (v = "std" /\ Odd(c)) /\ algo = Algo("omp", 2)
    <3>1. Available(old, c, "std", Algo("omp", 2), "syn") # NULL
      BY <2>4, <1>1, <1>2 DEF Algo
    <3>2. c.nphi # 1
      BY <3>1 DEF Available, Algo
    <3> QED
      BY <2>1, <2>2, <2>4, <3>2 DEF Available, Algo
  <2>5. CASE ~ (v = "std" /\ Odd(c)) /\ algo = Algo("fly", 2)
    <3>1. c.nphi # 1 => c.nthreads <= 1
      <4> SUFFICES ASSUME c.nphi # 1, c.nthreads > 1 PROVE FALSE
        BY <2>1
      <4>1. Available(old, c, "std", Algo("omp", 2), "syn") # NULL
        BY <2>1, CallAssumption DEF Available, Algo, Pointer, Compiled, NULL
      <4>2. algo = Algo("omp", 2)
        BY <4>1, <1>1, <1>2
      <4> QED
        BY <4>2, <2>5 DEF Algo
    <3> QED
      BY <2>1, <2>2, <2>5, <3>1 DEF Available, Algo, Variant
  <2> QED
    BY <2>3, <2>4, <2>5
<1> HIDE DEF a, algo
<1> QED
  BY <1>2, <1>3, <1>4, <1>5, <1>6, AvailableRight DEF Offered

FromLine(old, c, names) ==
  Loaded(Filled(old, c), Default(Filled(old, c), c), Reread(names))

(* What a line adds to a table is right, in the grids a line may be of.      *)
LEMMA LoadedRight ==
  ASSUME NEW c \in Call, NEW old, NEW names \in [Variant -> [Typ -> Name]],
         ~ Odd(c), \A t \in Typ : names["std"][t].kind # "odd"
  PROVE  \A v \in Variant, t \in Typ :
           /\ FromLine(old, c, names)[v][t] \in Right(c, v, t)
           /\ FromLine(old, c, names)[v][t] \in Offered(Filled(old, c), v, t)
<1> SUFFICES ASSUME NEW v \in Variant, NEW t \in Typ
             PROVE  /\ FromLine(old, c, names)[v][t] \in Right(c, v, t)
                    /\ FromLine(old, c, names)[v][t] \in Offered(Filled(old, c), v, t)
  OBVIOUS
<1> DEFINE funcs == Filled(old, c)
           table == FromLine(old, c, names)
           a == Reread(names)[v][t]
<1>1. a \in Name /\ (v = "std" => a.kind # "odd")
  <2>1. a = names[v][t] \/ a = None
    BY DEF Reread, Variant
  <2>2. names[v][t] \in Name /\ None \in Name /\ None.kind # "odd"
    BY DEF Name, None, Algo
  <2> QED
    BY <2>1, <2>2 DEF Variant
<1>2. table[v][t] = IF a = None \/ funcs[v][a][t] = NULL THEN Default(funcs, c)[v][t]
                    ELSE funcs[v][a][t]
  BY DEF Loaded, FromLine
<1>3. CASE a = None \/ funcs[v][a][t] = NULL
  <2>1. table[v][t] = Default(funcs, c)[v][t]
    BY <1>2, <1>3
  <2> QED
    BY <2>1, DefaultRight
<1>4. CASE a # None /\ funcs[v][a][t] # NULL
  <2>1. a \in Alg
    BY <1>1, <1>4 DEF Name
  <2>2. funcs[v][a][t] = Available(old, c, v, a, t)
    BY <2>1 DEF Filled
  <2>3. table[v][t] = Available(old, c, v, a, t) /\ Available(old, c, v, a, t) # NULL
    BY <1>2, <1>4, <2>2
  <2>4. v = "std" => (a.kind = "odd" <=> Odd(c))
    BY <1>1
  <2>5. Available(old, c, v, a, t) \in Right(c, v, t)
    BY <2>1, <2>3, <2>4, AvailableRight
  <2> QED
    BY <2>1, <2>2, <2>3, <2>5 DEF Offered
<1> QED
  BY <1>3, <1>4

(* A timed algorithm is one of the table, and not that of odd grids.         *)
LEMMA TimedRight ==
  ASSUME NEW c \in Call, NEW old, NEW v \in Variant, NEW t \in Typ, NEW a \in Alg,
         ~ Odd(c), a.kind # "odd", Filled(old, c)[v][a][t] # NULL
  PROVE  Filled(old, c)[v][a][t] \in Right(c, v, t)
<1>1. Filled(old, c)[v][a][t] = Available(old, c, v, a, t)
  BY DEF Filled
<1> QED
  BY <1>1, AvailableRight

(* The algorithms are ranked, so the first one with a function exists.       *)
LEMMA First ==
  ASSUME NEW S \in SUBSET Alg, S # {}
  PROVE  \E a \in S : \A b \in S : Rank(a) <= Rank(b)
<1>1. \A a \in Alg : Rank(a) \in Nat
  <2>1. Way \subseteq Nat
    BY CallAssumption
  <2> QED
    BY <2>1 DEF Alg, Algo, Rank
<1> DEFINE R == {Rank(a) : a \in S}
<1>2. R \subseteq Nat /\ R # {}
  BY <1>1
<1>3. PICK x \in R : \A y \in R : ~ (<<y, x>> \in OpToRel(<, Nat))
  BY <1>2, NatLessThanWellFounded, WFMin
<1>4. \A y \in R : ~ (y < x)
  BY <1>2, <1>3 DEF OpToRel
<1>5. PICK a \in S : Rank(a) = x
  BY <1>3
<1>6. \A b \in S : Rank(b) \in R /\ Rank(b) \in Nat /\ Rank(a) \in Nat
  BY <1>1
<1> HIDE DEF R
<1>7. \A b \in S : ~ (Rank(b) < Rank(a)) /\ Rank(b) \in Nat /\ Rank(a) \in Nat
  BY <1>4, <1>5, <1>6
<1>8. \A b \in S : Rank(a) <= Rank(b)
  BY <1>7
<1> QED
  BY <1>8

(* A line that is written names the functions of its table.                  *)
LEMMA Named ==
  ASSUME TypeOK, NEW p \in Process, NEW v \in Variant, NEW t \in Typ,
         ftable[p][v][t] # NULL,
         ftable[p][v][t] \in Offered(sht_func[p], v, t)
  PROVE  /\ Names(p)[v][t] \in Alg
         /\ sht_func[p][v][Names(p)[v][t]][t] = ftable[p][v][t]
<1> DEFINE S == {a \in Alg : sht_func[p][v][a][t] = ftable[p][v][t]}
<1>1. Names(p)[v][t] = CHOOSE a \in S : \A b \in S : Rank(a) <= Rank(b)
  BY DEF Names
<1>2. \E a \in S : \A b \in S : Rank(a) <= Rank(b)
  <2>1. S \in SUBSET Alg /\ S # {}
    BY DEF Offered
  <2> HIDE DEF S
  <2> QED
    BY <2>1, First
<1>3. Names(p)[v][t] \in S
  <2> HIDE DEF S
  <2> QED
    BY <1>1, <1>2
<1> QED
  BY <1>3
-----------------------------------------------------------------------------
LEMMA AvailableType ==
  ASSUME NEW c \in Call, NEW old, NEW v \in Variant, NEW a \in Alg, NEW t \in Typ
  PROVE  Available(old, c, v, a, t) \in Function \cup {NULL}
<1>1. CASE a = Algo("odd", 0)
  BY <1>1 DEF Available, Function, Family, Algo
<1>2. CASE a = Algo("s+v", 0)
  BY <1>2 DEF Available, Function, Family, Algo
<1>3. ASSUME NEW w \in Way, a = Algo("fly", w)
      PROVE  Available(old, c, v, a, t) \in Function \cup {NULL}
  BY <1>3 DEF Available, Function, Family, Algo, Pointer
<1>4. ASSUME NEW w \in Way, a = Algo("omp", w)
      PROVE  Available(old, c, v, a, t) \in Function \cup {NULL}
  BY <1>4 DEF Available, Function, Family, Algo, Pointer
<1> QED
  BY <1>1, <1>2, <1>3, <1>4 DEF Alg

LEMMA FilledType ==
  ASSUME NEW c \in Call, NEW old
  PROVE  Filled(old, c) \in [Variant -> [Alg -> [Typ -> Function \cup {NULL}]]]
BY AvailableType DEF Filled

(* The argument old is not looked at: the table is cleared.                  *)
LEMMA Cleared ==
  ASSUME NEW c \in Call, NEW old
  PROVE  Filled(old, c) = Filled(Blank, c)
BY DEF Filled, Available

(* A line that matches is one of the file, for the same numbers of latitudes *)
(* and, but for quick_init, the same flags.                                  *)
LEMMA MatchLine ==
  ASSUME TypeOK, NEW c \in Call, Match(shtns_cfg, LoadKey(c)) # 0
  PROVE  LET i == Match(shtns_cfg, LoadKey(c))
         IN  /\ i \in DOMAIN shtns_cfg
             /\ shtns_cfg[i].key = LoadKey(c)
             /\ shtns_cfg[i].as \in {"whole", "merged"}
             /\ \A j \in Matching(shtns_cfg, LoadKey(c)) : i <= j
<1> DEFINE S == Matching(shtns_cfg, LoadKey(c))
<1>1. S # {} /\ S \subseteq Nat
  BY DEF Match, Matching, TypeOK
<1>2. PICK x \in S : \A y \in S : ~ (<<y, x>> \in OpToRel(<, Nat))
  <2> HIDE DEF S
  <2> QED
    BY <1>1, NatLessThanWellFounded, WFMin
<1>3. \A y \in S : x <= y
  <2> HIDE DEF S
  <2>1. \A y \in S : ~ (y < x) /\ y \in Nat /\ x \in Nat
    BY <1>1, <1>2 DEF OpToRel
  <2> QED
    BY <2>1
<1>4. Match(shtns_cfg, LoadKey(c)) = CHOOSE i \in S : \A j \in S : i <= j
  BY <1>1 DEF Match
<1>5. /\ Match(shtns_cfg, LoadKey(c)) \in S
      /\ \A j \in S : Match(shtns_cfg, LoadKey(c)) <= j
  <2> HIDE DEF S
  <2> QED
    BY <1>3, <1>4
<1> QED
  BY <1>5 DEF Matching

(* The table a grid gets is right, and all of its functions are available.   *)
LEMMA SetGrid ==
  ASSUME AlgoInv, NEW p \in Process, NEW c \in Call, shtns_set_grid_auto(p, c)
  PROVE  /\ \A v \in Variant, t \in Typ :
              /\ ftable'[p][v][t] \in Right(c, v, t)
              /\ ftable'[p][v][t] \in Offered(sht_func'[p], v, t)
         /\ ftable'[p] \in [Variant -> [Typ -> Function \cup {NULL}]]
         /\ Odd(c) \/ c.flags = "reg_poles" => ftable'[p] = Default(sht_func'[p], c)
<1> DEFINE funcs == Filled(sht_func[p], c)
           line == IF c.keep THEN Match(shtns_cfg, LoadKey(c)) ELSE 0
           default == Default(funcs, c)
           loaded == Loaded(funcs, default, Reread(shtns_cfg[line].names))
<1>1. /\ sht_func'[p] = funcs
      /\ ftable'[p] = IF line = 0 THEN default ELSE loaded
  BY DEF shtns_set_grid_auto, AlgoInv, TypeOK
<1>2. CASE line = 0
  <2>1. \A v \in Variant, t \in Typ :
          /\ default[v][t] \in Right(c, v, t)
          /\ default[v][t] \in Offered(funcs, v, t)
    BY DefaultRight
  <2>2. \A v \in Variant, t \in Typ : default[v][t] \in Function
    BY <2>1 DEF Right
  <2>3. default \in [Variant -> [Typ -> Function \cup {NULL}]]
    BY <2>2 DEF Default
  <2> QED
    BY <1>1, <1>2, <2>1, <2>3
<1>3. CASE line # 0
  <2>1. c.keep /\ Match(shtns_cfg, LoadKey(c)) # 0 /\ line = Match(shtns_cfg, LoadKey(c))
    BY <1>3
  <2>2. line \in DOMAIN shtns_cfg /\ shtns_cfg[line].key = LoadKey(c)
    BY <2>1, MatchLine DEF AlgoInv
  <2>3. ~ Odd(c) /\ c.flags # "reg_poles"
    BY <2>2 DEF AlgoInv, LinesSuit, LoadKey, Key, Odd
  <2>4. shtns_cfg[line].names \in [Variant -> [Typ -> Name]]
    <3>1. shtns_cfg \in Seq(LineSet)
      BY DEF AlgoInv, TypeOK
    <3> HIDE DEF line
    <3>2. shtns_cfg[line] \in LineSet
      BY <2>2, <3>1
    <3> QED
      BY <3>2 DEF LineSet
  <2>5. \A t \in Typ : shtns_cfg[line].names["std"][t].kind # "odd"
    BY <2>2 DEF AlgoInv, LinesSuit
  <2>6. \A v \in Variant, t \in Typ :
          /\ loaded[v][t] \in Right(c, v, t)
          /\ loaded[v][t] \in Offered(funcs, v, t)
    <3>1. PICK names \in [Variant -> [Typ -> Name]] :
            /\ names = shtns_cfg[line].names
            /\ \A t \in Typ : names["std"][t].kind # "odd"
      BY <2>4, <2>5
    <3>2. \A v \in Variant, t \in Typ :
            /\ FromLine(sht_func[p], c, names)[v][t] \in Right(c, v, t)
            /\ FromLine(sht_func[p], c, names)[v][t] \in Offered(Filled(sht_func[p], c), v, t)
      BY <2>3, <3>1, LoadedRight
    <3> QED
      BY <3>1, <3>2 DEF FromLine
  <2>7. \A v \in Variant, t \in Typ : loaded[v][t] \in Function
    BY <2>6 DEF Right
  <2>8. loaded \in [Variant -> [Typ -> Function \cup {NULL}]]
    BY <2>7 DEF Loaded
  <2> QED
    BY <1>1, <1>3, <2>3, <2>6, <2>8
<1> QED
  BY <1>2, <1>3
-----------------------------------------------------------------------------
LEMMA AlgoInit ==
  ASSUME Init
  PROVE  AlgoInv
<1>1. TypeOK
  <2>1. (CHOOSE c \in Call : TRUE) \in Call
    BY CallAssumption
  <2>2. <<>> \in Seq(LineSet)
    OBVIOUS
  <2> QED
    BY <2>1, <2>2 DEF Init, TypeOK, Blank, Unset
<1>2. TableOfCall /\ TableRight /\ OnlyDefault
  BY DEF Init, TableOfCall, TableRight, OnlyDefault
<1>3. LinesSuit
  BY DEF Init, LinesSuit
<1> QED
  BY <1>1, <1>2, <1>3 DEF AlgoInv

(* The line of a timed configuration names functions of an even grid.        *)
LEMMA NewLine ==
  ASSUME AlgoInv, NEW p \in Process, pc[p] = "saving"
  PROVE  /\ Names(p) \in [Variant -> [Typ -> Name]]
         /\ \A t \in Typ : Names(p)["std"][t].kind # "odd"
         /\ SaveKey(call[p]) \in {SaveKey(c) : c \in Call}
         /\ SaveKey(call[p]).nlat % 2 # 1 /\ SaveKey(call[p]).flags # "reg_poles"
<1> DEFINE c == call[p]
<1>1. c \in Call /\ ~ Quick(c)
  BY DEF AlgoInv, TypeOK, TableOfCall
<1>2. \A v \in Variant, t \in Typ :
        ftable[p][v][t] \in Right(c, v, t) /\ ftable[p][v][t] \in Offered(sht_func[p], v, t)
  BY DEF AlgoInv, TableRight, TableOfCall
<1>3. \A v \in Variant, t \in Typ :
        /\ ftable[p][v][t] # NULL
        /\ v = "std" => ftable[p][v][t].family # "odd"
  BY <1>1, <1>2 DEF Right, NULL, Function, Family, Quick
<1>4. \A v \in Variant, t \in Typ :
        /\ Names(p)[v][t] \in Alg
        /\ sht_func[p][v][Names(p)[v][t]][t] = ftable[p][v][t]
  BY <1>2, <1>3, Named DEF AlgoInv
<1>5. \A t \in Typ : Names(p)["std"][t].kind # "odd"
  <2> SUFFICES ASSUME NEW t \in Typ, Names(p)["std"][t].kind = "odd"
               PROVE  FALSE
    OBVIOUS
  <2> DEFINE a == Names(p)["std"][t]
  <2>1. "std" \in Variant /\ a \in Alg
    BY <1>4 DEF Variant
  <2>2. sht_func[p]["std"][a][t] = Available(Blank, c, "std", a, t)
    <3> HIDE DEF a
    <3>1. sht_func[p] = Filled(Blank, c)
      BY DEF AlgoInv, TableOfCall
    <3> QED
      BY <2>1, <3>1 DEF Filled
  <2>3. Available(Blank, c, "std", a, t) = [family |-> "odd", way |-> 0, typ |-> t]
    BY DEF Available
  <2> QED
    BY <1>3, <1>4, <2>1, <2>2, <2>3
<1>6. Names(p) \in [Variant -> [Typ -> Name]]
  <2>1. \A v \in Variant, t \in Typ : Names(p)[v][t] \in Name
    BY <1>4 DEF Name
  <2>2. DOMAIN Names(p) = Variant /\ \A v \in Variant : DOMAIN Names(p)[v] = Typ
    BY DEF Names
  <2>3. Names(p) = [v \in Variant |-> Names(p)[v]]
    BY DEF Names
  <2>4. \A v \in Variant : Names(p)[v] = [t \in Typ |-> Names(p)[v][t]]
    BY DEF Names
  <2> HIDE DEF Names
  <2>5. \A v \in Variant : Names(p)[v] \in [Typ -> Name]
    BY <2>1, <2>4
  <2> QED
    BY <2>3, <2>5
<1> QED
  BY <1>1, <1>5, <1>6 DEF SaveKey, Key, Quick, Odd

(* A line that suits leaves a file of such lines when it is added.           *)
LEMMA LineAdded ==
  ASSUME TypeOK, LinesSuit, NEW line \in LineSet,
         line.key.nlat % 2 # 1, line.key.flags # "reg_poles",
         \A t \in Typ : line.names["std"][t].kind # "odd",
         shtns_cfg' = Append(shtns_cfg, line)
  PROVE  /\ shtns_cfg' \in Seq(LineSet)
         /\ LinesSuit'
<1>1. shtns_cfg \in Seq(LineSet)
  BY DEF TypeOK
<1>2. shtns_cfg' \in Seq(LineSet) /\ DOMAIN shtns_cfg' = 1 .. Len(shtns_cfg) + 1
  BY <1>1
<1>3. \A i \in DOMAIN shtns_cfg' :
        shtns_cfg'[i] = IF i = Len(shtns_cfg) + 1 THEN line ELSE shtns_cfg[i]
  BY <1>1
<1>4. \A i \in DOMAIN shtns_cfg' : i # Len(shtns_cfg) + 1 => i \in DOMAIN shtns_cfg
  BY <1>1, <1>2
<1> QED
  BY <1>2, <1>3, <1>4 DEF LinesSuit

LEMMA TypeStep ==
  ASSUME AlgoInv, Next
  PROVE  /\ sht_func' \in [Process -> [Variant -> [Alg -> [Typ -> Function \cup {NULL}]]]]
         /\ call' \in [Process -> Call]
         /\ pc' \in [Process -> {"out", "timing", "saving", "ready"}]
<1>1. TypeOK
  BY DEF AlgoInv
<1>2. ASSUME NEW p \in Process, NEW c \in Call, shtns_set_grid_auto(p, c)
      PROVE  /\ sht_func' \in [Process -> [Variant -> [Alg -> [Typ -> Function \cup {NULL}]]]]
             /\ call' \in [Process -> Call]
             /\ pc' \in [Process -> {"out", "timing", "saving", "ready"}]
  <2>1. Filled(sht_func[p], c) \in [Variant -> [Alg -> [Typ -> Function \cup {NULL}]]]
    BY FilledType
  <2> QED
    BY <1>1, <1>2, <2>1 DEF shtns_set_grid_auto, TypeOK
<1>3. ASSUME NEW p \in Process, choose_best_sht(p) \/ config_save(p) \/ ShortWrite(p)
      PROVE  /\ sht_func' = sht_func /\ call' = call
             /\ pc' \in [Process -> {"out", "timing", "saving", "ready"}]
  BY <1>1, <1>3 DEF choose_best_sht, config_save, ShortWrite, TypeOK
<1>4. ASSUME NEW p \in Process, Exit(p)
      PROVE  /\ sht_func' \in [Process -> [Variant -> [Alg -> [Typ -> Function \cup {NULL}]]]]
             /\ call' \in [Process -> Call]
             /\ pc' \in [Process -> {"out", "timing", "saving", "ready"}]
  <2>1. (CHOOSE c \in Call : TRUE) \in Call
    BY CallAssumption
  <2>2. Blank \in [Variant -> [Alg -> [Typ -> Function \cup {NULL}]]]
    BY DEF Blank
  <2> QED
    BY <1>1, <1>4, <2>1, <2>2 DEF Exit, TypeOK
<1> QED
  BY <1>1, <1>2, <1>3, <1>4 DEF Next, TypeOK

(* What the invariant says of one process.                                   *)
Own(p) ==
  pc[p] # "out" =>
    /\ sht_func[p] = Filled(Blank, call[p])
    /\ \A v \in Variant, t \in Typ :
         /\ ftable[p][v][t] \in Offered(sht_func[p], v, t)
         /\ ftable[p][v][t] \in Right(call[p], v, t)
    /\ pc[p] # "ready" => ~ Quick(call[p])
    /\ Odd(call[p]) \/ call[p].flags = "reg_poles" => ftable[p] = Default(sht_func[p], call[p])

LEMMA OwnAll == (\A p \in Process : Own(p)) <=> TableOfCall /\ TableRight /\ OnlyDefault
BY DEF Own, TableOfCall, TableRight, OnlyDefault

LEMMA OwnAllNext ==
  (\A p \in Process : Own(p)') <=> TableOfCall' /\ TableRight' /\ OnlyDefault'
BY DEF Own, TableOfCall, TableRight, OnlyDefault

LEMMA Others ==
  ASSUME AlgoInv, NEW q \in Process, ftable'[q] = ftable[q], pc'[q] = pc[q],
         sht_func'[q] = sht_func[q], call'[q] = call[q]
  PROVE  Own(q)'
<1>1. Own(q)
  BY OwnAll DEF AlgoInv
<1> QED
  BY <1>1 DEF Own

LEMMA SetGridStep ==
  ASSUME AlgoInv, NEW p \in Process, NEW c \in Call, shtns_set_grid_auto(p, c)
  PROVE  AlgoInv'
<1>1. TypeOK
  BY DEF AlgoInv
<1>2. /\ \A v \in Variant, t \in Typ :
            /\ ftable'[p][v][t] \in Right(c, v, t)
            /\ ftable'[p][v][t] \in Offered(sht_func'[p], v, t)
      /\ ftable'[p] \in [Variant -> [Typ -> Function \cup {NULL}]]
      /\ Odd(c) \/ c.flags = "reg_poles" => ftable'[p] = Default(sht_func'[p], c)
  BY SetGrid
<1>3. \A q \in Process \ {p} : /\ ftable'[q] = ftable[q] /\ pc'[q] = pc[q]
                               /\ sht_func'[q] = sht_func[q] /\ call'[q] = call[q]
  BY <1>1 DEF shtns_set_grid_auto, TypeOK
<1>4. /\ call'[p] = c /\ sht_func'[p] = Filled(Blank, c)
      /\ pc'[p] # "ready" => ~ Quick(c)
  <2>1. Filled(sht_func[p], c) = Filled(Blank, c)
    BY Cleared
  <2> QED
    BY <1>1, <2>1 DEF shtns_set_grid_auto, TypeOK
<1>5. TypeOK'
  <2>1. /\ sht_func' \in [Process -> [Variant -> [Alg -> [Typ -> Function \cup {NULL}]]]]
        /\ call' \in [Process -> Call]
        /\ pc' \in [Process -> {"out", "timing", "saving", "ready"}]
    BY TypeStep DEF Next
  <2>2. shtns_cfg' = shtns_cfg /\ DOMAIN ftable' = Process /\ ftable' = [q \in Process |-> ftable'[q]]
    BY <1>1 DEF shtns_set_grid_auto, TypeOK
  <2>3. \A q \in Process : ftable'[q] \in [Variant -> [Typ -> Function \cup {NULL}]]
    BY <1>1, <1>2, <1>3 DEF TypeOK
  <2> QED
    BY <1>1, <2>1, <2>2, <2>3 DEF TypeOK
<1>6. Own(p)'
  BY <1>2, <1>4 DEF Own
<1>7. \A q \in Process \ {p} : Own(q)'
  BY <1>3, Others
<1>8. LinesSuit'
  BY DEF AlgoInv, LinesSuit, shtns_set_grid_auto
<1> QED
  BY <1>5, <1>6, <1>7, <1>8, OwnAllNext DEF AlgoInv

LEMMA ChooseStep ==
  ASSUME AlgoInv, NEW p \in Process, choose_best_sht(p)
  PROVE  AlgoInv'
<1> DEFINE c == call[p]
           funcs == sht_func[p]
           like(t) == IF t = "gto" THEN "gsp" ELSE t
<1>1. /\ TypeOK /\ c \in Call /\ pc[p] = "timing" /\ Own(p)
  BY OwnAll DEF AlgoInv, TypeOK, choose_best_sht
<1>2. funcs = Filled(Blank, c) /\ ~ Quick(c) /\ ~ Odd(c) /\ c.flags # "reg_poles"
  BY <1>1 DEF Own, Quick
<1>3. PICK best \in [Timed(p) -> Alg] :
        /\ \A t \in Timed(p) : best[t] \in Candidates(p, t)
        /\ ftable' = [ftable EXCEPT ![p] =
             [v \in Variant |-> [t \in Typ |->
                IF like(t) \in Timed(p) /\ sht_func[p][v][best[like(t)]][t] # NULL
                THEN sht_func[p][v][best[like(t)]][t] ELSE @[v][t]]]]
  BY DEF choose_best_sht
<1>4. /\ \A v \in Variant, t \in Typ :
            ftable'[p][v][t] =
              IF like(t) \in Timed(p) /\ funcs[v][best[like(t)]][t] # NULL
              THEN funcs[v][best[like(t)]][t] ELSE ftable[p][v][t]
      /\ \A q \in Process \ {p} : ftable'[q] = ftable[q]
      /\ DOMAIN ftable' = Process /\ ftable' = [q \in Process |-> ftable'[q]]
      /\ ftable'[p] = [v \in Variant |-> [t \in Typ |-> ftable'[p][v][t]]]
  BY <1>1, <1>3 DEF TypeOK
<1>5. /\ sht_func' = sht_func /\ call' = call /\ shtns_cfg' = shtns_cfg
      /\ \A q \in Process \ {p} : pc'[q] = pc[q]
  BY <1>1 DEF choose_best_sht, TypeOK
<1>6. ASSUME NEW v \in Variant, NEW t \in Typ
      PROVE  /\ ftable'[p][v][t] \in Offered(funcs, v, t)
             /\ ftable'[p][v][t] \in Right(c, v, t)
  <2>1. CASE like(t) \in Timed(p) /\ funcs[v][best[like(t)]][t] # NULL
    <3>1. ftable'[p][v][t] = funcs[v][best[like(t)]][t]
      BY <1>4, <2>1
    <3>2. best[like(t)] \in Alg /\ best[like(t)].kind # "odd"
      BY <1>3, <2>1 DEF Candidates
    <3>3. ftable'[p][v][t] \in Offered(funcs, v, t)
      BY <3>1, <3>2 DEF Offered
    <3>4. PICK a \in Alg : a = best[like(t)] /\ a.kind # "odd"
      BY <3>2
    <3>5. Filled(Blank, c)[v][a][t] # NULL
      BY <1>2, <2>1, <3>4
    <3>6. Filled(Blank, c)[v][a][t] \in Right(c, v, t)
      BY <1>1, <1>2, <3>4, <3>5, TimedRight
    <3> QED
      BY <1>2, <3>1, <3>3, <3>4, <3>6
  <2>2. CASE ~ (like(t) \in Timed(p) /\ funcs[v][best[like(t)]][t] # NULL)
    <3>1. ftable'[p][v][t] = ftable[p][v][t]
      BY <1>4, <2>2
    <3> QED
      BY <1>1, <3>1 DEF Own
  <2> QED
    BY <2>1, <2>2
<1>7. Own(p)'
  <2>1. sht_func'[p] = funcs /\ call'[p] = c
    BY <1>5
  <2> QED
    BY <1>2, <1>6, <2>1 DEF Own
<1>8. \A q \in Process \ {p} : Own(q)'
  BY <1>4, <1>5, Others
<1>9. TypeOK'
  <2>1. \A v \in Variant, t \in Typ : ftable'[p][v][t] \in Function
    BY <1>6 DEF Right
  <2>2. ftable'[p] \in [Variant -> [Typ -> Function \cup {NULL}]]
    BY <1>4, <2>1
  <2>3. \A q \in Process : ftable'[q] \in [Variant -> [Typ -> Function \cup {NULL}]]
    BY <1>1, <1>4, <2>2 DEF TypeOK
  <2>4. pc' \in [Process -> {"out", "timing", "saving", "ready"}]
    BY TypeStep DEF Next
  <2> QED
    BY <1>1, <1>4, <1>5, <2>3, <2>4 DEF TypeOK
<1>10. LinesSuit'
  BY <1>5 DEF AlgoInv, LinesSuit
<1> QED
  BY <1>7, <1>8, <1>9, <1>10, OwnAllNext DEF AlgoInv

LEMMA ExitStep ==
  ASSUME AlgoInv, NEW p \in Process, Exit(p)
  PROVE  AlgoInv'
<1>1. TypeOK
  BY DEF AlgoInv
<1>2. /\ \A q \in Process \ {p} : /\ ftable'[q] = ftable[q] /\ pc'[q] = pc[q]
                                  /\ sht_func'[q] = sht_func[q] /\ call'[q] = call[q]
      /\ pc'[p] = "out" /\ shtns_cfg' = shtns_cfg
  BY <1>1 DEF Exit, TypeOK
<1>3. \A q \in Process : Own(q)'
  BY <1>2, Others DEF Own
<1>4. TypeOK'
  <2>1. /\ sht_func' \in [Process -> [Variant -> [Alg -> [Typ -> Function \cup {NULL}]]]]
        /\ call' \in [Process -> Call]
        /\ pc' \in [Process -> {"out", "timing", "saving", "ready"}]
    BY TypeStep DEF Next
  <2>2. Unset \in [Variant -> [Typ -> Function \cup {NULL}]]
    BY DEF Unset
  <2>3. ftable' \in [Process -> [Variant -> [Typ -> Function \cup {NULL}]]]
    BY <1>1, <2>2 DEF Exit, TypeOK
  <2> QED
    BY <1>1, <1>2, <2>1, <2>3 DEF TypeOK
<1>5. LinesSuit'
  BY <1>2 DEF AlgoInv, LinesSuit
<1> QED
  BY <1>3, <1>4, <1>5, OwnAllNext DEF AlgoInv

(* Writing a line changes no table.                                          *)
LEMMA WriteStep ==
  ASSUME AlgoInv, NEW p \in Process, config_save(p) \/ ShortWrite(p),
         shtns_cfg' \in Seq(LineSet), LinesSuit'
  PROVE  AlgoInv'
<1>1. TypeOK
  BY DEF AlgoInv
<1>2. /\ sht_func' = sht_func /\ ftable' = ftable /\ call' = call
      /\ \A q \in Process \ {p} : pc'[q] = pc[q]
      /\ pc'[p] = "ready" /\ pc[p] = "saving"
  BY <1>1 DEF config_save, ShortWrite, TypeOK
<1>3. Own(p)'
  <2>1. Own(p)
    BY OwnAll DEF AlgoInv
  <2> QED
    BY <1>2, <2>1 DEF Own
<1>4. \A q \in Process \ {p} : Own(q)'
  BY <1>2, Others
<1>5. TypeOK'
  <2>1. pc' \in [Process -> {"out", "timing", "saving", "ready"}]
    BY TypeStep DEF Next
  <2> QED
    BY <1>1, <1>2, <2>1 DEF TypeOK
<1> QED
  BY <1>3, <1>4, <1>5, OwnAllNext DEF AlgoInv

(* What a line is made of when it is written.                                *)
LEMMA WholeLine ==
  ASSUME AlgoInv, NEW p \in Process, pc[p] = "saving", ~ Torn(shtns_cfg),
         config_save(p)
  PROVE  /\ shtns_cfg' = Append(shtns_cfg, Line(SaveKey(call[p]), Names(p), "whole"))
         /\ shtns_cfg' \in Seq(LineSet)
         /\ LinesSuit'
<1> DEFINE line == Line(SaveKey(call[p]), Names(p), "whole")
<1>1. shtns_cfg' = Append(shtns_cfg, line)
  BY DEF config_save, AppendLine
<1>2. /\ line.key = SaveKey(call[p]) /\ line.names = Names(p)
      /\ line = [key |-> SaveKey(call[p]), names |-> Names(p), as |-> "whole"]
  BY DEF Line
<1>3. line \in LineSet
  <2> HIDE DEF line
  <2> QED
    BY <1>2, NewLine DEF LineSet
<1> HIDE DEF line
<1>4. /\ line.key.nlat % 2 # 1 /\ line.key.flags # "reg_poles"
      /\ \A t \in Typ : line.names["std"][t].kind # "odd"
  BY <1>2, NewLine
<1>5. TypeOK /\ LinesSuit
  BY DEF AlgoInv
<1>6. shtns_cfg' \in Seq(LineSet) /\ LinesSuit'
  BY <1>1, <1>3, <1>4, <1>5, LineAdded
<1> QED
  BY <1>1, <1>6 DEF line

LEMMA CutLine ==
  ASSUME AlgoInv, NEW p \in Process, ShortWrite(p)
  PROVE  /\ \E line \in LineSet : line.as # "whole" /\ shtns_cfg' = Append(shtns_cfg, line)
         /\ shtns_cfg' \in Seq(LineSet)
         /\ LinesSuit'
<1>1. PICK written \in Cut, w \in Variant, as \in {"cut", "unreadable"} :
        shtns_cfg' = Append(shtns_cfg, Line(SaveKey(call[p]),
          [v \in Variant |-> [t \in Typ |->
             IF (w = "m" /\ v = "std") \/ (w = v /\ Column(t) <= written)
             THEN Names(p)[v][t] ELSE None]], as))
  BY DEF ShortWrite
<1> DEFINE names == [v \in Variant |-> [t \in Typ |->
             IF (w = "m" /\ v = "std") \/ (w = v /\ Column(t) <= written)
             THEN Names(p)[v][t] ELSE None]]
           line == Line(SaveKey(call[p]), names, as)
<1>2. \A v \in Variant, t \in Typ : names[v][t] = Names(p)[v][t] \/ names[v][t] = None
  OBVIOUS
<1>3. /\ Names(p) \in [Variant -> [Typ -> Name]]
      /\ \A t \in Typ : Names(p)["std"][t].kind # "odd"
      /\ SaveKey(call[p]) \in {SaveKey(c) : c \in Call}
      /\ SaveKey(call[p]).nlat % 2 # 1 /\ SaveKey(call[p]).flags # "reg_poles"
  BY NewLine DEF ShortWrite
<1>4. None \in Name /\ None.kind # "odd" /\ "std" \in Variant
  BY DEF None, Name, Algo, Variant
<1>5. names \in [Variant -> [Typ -> Name]]
  BY <1>3, <1>4
<1>6. \A t \in Typ : names["std"][t].kind # "odd"
  <2> HIDE DEF names
  <2> QED
    BY <1>2, <1>3, <1>4
<1> HIDE DEF names
<1>7. line \in LineSet /\ line.as # "whole"
  BY <1>3, <1>5 DEF Line, LineSet
<1>8. line.key = SaveKey(call[p]) /\ line.names = names
  BY DEF Line
<1>9. shtns_cfg' = Append(shtns_cfg, line)
  BY <1>1 DEF names
<1> HIDE DEF line
<1>10. /\ line.key.nlat % 2 # 1 /\ line.key.flags # "reg_poles"
       /\ \A t \in Typ : line.names["std"][t].kind # "odd"
  BY <1>3, <1>6, <1>8
<1>11. TypeOK /\ LinesSuit
  BY DEF AlgoInv
<1>12. shtns_cfg' \in Seq(LineSet) /\ LinesSuit'
  BY <1>7, <1>9, <1>10, <1>11, LineAdded
<1> QED
  BY <1>7, <1>9, <1>12

(* A line written after a cut one either ends up as its missing names, which *)
(* are names of a line of an even grid, or nowhere.                          *)
LEMMA MergedLine ==
  ASSUME AlgoInv, NEW p \in Process, config_save(p), Torn(shtns_cfg)
  PROVE  /\ shtns_cfg' \in Seq(LineSet)
         /\ Len(shtns_cfg') = Len(shtns_cfg)
         /\ LinesSuit'
         /\ \A i \in DOMAIN shtns_cfg :
              shtns_cfg'[i] # shtns_cfg[i] => shtns_cfg[i].as = "cut"
         /\ Torn(shtns_cfg')
<1> DEFINE n == Len(shtns_cfg)
           last == shtns_cfg[n]
           new == Line(SaveKey(call[p]), Names(p), "whole")
<1>1. /\ TypeOK /\ shtns_cfg \in Seq(LineSet) /\ shtns_cfg # <<>> /\ n \in Nat \ {0}
      /\ last \in LineSet /\ n \in DOMAIN shtns_cfg /\ last.as # "whole"
  BY DEF AlgoInv, TypeOK, Torn
<1>2. AppendLine(new)
  BY DEF config_save
<1>3. CASE last.as # "cut"
  <2>1. shtns_cfg' = shtns_cfg
    BY <1>1, <1>2, <1>3 DEF AppendLine
  <2> QED
    BY <1>1, <2>1 DEF AlgoInv, LinesSuit
<1>4. CASE last.as = "cut"
  <2>1. PICK read \in Cut, a \in {new.names["std"][t] : t \in Typ} :
          shtns_cfg' = [shtns_cfg EXCEPT ![n] = Merged(last, new, read, a)]
    <3> HIDE DEF new
    <3> QED
      BY <1>1, <1>2, <1>4 DEF AppendLine
  <2>2. a \in Name
    <3>1. new.names = Names(p)
      BY DEF Line
    <3>2. Names(p) \in [Variant -> [Typ -> Name]] /\ "std" \in Variant
      BY NewLine DEF config_save, Variant
    <3> HIDE DEF new
    <3> QED
      BY <2>1, <3>1, <3>2
  <2> DEFINE line == Merged(last, new, read, a)
             mnames == [t \in Typ |-> IF last.names["m"][t] = None /\ Column(t) > read
                                      THEN a ELSE last.names["m"][t]]
  <2>3. line = [key |-> last.key, names |-> [last.names EXCEPT !["m"] = mnames], as |-> "merged"]
    BY DEF Merged, Line
  <2>4. last.names \in [Variant -> [Typ -> Name]] /\ last.key \in {SaveKey(c) : c \in Call}
    BY <1>1 DEF LineSet
  <2>5. mnames \in [Typ -> Name]
    BY <2>2, <2>4 DEF Variant
  <2>6. shtns_cfg' = [shtns_cfg EXCEPT ![n] = line]
    BY <2>1
  <2> HIDE DEF line, mnames, last
  <2>7. line \in LineSet /\ line.key = last.key /\ line.as = "merged"
    BY <2>3, <2>4, <2>5 DEF LineSet
  <2>8. line.names["std"] = last.names["std"]
    BY <2>3, <2>4 DEF Variant
  <2>9. /\ shtns_cfg' \in Seq(LineSet) /\ Len(shtns_cfg') = n /\ shtns_cfg'[n] = line
        /\ DOMAIN shtns_cfg' = DOMAIN shtns_cfg
        /\ \A i \in DOMAIN shtns_cfg : i # n => shtns_cfg'[i] = shtns_cfg[i]
    BY <1>1, <2>6, <2>7
  <2>10. LinesSuit'
    <3> SUFFICES ASSUME NEW i \in DOMAIN shtns_cfg
                 PROVE  /\ shtns_cfg'[i].key.nlat % 2 # 1
                        /\ shtns_cfg'[i].key.flags # "reg_poles"
                        /\ \A t \in Typ : shtns_cfg'[i].names["std"][t].kind # "odd"
      BY <2>9 DEF LinesSuit
    <3>1. /\ shtns_cfg'[i].key = shtns_cfg[i].key
          /\ shtns_cfg'[i].names["std"] = shtns_cfg[i].names["std"]
      BY <2>7, <2>8, <2>9 DEF last
    <3> QED
      BY <3>1 DEF AlgoInv, LinesSuit
  <2>11. Torn(shtns_cfg')
    BY <1>1, <2>7, <2>9 DEF Torn
  <2> QED
    BY <1>4, <2>9, <2>10, <2>11 DEF last
<1> QED
  BY <1>3, <1>4

LEMMA AlgoStep ==
  ASSUME AlgoInv, [Next]_vars
  PROVE  AlgoInv'
<1>1. ASSUME NEW p \in Process, NEW c \in Call, shtns_set_grid_auto(p, c) PROVE AlgoInv'
  BY <1>1, SetGridStep
<1>2. ASSUME NEW p \in Process, choose_best_sht(p) PROVE AlgoInv'
  BY <1>2, ChooseStep
<1>3. ASSUME NEW p \in Process, config_save(p) PROVE AlgoInv'
  <2>1. pc[p] = "saving"
    BY <1>3 DEF config_save
  <2>2. shtns_cfg' \in Seq(LineSet) /\ LinesSuit'
    BY <1>3, <2>1, WholeLine, MergedLine
  <2> QED
    BY <1>3, <2>2, WriteStep
<1>4. ASSUME NEW p \in Process, ShortWrite(p) PROVE AlgoInv'
  <2>1. shtns_cfg' \in Seq(LineSet) /\ LinesSuit'
    BY <1>4, CutLine
  <2> QED
    BY <1>4, <2>1, WriteStep
<1>5. ASSUME NEW p \in Process, Exit(p) PROVE AlgoInv'
  BY <1>5, ExitStep
<1>6. CASE UNCHANGED vars
  BY <1>6 DEF vars, AlgoInv, TypeOK, TableOfCall, LinesSuit, TableRight, OnlyDefault,
              Offered, Right, Default
<1> QED
  BY <1>1, <1>2, <1>3, <1>4, <1>5, <1>6 DEF Next
-----------------------------------------------------------------------------
(* Tables only hold what there is for their grid, and the file only lines of *)
(* grids that are timed.                                                     *)
THEOREM AlgoInvariant == Spec => []AlgoInv
BY AlgoInit, AlgoStep, PTL DEF Spec

(* Whatever the file holds and whatever grids were set before, every function*)
(* a configuration calls exists and is one for its grid.                     *)
THEOREM TableAlwaysRight == Spec => []TableRight
<1>1. AlgoInv => TableRight
  BY DEF AlgoInv
<1> QED
  BY <1>1, AlgoInvariant, PTL

(* Grids with an odd number of latitudes or with poles keep the default.     *)
THEOREM OnlyDefaultAlways == Spec => []OnlyDefault
<1>1. AlgoInv => OnlyDefault
  BY DEF AlgoInv
<1> QED
  BY <1>1, AlgoInvariant, PTL
-----------------------------------------------------------------------------
(* Lines that can be used stay where they are.                               *)
LEMMA LinesKept ==
  ASSUME AlgoInv, [Next]_vars
  PROVE  /\ Len(shtns_cfg') >= Len(shtns_cfg)
         /\ shtns_cfg \in Seq(LineSet) /\ shtns_cfg' \in Seq(LineSet)
         /\ \A i \in DOMAIN shtns_cfg :
              shtns_cfg[i].as \in {"whole", "merged"} => shtns_cfg'[i] = shtns_cfg[i]
<1>1. shtns_cfg \in Seq(LineSet) /\ shtns_cfg' \in Seq(LineSet)
  BY AlgoStep DEF AlgoInv, TypeOK
<1>2. CASE shtns_cfg' = shtns_cfg
  BY <1>1, <1>2
<1>3. ASSUME NEW line, shtns_cfg' = Append(shtns_cfg, line)
      PROVE  /\ Len(shtns_cfg') >= Len(shtns_cfg)
             /\ \A i \in DOMAIN shtns_cfg : shtns_cfg'[i] = shtns_cfg[i]
  BY <1>1, <1>3
<1>4. ASSUME NEW p \in Process, config_save(p), ~ Torn(shtns_cfg)
      PROVE  \E line : shtns_cfg' = Append(shtns_cfg, line)
  BY <1>4 DEF config_save, AppendLine
<1>5. ASSUME NEW p \in Process, config_save(p), Torn(shtns_cfg)
      PROVE  /\ Len(shtns_cfg') >= Len(shtns_cfg)
             /\ \A i \in DOMAIN shtns_cfg :
                  shtns_cfg[i].as \in {"whole", "merged"} => shtns_cfg'[i] = shtns_cfg[i]
  <2>1. /\ Len(shtns_cfg') = Len(shtns_cfg)
        /\ \A i \in DOMAIN shtns_cfg :
             shtns_cfg'[i] # shtns_cfg[i] => shtns_cfg[i].as = "cut"
    BY <1>5, MergedLine
  <2> QED
    BY <1>1, <2>1
<1>6. ASSUME NEW p \in Process, ShortWrite(p)
      PROVE  \E line : shtns_cfg' = Append(shtns_cfg, line)
  BY <1>6, CutLine
<1>7. ASSUME NEW p \in Process, NEW c \in Call,
             shtns_set_grid_auto(p, c) \/ choose_best_sht(p) \/ Exit(p)
      PROVE  shtns_cfg' = shtns_cfg
  BY <1>7 DEF shtns_set_grid_auto, choose_best_sht, Exit
<1>8. CASE UNCHANGED vars
  BY <1>8, <1>2 DEF vars
<1> QED
  BY <1>1, <1>2, <1>3, <1>4, <1>5, <1>6, <1>7, <1>8, CallAssumption DEF Next

(* The first line that matches stays the first one.                          *)
LEMMA FirstKept ==
  ASSUME AlgoInv, [Next]_vars, NEW c \in Call, Match(shtns_cfg, LoadKey(c)) # 0
  PROVE  /\ Match(shtns_cfg', LoadKey(c)) = Match(shtns_cfg, LoadKey(c))
         /\ shtns_cfg'[Match(shtns_cfg, LoadKey(c))] = shtns_cfg[Match(shtns_cfg, LoadKey(c))]
         /\ Match(shtns_cfg, LoadKey(c)) \in Matching(shtns_cfg', LoadKey(c))
<1> DEFINE i == Match(shtns_cfg, LoadKey(c))
           S == Matching(shtns_cfg', LoadKey(c))
<1>1. /\ i \in DOMAIN shtns_cfg /\ shtns_cfg[i].key = LoadKey(c)
      /\ shtns_cfg[i].as \in {"whole", "merged"}
      /\ \A j \in Matching(shtns_cfg, LoadKey(c)) : i <= j
  BY MatchLine DEF AlgoInv
<1> HIDE DEF i
<1>2. /\ Len(shtns_cfg') >= Len(shtns_cfg)
      /\ shtns_cfg \in Seq(LineSet) /\ shtns_cfg' \in Seq(LineSet)
      /\ \A j \in DOMAIN shtns_cfg :
           shtns_cfg[j].as \in {"whole", "merged"} => shtns_cfg'[j] = shtns_cfg[j]
  BY LinesKept
<1>3. /\ i \in DOMAIN shtns_cfg' /\ shtns_cfg'[i] = shtns_cfg[i]
  BY <1>1, <1>2
<1>4. i \in S
  BY <1>1, <1>3 DEF Matching
<1>5. \A j \in S : i <= j
  <2> SUFFICES ASSUME NEW j \in S, j < i PROVE FALSE
    BY <1>1, <1>2 DEF Matching
  <2>1. j \in DOMAIN shtns_cfg /\ j \in Nat
    BY <1>1, <1>2 DEF Matching
  <2>2. CASE shtns_cfg'[j] = shtns_cfg[j]
    <3>1. j \in Matching(shtns_cfg, LoadKey(c))
      BY <2>1, <2>2 DEF Matching
    <3> QED
      BY <1>1, <1>2, <2>1, <3>1
  <2>3. CASE shtns_cfg'[j] # shtns_cfg[j]
    <3>1. j = Len(shtns_cfg)
      <4>1. \A q \in Process : config_save(q) /\ Torn(shtns_cfg) =>
              \A k \in DOMAIN shtns_cfg : k # Len(shtns_cfg) => shtns_cfg'[k] = shtns_cfg[k]
        BY <1>2 DEF config_save, AppendLine
      <4>2. ASSUME NEW line, shtns_cfg' = Append(shtns_cfg, line)
            PROVE  FALSE
        BY <1>2, <2>1, <2>3, <4>2
      <4>3. \A q \in Process : config_save(q) /\ ~ Torn(shtns_cfg) =>
              \E line : shtns_cfg' = Append(shtns_cfg, line)
        BY DEF config_save, AppendLine
      <4>4. \A q \in Process : ShortWrite(q) => \E line : shtns_cfg' = Append(shtns_cfg, line)
        BY CutLine
      <4>5. shtns_cfg' = shtns_cfg \/ \E q \in Process : config_save(q) \/ ShortWrite(q)
        BY DEF Next, vars, shtns_set_grid_auto, choose_best_sht, Exit
      <4> QED
        BY <2>1, <2>3, <4>1, <4>2, <4>3, <4>4, <4>5
    <3> QED
      BY <1>1, <1>2, <3>1
  <2> QED
    BY <2>2, <2>3
<1>6. /\ Match(shtns_cfg', LoadKey(c)) = CHOOSE k \in S : \A j \in S : k <= j
      /\ S \subseteq Nat
  <2>1. S \subseteq Nat
    BY <1>2 DEF Matching
  <2>2. S # {}
    BY <1>4
  <2> QED
    BY ONLY <2>1, <2>2 DEF Match
<1>7. Match(shtns_cfg', LoadKey(c)) = i
  <2> HIDE DEF S
  <2>1. \A k \in S : (\A j \in S : k <= j) => k = i
    BY <1>4, <1>5, <1>6
  <2> QED
    BY <1>4, <1>5, <1>6, <2>1
<1> QED
  BY <1>3, <1>4, <1>7 DEF i

(* Once a search finds a line, every later one finds the same.               *)
THEOREM LoadAlwaysStable == Spec => LoadStable
<1>1. AlgoInv /\ [Next]_vars =>
        [\A c \in Call :
           LET i == Match(shtns_cfg, LoadKey(c))
               j == Match(shtns_cfg', LoadKey(c))
           IN  i # 0 => j # 0 /\ shtns_cfg'[j].names = shtns_cfg[i].names]_shtns_cfg
  BY FirstKept
<1> QED
  BY <1>1, AlgoInvariant, PTL DEF Spec, LoadStable

(* What a line saved for a table gives back.                                 *)
Same(p, i) ==
  LET default == Default(sht_func[p], call[p])
      again == Loaded(sht_func[p], default, Reread(shtns_cfg[i].names))
  IN  \A v \in Variant, t \in Typ :
        \/ again[v][t] = ftable[p][v][t]
        \/ v = "std" /\ t = "syn" /\ ftable[p][v][t].family = "omp"
           /\ again[v][t] = default[v][t]

Timely(p) ==
  pc[p] = "ready" /\ call[p].keep /\ ~ Quick(call[p]) /\ ~ Torn(shtns_cfg) =>
    \E i \in Matching(shtns_cfg, LoadKey(call[p])) : Same(p, i)

LEMMA TimelyAll ==
  /\ SavedAgain <=> \A p \in Process : Timely(p)
  /\ SavedAgain' <=> \A p \in Process : Timely(p)'
BY DEF SavedAgain, Timely, Same

(* A file that is whole after a step was whole before it.                    *)
LEMMA WholeBefore ==
  ASSUME AlgoInv, [Next]_vars, ~ Torn(shtns_cfg')
  PROVE  ~ Torn(shtns_cfg)
<1>1. shtns_cfg \in Seq(LineSet)
  BY DEF AlgoInv, TypeOK
<1>2. ASSUME NEW p \in Process, config_save(p), Torn(shtns_cfg) PROVE FALSE
  BY <1>2, MergedLine
<1>3. ASSUME NEW p \in Process, ShortWrite(p) PROVE ~ Torn(shtns_cfg)
  BY <1>3 DEF ShortWrite
<1>4. shtns_cfg' = shtns_cfg \/ \E p \in Process : config_save(p) \/ ShortWrite(p)
  BY DEF Next, vars, shtns_set_grid_auto, choose_best_sht, Exit
<1> QED
  BY <1>2, <1>3, <1>4

(* The names of a table give it back, but for the name that is lost.         *)
LEMMA NamesBack ==
  ASSUME AlgoInv, NEW p \in Process, pc[p] = "saving",
         NEW v \in Variant, NEW t \in Typ
  PROVE  LET default == Default(sht_func[p], call[p])
             again == Loaded(sht_func[p], default, Reread(Names(p)))
         IN  \/ again[v][t] = ftable[p][v][t]
             \/ v = "std" /\ t = "syn" /\ ftable[p][v][t].family = "omp"
                /\ again[v][t] = default[v][t]
<1> DEFINE c == call[p]
           default == Default(sht_func[p], c)
           a == Names(p)[v][t]
           b == Reread(Names(p))[v][t]
           again == Loaded(sht_func[p], default, Reread(Names(p)))
<1>1. /\ c \in Call /\ TypeOK /\ sht_func[p] = Filled(Blank, c)
      /\ ftable[p][v][t] \in Right(c, v, t) /\ ftable[p][v][t] \in Offered(sht_func[p], v, t)
  BY DEF AlgoInv, TypeOK, TableOfCall, TableRight
<1>2. ftable[p][v][t] # NULL
  BY <1>1 DEF Right, Function, Family, NULL
<1>3. a \in Alg /\ sht_func[p][v][a][t] = ftable[p][v][t]
  BY <1>1, <1>2, Named
<1>4. Names(p) \in [Variant -> [Typ -> Name]]
  BY NewLine
<1>5. again[v][t] = IF b = None \/ sht_func[p][v][b][t] = NULL THEN default[v][t]
                    ELSE sht_func[p][v][b][t]
  BY DEF Loaded
<1>6. CASE v = "std" /\ t = "syn" /\ a.kind = "omp"
  <2>1. b = None
    BY <1>4, <1>6 DEF Reread, Variant
  <2>2. again[v][t] = default[v][t]
    BY <1>5, <2>1
  <2>3. PICK x \in Alg : x = a /\ x.kind = "omp"
    BY <1>3, <1>6
  <2>4. ftable[p][v][t] = Available(Blank, c, v, x, t)
    BY <1>1, <1>3, <2>3 DEF Filled
  <2>5. Available(Blank, c, v, x, t).family = "omp"
    <3>1. Available(Blank, c, v, x, t) # NULL
      BY <1>2, <2>4
    <3> QED
      BY <1>6, <2>3, <3>1 DEF Available, Pointer
  <2> QED
    BY <1>6, <2>2, <2>4, <2>5
<1>7. CASE ~ (v = "std" /\ t = "syn" /\ a.kind = "omp")
  <2>1. b = a
    BY <1>4, <1>7 DEF Reread, Variant
  <2>2. a # None
    BY <1>3 DEF Alg, None, Algo
  <2>3. again[v][t] = ftable[p][v][t]
    BY <1>2, <1>3, <1>5, <2>1, <2>2
  <2> QED
    BY <2>3
<1> QED
  BY <1>6, <1>7

(* A configuration whose table does not change keeps its line.               *)
LEMMA TimelyKept ==
  ASSUME AlgoInv, [Next]_vars, NEW p \in Process, Timely(p),
         sht_func'[p] = sht_func[p], ftable'[p] = ftable[p],
         call'[p] = call[p], pc'[p] = pc[p]
  PROVE  Timely(p)'
<1> SUFFICES ASSUME pc[p] = "ready", call[p].keep, ~ Quick(call[p]), ~ Torn(shtns_cfg')
             PROVE  \E i \in Matching(shtns_cfg', LoadKey(call[p])) : Same(p, i)'
  BY DEF Timely
<1>1. PICK i \in Matching(shtns_cfg, LoadKey(call[p])) : Same(p, i)
  BY WholeBefore DEF Timely
<1>2. /\ i \in DOMAIN shtns_cfg' /\ shtns_cfg'[i] = shtns_cfg[i]
  BY <1>1, LinesKept DEF Matching
<1>3. i \in Matching(shtns_cfg', LoadKey(call[p]))
  BY <1>1, <1>2 DEF Matching
<1>4. Same(p, i)'
  BY <1>1, <1>2 DEF Same
<1> QED
  BY <1>3, <1>4

LEMMA TimelyGrid ==
  ASSUME AlgoInv, NEW p \in Process, NEW c \in Call, shtns_set_grid_auto(p, c)
  PROVE  Timely(p)'
<1> DEFINE funcs == Filled(sht_func[p], c)
           line == IF c.keep THEN Match(shtns_cfg, LoadKey(c)) ELSE 0
<1>1. /\ sht_func'[p] = funcs /\ call'[p] = c /\ shtns_cfg' = shtns_cfg
      /\ ftable'[p] = IF line = 0 THEN Default(funcs, c)
                      ELSE Loaded(funcs, Default(funcs, c), Reread(shtns_cfg[line].names))
      /\ pc'[p] = IF Quick(c) \/ line # 0 THEN "ready" ELSE "timing"
  BY DEF shtns_set_grid_auto, AlgoInv, TypeOK
<1> SUFFICES ASSUME pc'[p] = "ready", c.keep, ~ Quick(c)
             PROVE  \E i \in Matching(shtns_cfg, LoadKey(c)) : Same(p, i)'
  BY <1>1 DEF Timely
<1>2. line = Match(shtns_cfg, LoadKey(c)) /\ line # 0
  BY <1>1
<1>3. line \in Matching(shtns_cfg, LoadKey(c))
  BY <1>2, MatchLine DEF AlgoInv, Matching
<1> HIDE DEF line
<1>4. PICK i \in Matching(shtns_cfg, LoadKey(c)) : i = line
  BY <1>3
<1>5. Same(p, i)'
  BY <1>1, <1>2, <1>4 DEF Same
<1> QED
  BY <1>5

LEMMA TimelySave ==
  ASSUME AlgoInv, NEW p \in Process, config_save(p)
  PROVE  Timely(p)'
<1> DEFINE c == call[p]
           n == Len(shtns_cfg) + 1
           line == Line(SaveKey(c), Names(p), "whole")
<1>1. /\ sht_func' = sht_func /\ ftable' = ftable /\ call' = call /\ pc[p] = "saving"
  BY DEF config_save
<1> SUFFICES ASSUME ~ Torn(shtns_cfg')
             PROVE  \E i \in Matching(shtns_cfg', LoadKey(c)) : Same(p, i)'
  BY <1>1 DEF Timely
<1>2. ~ Torn(shtns_cfg)
  BY WholeBefore DEF Next
<1>3. /\ shtns_cfg' = Append(shtns_cfg, line) /\ shtns_cfg \in Seq(LineSet)
  BY <1>1, <1>2, WholeLine DEF AlgoInv, TypeOK
<1>4. LoadKey(c) = SaveKey(c)
  BY <1>1 DEF AlgoInv, TableOfCall, Quick, LoadKey, SaveKey
<1>5. line.key = SaveKey(c) /\ line.names = Names(p) /\ line.as = "whole"
  BY DEF Line
<1> HIDE DEF line
<1>6. n \in DOMAIN shtns_cfg' /\ shtns_cfg'[n] = line
  BY <1>3
<1>7. n \in Matching(shtns_cfg', LoadKey(c))
  BY <1>4, <1>5, <1>6 DEF Matching
<1>8. PICK i \in Matching(shtns_cfg', LoadKey(c)) : i = n
  BY <1>7
<1>9. shtns_cfg'[i].names = Names(p)
  BY <1>5, <1>6, <1>8
<1>10. Same(p, i)'
  <2> HIDE DEF n
  <2> QED
    BY <1>1, <1>9, NamesBack DEF Same
<1> QED
  BY <1>10

LEMMA SavedStep ==
  ASSUME AlgoInv, SavedAgain, [Next]_vars
  PROVE  SavedAgain'
<1>1. \A q \in Process : Timely(q)
  BY TimelyAll
<1>2. TypeOK
  BY DEF AlgoInv
<1>3. ASSUME NEW p \in Process, NEW q \in Process, q # p,
             \/ \E c \in Call : shtns_set_grid_auto(p, c)
             \/ choose_best_sht(p) \/ config_save(p) \/ ShortWrite(p) \/ Exit(p)
      PROVE  Timely(q)'
  <2>1. /\ sht_func'[q] = sht_func[q] /\ ftable'[q] = ftable[q]
        /\ call'[q] = call[q] /\ pc'[q] = pc[q]
    BY <1>2, <1>3 DEF shtns_set_grid_auto, choose_best_sht, config_save, ShortWrite, Exit, TypeOK
  <2>2. [Next]_vars
    BY <1>3 DEF Next
  <2> QED
    BY <1>1, <2>1, <2>2, TimelyKept
<1>4. ASSUME NEW p \in Process, NEW c \in Call, shtns_set_grid_auto(p, c) PROVE Timely(p)'
  BY <1>4, TimelyGrid
<1>5. ASSUME NEW p \in Process, choose_best_sht(p) PROVE Timely(p)'
  BY <1>2, <1>5 DEF choose_best_sht, Timely, TypeOK
<1>6. ASSUME NEW p \in Process, config_save(p) PROVE Timely(p)'
  BY <1>6, TimelySave
<1>7. ASSUME NEW p \in Process, ShortWrite(p) PROVE Timely(p)'
  <2>1. Torn(shtns_cfg')
    <3>1. PICK line \in LineSet : line.as # "whole" /\ shtns_cfg' = Append(shtns_cfg, line)
      BY <1>7, CutLine
    <3>2. shtns_cfg \in Seq(LineSet)
      BY <1>2 DEF TypeOK
    <3> QED
      BY <3>1, <3>2 DEF Torn
  <2> QED
    BY <2>1 DEF Timely
<1>8. ASSUME NEW p \in Process, Exit(p) PROVE Timely(p)'
  BY <1>2, <1>8 DEF Exit, Timely, TypeOK
<1>9. CASE UNCHANGED vars
  BY <1>1, <1>9, TimelyKept, TimelyAll DEF vars
<1>10. CASE Next
  <2>1. PICK p \in Process :
          \/ \E c \in Call : shtns_set_grid_auto(p, c)
          \/ choose_best_sht(p) \/ config_save(p) \/ ShortWrite(p) \/ Exit(p)
    BY <1>10 DEF Next
  <2>2. Timely(p)'
    BY <2>1, <1>4, <1>5, <1>6, <1>7, <1>8
  <2>3. \A q \in Process : q # p => Timely(q)'
    BY <2>1, <1>3
  <2> QED
    BY <2>2, <2>3, TimelyAll
<1> QED
  BY <1>9, <1>10

(* While no line was cut, the next start finds what a timed configuration    *)
(* runs, but for the one name that is lost.                                  *)
THEOREM AlwaysSavedAgain == Spec => []SavedAgain
<1>1. Init => SavedAgain
  BY DEF Init, SavedAgain
<1> QED
  BY <1>1, AlgoInvariant, SavedStep, PTL DEF Spec
=============================================================================
