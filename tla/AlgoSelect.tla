---------------------------- MODULE AlgoSelect ----------------------------
(* Which function runs each transform. Setting a grid refills one global     *)
(* table with the functions that exist for the grid, points the table of the *)
(* configuration at a default, and then either loads a choice saved in the   *)
(* file shtns_cfg or times the candidates and appends the winners to it.     *)
(* Several processes share the file. A line may be cut when it is written:   *)
(* the results of fprintf are not looked at. Left out: the GPU rows and the  *)
(* row of the b variants, which are empty in this build, and a file that     *)
(* cannot be opened for writing.                                             *)
EXTENDS Integers, Sequences

CONSTANTS
  Process,   \* the programs that use the library in one directory
  Call,      \* the grids they set
  Typ,       \* the transforms considered
  Way,       \* the widths of functions considered, in vectors
  VSIZE2,    \* doubles in a vector
  MaxLines   \* the lines the file may get (bound)

Flag == {"gauss", "auto", "gauss_fly", "reg_fast", "reg_dct", "quick_init", "reg_poles"}
Scalar == {"syn", "ana"}
Gradient == {"gsp", "gto"}
Three == {"v3s", "v3a"}

(* Smaller grids are refused: "nlat is too small!". *)
ASSUME CallAssumption ==
  /\ VSIZE2 \in Nat \ {0} /\ MaxLines \in Nat
  /\ 2 \in Way /\ Way \subseteq {1, 2, 3, 4, 6, 8}
  /\ "syn" \in Typ /\ Typ \subseteq Scalar \cup {"vsy", "van"} \cup Gradient \cup Three
  /\ Call # {}
  /\ Call \subseteq [nphi : Nat \ {0}, nlat : Nat, nthreads : Nat \ {0},
                     flags : Flag, scalar : BOOLEAN, keep : BOOLEAN]
  /\ \A c \in Call : c.nlat >= 4 * VSIZE2

Variant == {"std", "m"}

Algo(k, w) == [kind |-> k, way |-> w]
Alg == {Algo("odd", 0), Algo("s+v", 0)} \cup {Algo(k, w) : k \in {"fly", "omp"}, w \in Way}

(* The order of enum sht_algos. *)
Rank(a) ==
  CASE a.kind = "odd" -> 0
    [] a.kind = "s+v" -> 1
    [] a.kind = "fly" -> 2 + a.way
    [] a.kind = "omp" -> 11 + a.way

NULL == [family |-> "NULL", way |-> 0, typ |-> "NULL"]
None == Algo("none", 0)   \* a name that is no algorithm
Name == Alg \cup {None}

Family == {"odd", "s+v", "fly", "m0", "m", "omp"}
Function == [family : Family, way : {0} \cup Way, typ : Typ]

(* The functions that are compiled, the others are NULL in their arrays. *)
Compiled(family, w, t) ==
  CASE family = "fly" -> w <= 4 \/ (VSIZE2 <= 4 /\ t \notin Gradient)
    [] family = "omp" ->
         IF w = 1 THEN t \notin Scalar ELSE w <= 4 \/ (VSIZE2 <= 4 /\ t \notin Gradient)
    [] family \in {"m0", "m"} ->
         IF w = 1 THEN t \notin Scalar
         ELSE \/ w <= 3
              \/ w = 4 /\ t \in Scalar \cup Gradient
              \/ w > 4 /\ VSIZE2 <= 4 /\ t \in Scalar

Pointer(family, w, t) ==
  IF Compiled(family, w, t) THEN [family |-> family, way |-> w, typ |-> t] ELSE NULL

(* The order of the names of a line: std before m, and types in this order.  *)
Column(t) == CHOOSE i \in 1 .. 8 :
  <<"syn", "ana", "vsy", "van", "gsp", "gto", "v3s", "v3a">>[i] = t
Cut == {0} \cup {Column(t) : t \in Typ}

VARIABLES
  sht_func,  \* the global table of each process
  ftable,    \* the table of its configuration
  call,      \* how the grid of the configuration was set
  pc,        \* where each process is
  shtns_cfg  \* the lines of the file

vars == <<sht_func, ftable, call, pc, shtns_cfg>>

(* Blocks of latitudes the functions store without looking at the last one. *)
Fits(c, w) == w <= ((c.nlat + 1) \div 2) \div VSIZE2

(* init_sht_array_func: old is what the table held before. *)
Available(old, c, v, a, t) ==
  CASE a.kind = "odd" ->
         IF v = "std" THEN [family |-> "odd", way |-> 0, typ |-> t] ELSE NULL
    [] a.kind = "s+v" ->
         IF t \in Three THEN [family |-> "s+v", way |-> 0, typ |-> t] ELSE NULL
    [] a.kind = "fly" ->
         IF ~ Fits(c, a.way) THEN NULL
         ELSE IF v = "m" THEN Pointer("m", a.way, t)
         ELSE IF c.nphi = 1 THEN Pointer("m0", a.way, t)
         ELSE IF c.nthreads <= 2 THEN Pointer("fly", a.way, t) ELSE NULL
    [] a.kind = "omp" ->
         IF c.nphi = 1 \/ ~ Fits(c, a.way) THEN NULL
         ELSE IF v = "m" THEN Pointer("m", a.way, t) ELSE Pointer("omp", a.way, t)

(* Mutant: the table is not cleared first. *)
FilledOver(old, c) ==
  [v \in Variant |-> [a \in Alg |-> [t \in Typ |->
     LET f == Available(old, c, v, a, t) IN IF f = NULL THEN old[v][a][t] ELSE f]]]

Filled(old, c) ==
  [v \in Variant |-> [a \in Alg |-> [t \in Typ |-> Available(old, c, v, a, t)]]]

Odd(c) == c.nlat % 2 = 1

(* set_sht_fly: a guess without timing. *)
Default(funcs, c) ==
  LET algo == IF c.nthreads > 1 /\ funcs["std"][Algo("omp", 2)]["syn"] # NULL
              THEN Algo("omp", 2) ELSE Algo("fly", 2)
  IN  [v \in Variant |-> [t \in Typ |->
         IF v = "std" /\ Odd(c) THEN funcs["std"][Algo("odd", 0)][t] ELSE funcs[v][algo][t]]]

(* Mutant: grids with poles are timed like the others. *)
QuickButPoles(c) == Odd(c) \/ c.flags \in {"reg_fast", "quick_init"}
Quick(c) == Odd(c) \/ c.flags \in {"reg_fast", "quick_init", "reg_poles"}

(* What a line is recognised by. The kind of grid follows from the flags. *)
Key(c, flags) == [nphi |-> c.nphi, nlat |-> c.nlat, nthreads |-> c.nthreads,
                  flags |-> flags, scalar |-> c.scalar]
SaveKey(c) == Key(c, c.flags)

(* Mutant: sht_auto is looked for as the grid it stands for. *)
LoadKeyAuto(c) == Key(c, IF c.flags \in {"auto", "quick_init"} THEN "gauss" ELSE c.flags)
LoadKey(c) == Key(c, IF c.flags = "quick_init" THEN "gauss" ELSE c.flags)

(* A line: whole, cut in its names while nothing follows it, or merged with  *)
(* the next one, whose tokens then stand for the names it lost.              *)
Line(key, names, as) == [key |-> key, names |-> names, as |-> as]
Torn(file) == file # <<>> /\ file[Len(file)].as # "whole"

Matching(file, key) ==
  {i \in DOMAIN file : file[i].key = key /\ file[i].as \in {"whole", "merged"}}

(* Mutant: the last line that matches is taken. *)
LastMatch(file, key) ==
  IF Matching(file, key) = {} THEN 0
  ELSE CHOOSE i \in Matching(file, key) : \A j \in Matching(file, key) : i >= j
Match(file, key) ==
  IF Matching(file, key) = {} THEN 0
  ELSE CHOOSE i \in Matching(file, key) : \A j \in Matching(file, key) : i <= j

(* The names as they are read back. No space is printed between the label    *)
(* "std:" and a name of five letters, those of the omp functions: seven      *)
(* letters are read as the label, the rest is no name.                       *)
Reread(names) ==
  [names EXCEPT !["std"]["syn"] = IF @.kind = "omp" THEN None ELSE @]

(* Only functions that exist are taken from a line. *)
Loaded(funcs, table, names) ==
  [v \in Variant |-> [t \in Typ |->
     IF names[v][t] = None \/ funcs[v][names[v][t]][t] = NULL THEN table[v][t]
     ELSE funcs[v][names[v][t]][t]]]

(* shtns_set_grid_auto, up to the timing. *)
shtns_set_grid_auto(p, c) ==
  LET funcs == Filled(sht_func[p], c)
      line == IF c.keep THEN Match(shtns_cfg, LoadKey(c)) ELSE 0
  IN  /\ pc[p] \in {"out", "ready"}
      /\ sht_func' = [sht_func EXCEPT ![p] = funcs]
      /\ ftable' = [ftable EXCEPT ![p] =
                      IF line = 0 THEN Default(funcs, c)
                      ELSE Loaded(funcs, Default(funcs, c), Reread(shtns_cfg[line].names))]
      /\ call' = [call EXCEPT ![p] = c]
      /\ pc' = [pc EXCEPT ![p] = IF Quick(c) \/ line # 0 THEN "ready" ELSE "timing"]
      /\ UNCHANGED shtns_cfg

(* The algorithms timed for one transform. One alone is not. *)
Candidates(p, t) ==
  {a \in Alg : /\ a.kind # "odd"
               /\ call[p].nthreads <= 1 => a.kind # "omp"
               /\ sht_func[p]["std"][a][t] # NULL}
Timed(p) ==
  {t \in Typ \ {"gto"} : /\ call[p].scalar => t \in Scalar
                         /\ \E a, b \in Candidates(p, t) : a # b}

(* choose_best_sht: any candidate may be the fastest, and the second         *)
(* gradient follows the first.                                               *)
choose_best_sht(p) ==
  LET like(t) == IF t = "gto" THEN "gsp" ELSE t
  IN  /\ pc[p] = "timing"
      /\ \E best \in [Timed(p) -> Alg] :
           /\ \A t \in Timed(p) : best[t] \in Candidates(p, t)
           /\ ftable' = [ftable EXCEPT ![p] =
                [v \in Variant |-> [t \in Typ |->
                   IF like(t) \in Timed(p) /\ sht_func[p][v][best[like(t)]][t] # NULL
                   THEN sht_func[p][v][best[like(t)]][t] ELSE @[v][t]]]]
      /\ pc' = [pc EXCEPT ![p] = IF call[p].keep THEN "saving" ELSE "ready"]
      /\ UNCHANGED <<sht_func, call, shtns_cfg>>

(* fprint_ftable: the first algorithm whose function is the one in use. *)
Names(p) ==
  [v \in Variant |-> [t \in Typ |->
     IF ftable[p][v][t] = NULL THEN None
     ELSE LET same == {a \in Alg : sht_func[p][v][a][t] = ftable[p][v][t]}
          IN  CHOOSE a \in same : \A b \in same : Rank(a) <= Rank(b)]]

(* What the file is after a line is appended. After a cut line the new one   *)
(* is read as the missing names of the cut one: numbers stand where the      *)
(* functions of std are, numbers or names where those of m are. What follows *)
(* is out of step and ends every later search.                               *)
Merged(last, line, read, a) ==
  Line(last.key,
       [last.names EXCEPT !["m"] =
          [t \in Typ |-> IF last.names["m"][t] = None /\ Column(t) > read
                         THEN a ELSE last.names["m"][t]]],
       "merged")

AppendLine(line) ==
  LET n == Len(shtns_cfg) IN
  \/ /\ ~ Torn(shtns_cfg)
     /\ shtns_cfg' = Append(shtns_cfg, line)
  \/ /\ Torn(shtns_cfg) /\ shtns_cfg[n].as # "cut"
     /\ UNCHANGED shtns_cfg
  \/ /\ Torn(shtns_cfg) /\ shtns_cfg[n].as = "cut"
     /\ \E read \in Cut, a \in {line.names["std"][t] : t \in Typ} :
          shtns_cfg' = [shtns_cfg EXCEPT ![n] = Merged(@, line, read, a)]

config_save(p) ==
  /\ pc[p] = "saving"
  /\ Len(shtns_cfg) < MaxLines \/ Torn(shtns_cfg)
  /\ AppendLine(Line(SaveKey(call[p]), Names(p), "whole"))
  /\ pc' = [pc EXCEPT ![p] = "ready"]
  /\ UNCHANGED <<sht_func, ftable, call>>

(* The disk is full, or the machine stops: the end of the line is missing.   *)
(* Without all its numbers it cannot be read, and what follows neither.      *)
ShortWrite(p) ==
  /\ pc[p] = "saving" /\ Len(shtns_cfg) < MaxLines /\ ~ Torn(shtns_cfg)
  /\ \E written \in Cut, v \in Variant, as \in {"cut", "unreadable"} :
       LET names == [w \in Variant |-> [t \in Typ |->
                       IF (v = "m" /\ w = "std") \/ (v = w /\ Column(t) <= written)
                       THEN Names(p)[w][t] ELSE None]]
       IN  /\ as = "unreadable" => written = 0 /\ v = "std"
           /\ shtns_cfg' = Append(shtns_cfg, Line(SaveKey(call[p]), names, as))
  /\ pc' = [pc EXCEPT ![p] = "ready"]
  /\ UNCHANGED <<sht_func, ftable, call>>

(* A program ends, or is killed, wherever it is. *)
Blank == [v \in Variant |-> [a \in Alg |-> [t \in Typ |-> NULL]]]
Unset == [v \in Variant |-> [t \in Typ |-> NULL]]

Exit(p) ==
  /\ pc[p] # "out"
  /\ sht_func' = [sht_func EXCEPT ![p] = Blank]
  /\ ftable' = [ftable EXCEPT ![p] = Unset]
  /\ pc' = [pc EXCEPT ![p] = "out"]
  /\ call' = [call EXCEPT ![p] = CHOOSE c \in Call : TRUE]
  /\ UNCHANGED shtns_cfg

Init ==
  /\ sht_func = [p \in Process |-> Blank]
  /\ ftable = [p \in Process |-> Unset]
  /\ call = [p \in Process |-> CHOOSE c \in Call : TRUE]
  /\ pc = [p \in Process |-> "out"]
  /\ shtns_cfg = <<>>

Next ==
  \E p \in Process :
    \/ \E c \in Call : shtns_set_grid_auto(p, c)
    \/ choose_best_sht(p) \/ config_save(p) \/ ShortWrite(p) \/ Exit(p)

Spec == Init /\ [][Next]_vars
-----------------------------------------------------------------------------
(* The functions of a type that may run on a grid: those for odd numbers of  *)
(* latitudes, those without FFT, or those of whole fields, never one that    *)
(* stores more latitudes at once than there are.                             *)
Right(c, v, t) ==
  {f \in Function :
     /\ f.typ = t
     /\ Fits(c, f.way)
     /\ v = "m" => f.family \in {"m", "s+v"}
     /\ v = "std" /\ Odd(c) => f.family = "odd"
     /\ v = "std" /\ ~ Odd(c) /\ c.nphi = 1 => f.family \in {"m0", "s+v"}
     /\ v = "std" /\ ~ Odd(c) /\ c.nphi # 1 => f.family \in {"fly", "omp", "s+v"}}

(* Whatever the file holds, torn lines of other grids and threads included,  *)
(* and whatever grids were set before, every function a configuration calls  *)
(* exists and is one for its grid.                                           *)
TableRight ==
  \A p \in Process : pc[p] # "out" =>
    \A v \in Variant, t \in Typ : ftable[p][v][t] \in Right(call[p], v, t)

(* "only one type of transform works with nlat odd. NEVER try others",       *)
(* "reg_poles needs NWAY>1 to work": those grids only ever use the default,  *)
(* although the file is searched for them too.                               *)
OnlyDefault ==
  \A p \in Process : pc[p] # "out" /\ (Odd(call[p]) \/ call[p].flags = "reg_poles") =>
    ftable[p] = Default(sht_func[p], call[p])

(* While no line was cut, what a timed configuration runs is in the file     *)
(* under the key it will be looked for by: the next start finds a line, and  *)
(* reading the line written for these functions gives them back, but for the *)
(* omp function of scalar synthesis, whose name is lost for the default.     *)
SavedAgain ==
  \A p \in Process :
    pc[p] = "ready" /\ call[p].keep /\ ~ Quick(call[p]) /\ ~ Torn(shtns_cfg) =>
      \E i \in Matching(shtns_cfg, LoadKey(call[p])) :
        LET default == Default(sht_func[p], call[p])
            again == Loaded(sht_func[p], default, Reread(shtns_cfg[i].names))
        IN  \A v \in Variant, t \in Typ :
              \/ again[v][t] = ftable[p][v][t]
              \/ v = "std" /\ t = "syn" /\ ftable[p][v][t].family = "omp"
                 /\ again[v][t] = default[v][t]

(* Inductive: tables hold what there is for the grid and lines can be named. *)
LineSet ==
  [key : {SaveKey(c) : c \in Call}, names : [Variant -> [Typ -> Name]],
   as : {"whole", "cut", "unreadable", "merged"}]

TypeOK ==
  /\ sht_func \in [Process -> [Variant -> [Alg -> [Typ -> Function \cup {NULL}]]]]
  /\ ftable \in [Process -> [Variant -> [Typ -> Function \cup {NULL}]]]
  /\ call \in [Process -> Call]
  /\ pc \in [Process -> {"out", "timing", "saving", "ready"}]
  /\ shtns_cfg \in Seq(LineSet)

Offered(funcs, v, t) == {funcs[v][a][t] : a \in Alg}

TableOfCall ==
  \A p \in Process : pc[p] # "out" =>
    /\ sht_func[p] = Filled(Blank, call[p])
    /\ \A v \in Variant, t \in Typ : ftable[p][v][t] \in Offered(sht_func[p], v, t)
    /\ pc[p] # "ready" => ~ Quick(call[p])

LinesSuit ==
  \A i \in DOMAIN shtns_cfg :
    /\ shtns_cfg[i].key.nlat % 2 # 1 /\ shtns_cfg[i].key.flags # "reg_poles"
    /\ \A t \in Typ : shtns_cfg[i].names["std"][t].kind # "odd"

AlgoInv == TypeOK /\ TableOfCall /\ LinesSuit /\ TableRight /\ OnlyDefault

(* Once a search finds a line, every later one finds the same: programs that *)
(* start again run the same functions, in spite of lines added or cut.       *)
LoadStable ==
  [][\A c \in Call :
       LET i == Match(shtns_cfg, LoadKey(c))
           j == Match(shtns_cfg', LoadKey(c))
       IN  i # 0 => j # 0 /\ shtns_cfg'[j].names = shtns_cfg[i].names]_shtns_cfg
=============================================================================
