---------------------------- MODULE ConfigShare ----------------------------
(* The list of configurations of the library and the heap blocks they share. *)
(* A new configuration borrows tables from the ones already in the list, a   *)
(* clone borrows everything, and a block is given back when the scan of the  *)
(* list finds no other configuration with the same pointer at the same       *)
(* offset. FFTW plans are copied like pointers but destroyed without a scan. *)
(*                                                                           *)
(* A pointer is <<f, k>>: block k among those allocated for field f. A       *)
(* block holds the truncation and normalisation it was computed for.         *)
EXTENDS LmIndex, Sequences, FiniteSets, Functions

CONSTANTS
  Config,    \* the addresses a struct shtns_info may have
  Block,     \* the blocks there may be for one field at one time (bound)
  Size,      \* the truncations asked of shtns_create
  Norm,      \* the normalisations asked of shtns_create
  GridCall,  \* the grids asked: with vector transforms or not, nphi > 1 or not
  Schmidt,   \* those based on sht_schmidt, which have an analysis matrix of their own
  NULL,      \* no pointer
  Free,      \* content of an address no block is allocated at
  Planned    \* content of an FFTW plan

ASSUME SizeAssumption ==
  \A s \in Size : /\ s \in [lmax : Nat, mmax : Nat, mres : Nat]
                  /\ ValidSize(s.lmax, s.mmax, s.mres)

VARIABLES
  sht_data,  \* the list of configurations, latest first
  info,      \* info[c]: the struct at address c, NULL when it is freed
  heap,      \* heap[b]: what block b holds, or Free
  resetting, \* a shtns_reset is running
  ub         \* "no", or how the last destruction left defined behaviour

vars == <<sht_data, info, heap, resetting, ub>>
-----------------------------------------------------------------------------
(* The pointers of a configuration. Those of a legendre_precomp call are     *)
(* three blocks, freed one by one; alm2, xlm, st, ... point inside these.    *)
Legendre == {"alm", "clm", "glm"}
Shared == Legendre \cup {"li", "l_2"}
Grid == {"wg", "ct"}
Matrix == {"mx_stdt", "mx_van"}
Plan == {"fft", "fft_rot"}
Memory == Shared \cup Grid \cup Matrix \cup {"ct_rot"}
Field == Memory \cup Plan

Pointer == Field \X Block
Content == [lmax : Nat, mmax : Nat, mres : Nat, norm : Norm]
Info == [lmax : Nat, mmax : Nat, mres : Nat, norm : Norm, nlm : Int,
         ptr : [Field -> Pointer \cup {NULL}]]

ASSUME GridAssumption == GridCall \subseteq [vector : BOOLEAN, fft : BOOLEAN]

ASSUME SentinelAssumption ==
  /\ NULL \notin Pointer /\ NULL \notin Info
  /\ Free \notin Content \cup {Planned} /\ Planned \notin Content

Live == Range(sht_data)

(* What a table of configuration c is computed from. *)
Key(c) == [lmax |-> info[c].lmax, mmax |-> info[c].mmax,
           mres |-> info[c].mres, norm |-> info[c].norm]

(* malloc: some address of field f that is not in use. *)
Room(h, f) == {k \in Block : h[<<f, k>>] = Free}
Malloc(h, f) == <<f, CHOOSE k \in Room(h, f) : TRUE>>

(* The heap after the blocks of B are allocated for configuration key k. *)
AllocAll(h, B, k) ==
  [b \in Pointer |-> IF b \notin B THEN h[b]
                     ELSE IF b[1] \in Plan THEN Planned ELSE k]

(* The heap after the blocks of B are freed. *)
FreeAll(h, B) == [b \in Pointer |-> IF b \in B THEN Free ELSE h[b]]

(* The number of configurations of the list that have the pointer of c at    *)
(* the offset of f; a NULL pointer is referenced by nobody.                  *)
ref_count(c, f) ==
  IF info[c].ptr[f] = NULL THEN 0
  ELSE Cardinality({i \in DOMAIN sht_data :
                      info[sht_data[i]].ptr[f] = info[c].ptr[f]})

(* The blocks of the fields F that only c references. *)
Unused(c, F) == {info[c].ptr[f] : f \in {g \in F : ref_count(c, g) = 1}}
-----------------------------------------------------------------------------
(* shtns_create looks at the whole list and keeps the last match. *)
Last(D) == CHOOSE i \in D : \A j \in D : j <= i

(* Mutant: the arrays of a configuration with fewer orders are borrowed too. *)
ArrayDonorsAnyMmax(s) ==
  {i \in DOMAIN sht_data : LET d == info[sht_data[i]] IN
     d.mres = s.mres /\ d.lmax = s.lmax}

ArrayDonors(s) ==
  {i \in DOMAIN sht_data : LET d == info[sht_data[i]] IN
     d.mmax >= s.mmax /\ d.mres = s.mres /\ d.lmax = s.lmax}

LegendreDonors(s, n) ==
  {i \in ArrayDonors(s) : info[sht_data[i]].norm = n}

L2Donors(s) == {i \in DOMAIN sht_data : info[sht_data[i]].lmax >= s.lmax}

Donors(f, s, n) ==
  IF f \in Legendre THEN LegendreDonors(s, n)
  ELSE IF f = "li" THEN ArrayDonors(s) ELSE L2Donors(s)

(* Full truncations get the tables and the plan of pseudo-spectral rotations. *)
Rotates(s) == s.lmax = s.mmax /\ s.mres = 1

Allocated(s, n) ==
  {f \in Shared : Donors(f, s, n) = {}}
    \cup (IF Rotates(s) THEN {"ct_rot", "fft_rot"} ELSE {})

(* Mutant: the struct is not cleared, its other pointers are what memory held. *)
NewInfoUncleared(s, n) ==
  [lmax |-> s.lmax, mmax |-> s.mmax, mres |-> s.mres, norm |-> n,
   nlm |-> nlm_calc(s.lmax, s.mmax, s.mres),
   ptr |-> [f \in Field |->
              IF f \in Allocated(s, n) THEN Malloc(heap, f)
              ELSE IF f \in Shared
                   THEN info[sht_data[Last(Donors(f, s, n))]].ptr[f]
              ELSE Free]]

(* struct shtns_info of a new configuration. *)
NewInfo(s, n) ==
  [lmax |-> s.lmax, mmax |-> s.mmax, mres |-> s.mres, norm |-> n,
   nlm |-> nlm_calc(s.lmax, s.mmax, s.mres),
   ptr |-> [f \in Field |->
              IF f \in Allocated(s, n) THEN Malloc(heap, f)
              ELSE IF f \in Shared
                   THEN info[sht_data[Last(Donors(f, s, n))]].ptr[f]
              ELSE NULL]]

Idle == ub = "no" /\ ~resetting

shtns_create(c, s, n) ==
  LET B == {Malloc(heap, f) : f \in Allocated(s, n)} IN
  /\ Idle
  /\ info[c] = NULL
  /\ \A f \in Allocated(s, n) : Room(heap, f) # {}
  /\ info' = [info EXCEPT ![c] = NewInfo(s, n)]
  /\ heap' = AllocAll(heap, B, [lmax |-> s.lmax, mmax |-> s.mmax,
                                 mres |-> s.mres, norm |-> n])
  /\ sht_data' = <<c>> \o sht_data
  /\ UNCHANGED <<resetting, ub>>

(* A clone: the whole struct is copied, pointers and plans included, and     *)
(* only mmax may differ.                                                     *)
shtns_create_with_grid(base, c, mmax) ==
  /\ Idle
  /\ base \in Live
  /\ info[c] = NULL
  /\ mmax <= info[base].mmax
  /\ info' = [info EXCEPT ![c] = [info[base] EXCEPT !.mmax = mmax]]
  /\ sht_data' = <<c>> \o sht_data
  /\ UNCHANGED <<heap, resetting, ub>>
-----------------------------------------------------------------------------
(* Mutants: the arrays of the grid are freed whoever has them, or never. *)
UngriddedAlways(c) ==
  FreeAll(heap, {info[c].ptr[f] : f \in {g \in Grid : info[c].ptr[g] # NULL}})
UngriddedNever(c) == heap

(* The heap once the grid of c is released. *)
Ungridded(c) == FreeAll(heap, Unused(c, Grid))

NoGrid(p) == [f \in Field |-> IF f \in Grid THEN NULL ELSE p[f]]

shtns_unset_grid(c) ==
  /\ Idle
  /\ c \in Live
  /\ heap' = Ungridded(c)
  /\ info' = [info EXCEPT ![c].ptr = NoGrid(info[c].ptr)]
  /\ UNCHANGED <<sht_data, resetting, ub>>

(* What shtns_set_grid_auto allocates: the matrices of vector transforms,    *)
(* the plans unless nphi = 1, and the arrays of the grid.                    *)
GridAllocated(c, vector, fft) ==
  Grid \cup (IF fft THEN {"fft"} ELSE {})
       \cup (IF vector THEN {"mx_stdt"} ELSE {})
       \cup (IF vector /\ info[c].norm \in Schmidt THEN {"mx_van"} ELSE {})

(* Releases the grid c had and builds a new one. The old matrices and plans  *)
(* are overwritten; without Schmidt both matrices are one block.             *)
shtns_set_grid_auto(c, vector, fft) ==
  LET h == Ungridded(c)
      A == GridAllocated(c, vector, fft)
      B == {Malloc(h, f) : f \in A}
  IN  /\ Idle
      /\ c \in Live
      /\ fft \/ info[c].mmax = 0      \* nphi > 2*mmax is enforced
      /\ \A f \in A : Room(h, f) # {}
      /\ heap' = AllocAll(h, B, Key(c))
      /\ info' = [info EXCEPT ![c].ptr =
                    [f \in Field |->
                       IF f \in A THEN Malloc(h, f)
                       ELSE IF f = "mx_van" /\ vector THEN Malloc(h, "mx_stdt")
                       ELSE info[c].ptr[f]]]
      /\ UNCHANGED <<sht_data, resetting, ub>>
-----------------------------------------------------------------------------
(* Mutants: a reference is missed by the scan; the matrices are not compared; *)
(* mx_van is only forgotten, never freed.                                     *)
ReleasedEarly(c) ==
  {f \in Memory : /\ ref_count(c, f) \in {1, 2}
                  /\ f = "mx_van" => info[c].ptr["mx_van"] # info[c].ptr["mx_stdt"]}
ReleasedTwice(c) == {f \in Memory : ref_count(c, f) = 1}
ReleasedForgotten(c) == {f \in Memory \ {"mx_van"} : ref_count(c, f) = 1}

(* The fields shtns_destroy frees: those only c references, mx_van not when  *)
(* it is the same block as mx_stdt.                                          *)
Released(c) ==
  {f \in Memory : /\ ref_count(c, f) = 1
                  /\ f = "mx_van" => info[c].ptr["mx_van"] # info[c].ptr["mx_stdt"]}

(* Plans are destroyed whoever else holds them. *)
PlansOf(c) == {f \in Plan : info[c].ptr[f] # NULL}

(* Mutant: the freed struct stays in the list. *)
UnlinkNothing(c) == sht_data

Unlink(c) ==
  LET p == CHOOSE i \in DOMAIN sht_data : sht_data[i] = c
  IN  SubSeq(sht_data, 1, p - 1) \o SubSeq(sht_data, p + 1, Len(sht_data))

(* How the frees of c leave defined behaviour, if they do. *)
Misuse(c) ==
  IF \/ \E f \in Released(c) : heap[info[c].ptr[f]] = Free
     \/ \E f, g \in Released(c) : f # g /\ info[c].ptr[f] = info[c].ptr[g]
  THEN "double free"
  ELSE IF \E f \in PlansOf(c) : heap[info[c].ptr[f]] = Free
  THEN "destroyed plan"
  ELSE "no"

Destroy(c) ==
  /\ ub' = Misuse(c)
  /\ heap' = FreeAll(heap, {info[c].ptr[f] : f \in Released(c) \cup PlansOf(c)})
  /\ info' = [info EXCEPT ![c] = NULL]
  /\ sht_data' = Unlink(c)

shtns_destroy(c) ==
  /\ Idle
  /\ c \in Live
  /\ Destroy(c)
  /\ UNCHANGED resetting

(* shtns_reset destroys the head of the list until the list is empty. *)
shtns_reset ==
  /\ Idle
  /\ resetting' = TRUE
  /\ UNCHANGED <<sht_data, info, heap, ub>>

ResetStep ==
  /\ ub = "no"
  /\ resetting
  /\ sht_data # <<>>
  /\ Destroy(sht_data[1])
  /\ UNCHANGED resetting

ResetEnd ==
  /\ ub = "no"
  /\ resetting
  /\ sht_data = <<>>
  /\ resetting' = FALSE
  /\ UNCHANGED <<sht_data, info, heap, ub>>
-----------------------------------------------------------------------------
Init ==
  /\ sht_data = <<>>
  /\ info = [c \in Config |-> NULL]
  /\ heap = [b \in Pointer |-> Free]
  /\ resetting = FALSE
  /\ ub = "no"

Next ==
  \/ \E c \in Config, s \in Size, n \in Norm : shtns_create(c, s, n)
  \/ \E base \in Live, c \in Config :
       \E mmax \in 0 .. info[base].mmax : shtns_create_with_grid(base, c, mmax)
  \/ \E c \in Config : shtns_unset_grid(c)
  \/ \E c \in Config, g \in GridCall : shtns_set_grid_auto(c, g.vector, g.fft)
  \/ \E c \in Config : shtns_destroy(c)
  \/ shtns_reset
  \/ ResetStep
  \/ ResetEnd

Spec == Init /\ [][Next]_vars
-----------------------------------------------------------------------------
(* Every variable keeps its type: a struct that is in use was cleared, all   *)
(* its pointers are set or NULL, and plans are never found in memory blocks. *)
TypeOK ==
  /\ sht_data \in Seq(Config)
  /\ info \in [Config -> Info \cup {NULL}]
  /\ heap \in [Pointer -> Content \cup {Free, Planned}]
  /\ \A b \in Pointer : heap[b] = Planned => b[1] \in Plan
  /\ resetting \in BOOLEAN
  /\ ub \in {"no", "double free", "destroyed plan"}

(* The list holds every struct that is allocated, once. *)
ListOK ==
  /\ \A c \in Config : c \in Live <=> info[c] # NULL
  /\ \A i, j \in DOMAIN sht_data : sht_data[i] = sht_data[j] => i = j

(* Whatever is created, cloned, re-gridded and destroyed, in any order, a    *)
(* configuration of the list never has a pointer to memory that was freed,   *)
(* nor to a block of another field: the scan of free_unused, which compares  *)
(* one offset only, is enough.                                               *)
NoDangling ==
  \A c \in Live, f \in Memory :
    LET p == info[c].ptr[f]
    IN  p # NULL => /\ heap[p] # Free
                    /\ \/ p[1] = f
                       \/ f = "mx_van" /\ p = info[c].ptr["mx_stdt"]

(* Plans are only reached through the pointers of plans. *)
PlansApart ==
  \A c \in Live, f \in Plan :
    info[c].ptr[f] # NULL => info[c].ptr[f][1] = f

(* No destruction frees a block twice, the shared vector matrix included. *)
NoDoubleFree == ub # "double free"

(* The tables a configuration uses were computed for its own lmax, mres and  *)
(* normalisation, and up to its mmax at least: what shtns_create or a clone  *)
(* borrows is never too small nor of another convention.                     *)
TablesFit ==
  \A c \in Live, f \in Memory :
    info[c].ptr[f] # NULL =>
      LET k == heap[info[c].ptr[f]]
      IN  IF f = "l_2" THEN k.lmax >= info[c].lmax
          ELSE /\ k.lmax = info[c].lmax
               /\ k.mres = info[c].mres
               /\ k.mmax >= info[c].mmax
               /\ f # "li" => k.norm = info[c].norm

(* Inductive: what every call relies on and restores. *)
ShareInv ==
  TypeOK /\ ListOK /\ NoDangling /\ PlansApart /\ NoDoubleFree /\ TablesFit

(* The last configuration to leave frees: a block of shared tables, of a     *)
(* grid or of rotations is allocated only while some configuration has it.   *)
(* (Vector matrices and plans are left out: see LostByRegridOnly.)           *)
NoLeak ==
  \A b \in Pointer :
    b[1] \in Shared \cup Grid \cup {"ct_rot"} /\ heap[b] # Free =>
      \E c \in Live : info[c].ptr[b[1]] = b

(* No call changes a table a configuration goes on using: a free followed by *)
(* an allocation at the same address would.                                  *)
TablesUntouched ==
  [][\A c \in Live \cap Live' : \A f \in Memory \ Grid :
       LET p == info[c].ptr[f]
       IN  p # NULL /\ info'[c].ptr[f] = p => heap'[p] = heap[p]]_vars

(* The matrices and plans that exist and no configuration has any more. *)
Stray ==
  {b \in Pointer : /\ b[1] \in Matrix \cup Plan
                   /\ heap[b] # Free
                   /\ \A c \in Live, f \in Field : info[c].ptr[f] # b}

(* What NoLeak leaves out: a matrix or a plan is lost in one way only, by a  *)
(* second grid of a configuration that goes on. Creations, clones, released  *)
(* grids, destructions and resets lose none, whoever borrows, whether the    *)
(* two matrices are one block or not.                                        *)
LostByRegridOnly ==
  [][\A b \in Stray' \ Stray :
       \E c \in Live \cap Live' : \E f \in Matrix \cup Plan :
         info[c].ptr[f] = b /\ info'[c].ptr[f] # b]_vars
-----------------------------------------------------------------------------
(* "free memory of given config, which cannot be used afterwards": the given *)
(* one only; the plans of the others are still there.                        *)
PlansAlive ==
  \A c \in Live, f \in Plan : info[c].ptr[f] # NULL => heap[info[c].ptr[f]] # Free
=============================================================================
