----------------------------- MODULE LatCache -----------------------------
(* Synthesis along one latitude (SH_to_lat, SHqst_to_lat) keeps, in each     *)
(* configuration, the Legendre functions of the last latitude and the plan   *)
(* for the last number of longitudes. Clones copy both pointers and both     *)
(* keys, destroying a configuration frees neither. A table is allocated      *)
(* uninitialised and is filled up to the truncation of the call that fills   *)
(* it.                                                                       *)
EXTENDS ConfigShare

CONSTANTS
  Cost,      \* the latitudes asked for
  LatCall,   \* the numbers of longitudes and truncations asked for
  NoLat,     \* 2.0, no cosine
  Unset,     \* memory nobody wrote
  Buffer     \* the tables and plans there may be (bound)

(* The entries (l, im) a table may have. *)
Entry == UNION {(0 .. s.lmax) \X (0 .. s.mmax) : s \in Size}

ASSUME LatAssumption ==
  /\ LatCall \subseteq [nphi : Nat \ {0}, ltr : Nat, mtr : Nat]
  /\ NoLat \notin Cost /\ Unset \notin Cost \cup {NoLat}
  /\ NULL \notin Buffer
  /\ Free \notin Nat /\ Free \notin [Entry -> Cost \cup {Unset}]

VARIABLES
  ylm_lat, ct_lat,     \* the table of a configuration, and its latitude
  ifft_lat, nphi_lat,  \* its plan, and its number of longitudes
  legendre,            \* legendre[k]: entries (l, im) of table k, or Free
  plans,               \* plans[k]: the longitudes of plan k, or Free
  filled,              \* the entries the last filling of a table computed (history)
  mingled              \* configurations that had a cache another one had too (history)

latvars == <<ylm_lat, ct_lat, ifft_lat, nphi_lat, legendre, plans, filled, mingled>>
heaps == <<legendre, plans>>

(* malloc: the addresses nothing is at. *)
Vacant(h) == {k \in Buffer : h[k] = Free}

(* The truncation of a call: the degrees and orders of the configuration,    *)
(* the orders of the degree, the orders of the number of longitudes.         *)
Least(a, b) == IF a <= b THEN a ELSE b
Clipped(c, call) ==
  LET ltr == Least(call.ltr, info[c].lmax)
  IN  [ltr |-> ltr,
       mtr |-> Least(Least(Least(call.mtr, info[c].mmax), ltr \div info[c].mres),
                     (call.nphi - 1) \div (2 * info[c].mres))]

(* The entries a call reads, those it computes if it computes any.           *)
Used(c, call) ==
  LET t == Clipped(c, call)
  IN  {e \in (0 .. t.ltr) \X (0 .. t.mtr) : e[1] >= e[2] * info[c].mres}

(* Mutant: the latitude of a new configuration is cleared like the rest: 0.  *)
FreshCtCleared == CHOOSE x \in Cost : TRUE
FreshCt == NoLat

(* Blocks are never freed with their configuration: what block has[c] of h    *)
(* holds is never read again unless another configuration has it.            *)
Forgotten(c, has, h, blank) ==
  LET k == has[c]
  IN  IF k = NULL \/ h[k] = Free \/ \E d \in Live \ {c} : has[d] = k THEN h
      ELSE [h EXCEPT ![k] = blank]

(* A new struct has no table, no plan and an impossible latitude. *)
Blank(c) ==
  /\ ylm_lat' = [ylm_lat EXCEPT ![c] = NULL]
  /\ ifft_lat' = [ifft_lat EXCEPT ![c] = NULL]
  /\ ct_lat' = [ct_lat EXCEPT ![c] = FreshCt]
  /\ nphi_lat' = [nphi_lat EXCEPT ![c] = 0]
  /\ filled' = [filled EXCEPT ![c] = {}]
  /\ mingled' = mingled \ {c}
  /\ legendre' = Forgotten(c, ylm_lat, legendre, [e \in Entry |-> Unset])
  /\ plans' = Forgotten(c, ifft_lat, plans, 0)

(* The struct is copied, pointers and keys. *)
Copied(base, c) ==
  /\ ylm_lat' = [ylm_lat EXCEPT ![c] = ylm_lat[base]]
  /\ ifft_lat' = [ifft_lat EXCEPT ![c] = ifft_lat[base]]
  /\ ct_lat' = [ct_lat EXCEPT ![c] = ct_lat[base]]
  /\ nphi_lat' = [nphi_lat EXCEPT ![c] = nphi_lat[base]]
  /\ filled' = [filled EXCEPT ![c] = filled[base]]
  /\ mingled' = IF ylm_lat[base] = NULL THEN mingled ELSE mingled \cup {base, c}
  /\ UNCHANGED heaps

(* Mutant: the plan is kept whatever the number of longitudes. *)
ReplansOnce(c, nphi) == nphi_lat[c] = 0

(* A plan is made when the number of longitudes is another one. *)
Replans(c, nphi) == nphi # nphi_lat[c]

(* A table is filled when the latitude is another one. *)
Fills(c, x) == x # ct_lat[c]

(* The plans after the one of c is destroyed, if it makes another. *)
Rest(c, nphi) ==
  IF Replans(c, nphi) /\ ifft_lat[c] # NULL
  THEN [plans EXCEPT ![ifft_lat[c]] = Free] ELSE plans

(* SH_to_lat and SHqst_to_lat: x is the cosine of the colatitude. The table  *)
(* is at k, the plan at p, where a clone may still believe its own to be.    *)
SH_to_lat(c, x, call) ==
  LET table == IF ylm_lat[c] = NULL THEN [e \in Entry |-> Unset] ELSE legendre[ylm_lat[c]]
      remade == Replans(c, call.nphi)
  IN  \E k \in IF ylm_lat[c] = NULL THEN Vacant(legendre) ELSE {ylm_lat[c]},
         p \in IF remade THEN Vacant(Rest(c, call.nphi)) ELSE {ifft_lat[c]} :
      /\ Idle /\ c \in Live
      /\ ylm_lat' = [ylm_lat EXCEPT ![c] = k]
      /\ ct_lat' = [ct_lat EXCEPT ![c] = x]
      /\ legendre' = [legendre EXCEPT ![k] =
                        [e \in Entry |-> IF Fills(c, x) /\ e \in Used(c, call)
                                         THEN x ELSE table[e]]]
      /\ filled' = [filled EXCEPT ![c] = IF Fills(c, x) THEN Used(c, call) ELSE @]
      /\ ifft_lat' = [ifft_lat EXCEPT ![c] = p]
      /\ nphi_lat' = [nphi_lat EXCEPT ![c] = call.nphi]
      /\ plans' = [Rest(c, call.nphi) EXCEPT ![p] = IF remade THEN call.nphi ELSE @]
      /\ ub' = IF ifft_lat[c] # NULL /\ plans[ifft_lat[c]] = Free
               THEN "destroyed plan" ELSE ub
      /\ mingled' = IF \E d \in Live \ {c} : ifft_lat[d] = p THEN mingled \cup {c} ELSE mingled
      /\ UNCHANGED <<sht_data, info, heap, resetting>>

LatInit ==
  /\ Init
  /\ ylm_lat = [c \in Config |-> NULL] /\ ct_lat = [c \in Config |-> NoLat]
  /\ ifft_lat = [c \in Config |-> NULL] /\ nphi_lat = [c \in Config |-> 0]
  /\ legendre = [k \in Buffer |-> Free] /\ plans = [k \in Buffer |-> Free]
  /\ filled = [c \in Config |-> {}] /\ mingled = {}

(* Grids are left out: the caches do not depend on them.                     *)
LatNext ==
  \/ \E c \in Config, s \in Size, n \in Norm : shtns_create(c, s, n) /\ Blank(c)
  \/ \E base \in Live, c \in Config :
       \E mmax \in 0 .. info[base].mmax :
         shtns_create_with_grid(base, c, mmax) /\ Copied(base, c)
  \/ \E c \in Config : shtns_destroy(c) /\ Blank(c)
  \/ \E c \in Live, x \in Cost, call \in LatCall : SH_to_lat(c, x, call)

LatSpec == LatInit /\ [][LatNext]_<<vars, latvars>>
-----------------------------------------------------------------------------
(* Unless its table was shared with a clone, the entries of the last filling *)
(* of a configuration are those of the latitude it is remembered by: a call  *)
(* that truncates no higher than that one reads nothing stale, whatever was  *)
(* called, created and destroyed meanwhile.                                  *)
LatOfFilling ==
  \A c \in Live \ mingled : ct_lat[c] # NoLat =>
    /\ ylm_lat[c] # NULL /\ filled[c] # {}
    /\ \A e \in filled[c] : legendre[ylm_lat[c]][e] = ct_lat[c]

(* Unless its plan came to be where a clone believes its own to be, the plan *)
(* a call executes without making another exists, is for the longitudes of   *)
(* the call and belongs to no other configuration, which would destroy it    *)
(* for longitudes of its own.                                                *)
LatPlanned ==
  \A c \in Live \ mingled, call \in LatCall : ~ Replans(c, call.nphi) =>
    /\ ifft_lat[c] # NULL /\ plans[ifft_lat[c]] = call.nphi
    /\ \A d \in Live \ {c} : ifft_lat[d] # ifft_lat[c]

(* Every variable keeps its type. *)
LatTypeOK ==
  /\ ylm_lat \in [Config -> Buffer \cup {NULL}]
  /\ ct_lat \in [Config -> Cost \cup {NoLat}]
  /\ ifft_lat \in [Config -> Buffer \cup {NULL}]
  /\ nphi_lat \in [Config -> Nat]
  /\ legendre \in [Buffer -> [Entry -> Cost \cup {Unset}] \cup {Free}]
  /\ plans \in [Buffer -> Nat \cup {Free}]
  /\ filled \in [Config -> SUBSET Entry]
  /\ mingled \subseteq Live

(* A table, a latitude, a plan and its longitudes come together. *)
LatTogether ==
  \A c \in Config :
    /\ ylm_lat[c] = NULL <=> ct_lat[c] = NoLat
    /\ ylm_lat[c] = NULL <=> ifft_lat[c] = NULL
    /\ ylm_lat[c] = NULL <=> nphi_lat[c] = 0
    /\ ylm_lat[c] # NULL => c \in Live /\ legendre[ylm_lat[c]] # Free

(* Only mingled configurations have a cache in common. *)
LatApart ==
  \A c, d \in Config :
    c # d /\ c \notin mingled =>
      /\ ylm_lat[c] # NULL => ylm_lat[d] # ylm_lat[c]
      /\ ifft_lat[c] # NULL => ifft_lat[d] # ifft_lat[c]

(* The plan of a configuration that is not is for the longitudes it keeps. *)
LatPlans ==
  \A c \in Live \ mingled : ifft_lat[c] # NULL => plans[ifft_lat[c]] = nphi_lat[c]

(* A configuration is no larger than one that was created. *)
LatSizes ==
  \A c \in Live : \E s \in Size :
    info[c].lmax = s.lmax /\ info[c].mres = s.mres /\ info[c].mmax <= s.mmax

(* Inductive, with the invariant of the list. *)
LatInv == LatTypeOK /\ LatTogether /\ LatApart /\ LatPlans /\ LatSizes /\ LatOfFilling
=============================================================================
