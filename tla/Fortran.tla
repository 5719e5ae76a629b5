------------------------------ MODULE Fortran ------------------------------
(* The Fortran interface works on the configuration at the head of the list. *)
(* A program keeps several by tags: shtns_save_cfg remembers the head under  *)
(* a tag, shtns_load_cfg looks for it in the list and moves it to the front, *)
(* the order in which shtns_create meets the tables it borrows. A tag that   *)
(* is too big, or whose configuration is gone, leaves everything as it is.   *)
EXTENDS ConfigShare

CONSTANT MAX_CONFIGS

ASSUME SlotAssumption == MAX_CONFIGS \in Nat

Tag == 0 .. MAX_CONFIGS - 1

VARIABLE shtns_configs  \* the configuration saved under each tag, or NULL

shtns_save_cfg(n) ==
  /\ Idle
  /\ shtns_configs' = [shtns_configs EXCEPT ![n] = IF sht_data = <<>> THEN NULL ELSE sht_data[1]]
  /\ UNCHANGED vars

(* Mutant: the tag is trusted, the list is not searched for what it holds. *)
shtns_load_cfg_trusted(n) ==
  LET c == shtns_configs[n]
  IN  /\ Idle
      /\ c # NULL /\ sht_data # <<>> /\ c # sht_data[1]
      /\ sht_data' = <<c>> \o (IF c \in Live THEN Unlink(c) ELSE sht_data)
      /\ UNCHANGED <<info, heap, resetting, ub, shtns_configs>>

shtns_load_cfg(n) ==
  LET c == shtns_configs[n]
  IN  /\ Idle
      /\ c \in Live /\ c # sht_data[1]
      /\ sht_data' = <<c>> \o Unlink(c)
      /\ UNCHANGED <<info, heap, resetting, ub, shtns_configs>>

(* The other calls know nothing of the tags. *)
Untagged == UNCHANGED shtns_configs

FortranInit ==
  /\ Init
  /\ shtns_configs = [n \in Tag |-> NULL]

TagNext == \E n \in Tag : shtns_save_cfg(n) \/ shtns_load_cfg(n)

FortranNext == (Next /\ Untagged) \/ TagNext

FortranSpec == FortranInit /\ [][FortranNext]_<<vars, shtns_configs>>
-----------------------------------------------------------------------------
(* Inductive: a tag holds an address, of a configuration that is there, that *)
(* is gone, or that was made at the address since.                           *)
SlotInv == shtns_configs \in [Tag -> Config \cup {NULL}]
=============================================================================
