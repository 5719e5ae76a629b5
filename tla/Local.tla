------------------------------- MODULE Local --------------------------------
(* A program that works on several configurations by tag and synthesises     *)
(* along latitudes with any of them.                                         *)
EXTENDS Fortran, LatCache

LocalInit == FortranInit /\ LatInit
LocalNext == (LatNext /\ Untagged) \/ (TagNext /\ UNCHANGED latvars)
LocalSpec == LocalInit /\ [][LocalNext]_<<vars, shtns_configs, latvars>>
=============================================================================
