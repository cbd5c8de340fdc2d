---------------------------- MODULE MC_Uninstall ----------------------------
(* Model checking the removal of a resident copy: none to three mounts,    *)
(* two other resident programs, any number of runs of the program.         *)
EXTENDS Uninstall
=============================================================================
