----------------------------- MODULE MC_VBoxAux -----------------------------
(* Model checking VBoxAux with the most general caller: two client ids, so *)
(* that a session may be open when another one is asked for, and more      *)
(* shares than the caller's array has entries, so that a query overflows.  *)
EXTENDS VBoxAux

MCHostErrors == {-1}
MCClientIds  == {11, 12}
=============================================================================
