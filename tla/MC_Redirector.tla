---------------------------- MODULE MC_Redirector ----------------------------
(* Model checking the resident handler: three drives of which none to two  *)
(* are mounted, and calls nested as deep as an interrupt inside the call   *)
(* that GetDosTime() makes inside a call of DOS.                           *)
EXTENDS Redirector

OtherMultiplex == {"other"}
=============================================================================
