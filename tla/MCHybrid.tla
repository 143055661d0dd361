------------------------------ MODULE MCHybrid ------------------------------
(***************************************************************************)
(* The instances of Hybrid that TLC checks.                                *)
(***************************************************************************)
EXTENDS Hybrid
=============================================================================
