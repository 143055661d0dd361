------------------------------- MODULE MCE1000 -------------------------------
(* The instances of E1000 that TLC checks. *)
EXTENDS E1000, TLC
=============================================================================
