------------------------------- MODULE MCAhci -------------------------------
(***************************************************************************)
(* The instances of Ahci that TLC checks.                                  *)
(***************************************************************************)
EXTENDS Ahci
=============================================================================
