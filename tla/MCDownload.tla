----------------------------- MODULE MCDownload -----------------------------
(***************************************************************************)
(* The instances of Download that TLC checks.  The local ports are alike;  *)
(* the packages are not: one of them is behind a name.                     *)
(***************************************************************************)
EXTENDS Download, TLC

Symmetry == Permutations(Ports)

=============================================================================
