------------------------------ MODULE MCDesktop ------------------------------
(***************************************************************************)
(* The instances of Desktop that TLC checks.                               *)
(***************************************************************************)
EXTENDS Desktop

AtBoot == <<0, 1, 2, 8, 11>>
AtBoot4 == <<0, 1, 2, 8>>
=============================================================================
