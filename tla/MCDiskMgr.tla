------------------------------ MODULE MCDiskMgr ------------------------------
(***************************************************************************)
(* The instances of DiskMgr that TLC checks, the layout scaled down with   *)
(* its shape kept: a pasted file of slot 1 covers the sector of a file     *)
(* saved in slot 2, just as the 10 sectors of slot 1 cover slots 10 to 19. *)
(* Every drive has the same rights, and so has every text.                 *)
(***************************************************************************)
EXTENDS DiskMgr, TLC

Symmetry == Permutations(Drives) \cup Permutations(Texts)

=============================================================================
