---------------------------- MODULE MCDiskMgr32 ----------------------------
(***************************************************************************)
(* The instances of DiskMgr32 that TLC checks.                             *)
(***************************************************************************)
EXTENDS DiskMgr32, TLC

MixedDrives == {0 :> "fat" @@ 1 :> "cfs", 0 :> "cfs" @@ 1 :> "cfs"}
=============================================================================
